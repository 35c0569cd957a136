----------------------- MODULE ImportProcessingProofs -----------------------
(***************************************************************************)
(* The safety properties of ImportProcessing for any number of jobs,       *)
(* attempts, builds, runs, results and faults.                             *)
(*                                                                         *)
(* The inductive invariant is a conjunction over jobs, JobInv.  Its core   *)
(* is Sound: what a handler, wherever it stands, may rely on.  Sound       *)
(* mentions the operation and the records only through facts that no step  *)
(* of another attempt can undo (Forward).                                  *)
(***************************************************************************)
EXTENDS ImportProcessing, TLAPS

(* What is stored of the report as a build reads it. *)
ParseIn(recs, b) == \E e \in recs : e.kind = "parse" /\ e.build = b
ScanIn(recs, b, r, id) ==
    \E e \in recs : e.kind = "scan" /\ e.run = r /\ e.build = b /\ e.id = id
ObservationIn(recs, b, r, k, scan, id) ==
    \E e \in recs : /\ e.kind = "observation" /\ e.run = r /\ e.result = k
                    /\ e.parent = scan /\ e.build = b /\ e.id = id
InterpretationIn(recs, kind, r, k, observation) ==
    \E e \in recs : e.kind = kind /\ e.run = r /\ e.result = k /\ e.parent = observation
ResultIn(recs, b, r, k, scan) ==
    \E o \in recs :
        /\ o.kind = "observation" /\ o.run = r /\ o.result = k
        /\ o.parent = scan /\ o.build = b
        /\ InterpretationIn(recs, "normalization", r, k, o.id)
        /\ InterpretationIn(recs, "correlation", r, k, o.id)
RunIn(recs, b, r) ==
    \E scan \in recs :
        /\ scan.kind = "scan" /\ scan.run = r /\ scan.build = b
        /\ \A k \in 1..ResultsIn[r] : ResultIn(recs, b, r, k, scan.id)
ReportIn(recs, b) == ParseIn(recs, b) /\ \A r \in 1..Runs : RunIn(recs, b, r)

(* Everything before a step of the loops is stored, and the identifiers the *)
(* loop carries are those of stored rows.                                   *)
Progress(recs, b, step, scan, observation) ==
    /\ step.kind = "parse" => step.run = 0
    /\ step.kind \in {"parse", "scan"} => step.result = 0
    /\ step.kind # "parse" => ParseIn(recs, b) /\ step.run \in 1..Runs
    /\ \A r \in 1..Runs : r < step.run => RunIn(recs, b, r)
    /\ step.kind \in {"observation", "normalization", "correlation"} =>
          /\ ScanIn(recs, b, step.run, scan)
          /\ step.result \in 1..ResultsIn[step.run]
          /\ \A k \in 1..ResultsIn[step.run] :
                k < step.result => ResultIn(recs, b, step.run, k, scan)
    /\ step.kind \in {"normalization", "correlation"} =>
          ObservationIn(recs, b, step.run, step.result, scan, observation)
    /\ step.kind = "correlation" =>
          InterpretationIn(recs, "normalization", step.run, step.result, observation)

Sound(h, state, recs) ==
    /\ h.pc # "idle" => state # "absent"
    /\ h.pc \notin {"idle", "ended"} => h.build \in Builds
    /\ h.pc # "record" => h.step = FirstStep
    /\ h.pc = "authorize" /\ h.seen \in Terminal => state = h.seen
    /\ h.pc = "record" => Progress(recs, h.build, h.step, h.scan, h.observation)
    /\ h.pc = "complete" => ReportIn(recs, h.build)
    /\ h.pc = "report" /\ h.outcome = "succeeded" => state = "succeeded"
    /\ h.pc = "report" /\ h.outcome = "permanent" => state \in Terminal

SameSource(e, f) ==
    /\ e.kind = f.kind /\ e.run = f.run /\ e.result = f.result
    /\ e.kind = "parse" => e.build = f.build

(* Rows are unique per source, scans belong to a run of the report, and every *)
(* other row has the row it was made from.                                    *)
RecordsInv(recs) ==
    /\ recs \subseteq Record
    /\ \A e, f \in recs : SameSource(e, f) => e = f
    /\ \A e \in recs :
          /\ e.kind \in {"parse", "scan"} => e.result = 0
          /\ e.kind = "parse" => e.run = 0
          /\ e.kind = "scan" => e.run \in 1..Runs
          /\ e.kind = "observation" => ScanIn(recs, e.build, e.run, e.parent)
          /\ e.kind \in {"normalization", "correlation"} =>
                \E o \in recs : /\ o.kind = "observation" /\ o.run = e.run
                                /\ o.result = e.result /\ o.id = e.parent

Agree(state, import) ==
    <<state, import>> \in
        {<<"absent", "absent">>, <<"queued", "queued">>, <<"running", "processing">>,
         <<"succeeded", "succeeded">>, <<"failed", "failed">>}

(* The two public resources, the records and the job. *)
DomainInv(op, import, recs) ==
    /\ op \in Operation /\ Agree(op.state, import)
    /\ RecordsInv(recs)
    /\ op.state = "succeeded" => op.scans = Runs /\ \E b \in Builds : ReportIn(recs, b)

LedgerInv(stat, use, state) ==
    /\ stat \in Statuses /\ use \in 0..AttemptLimit
    /\ stat = "absent" => use = 0
    /\ stat = "absent" <=> state = "absent"
    /\ stat = "succeeded" => state = "succeeded"

ProcessingShape ==
    /\ status \in [Jobs -> Statuses] /\ used \in [Jobs -> 0..AttemptLimit]
    /\ operation \in [Jobs -> Operation] /\ importState \in [Jobs -> ImportStates]
    /\ records \in [Jobs -> SUBSET Record]
    /\ handler \in [Jobs -> [Attempts -> Handler]]

JobInv(j) ==
    /\ DomainInv(operation[j], importState[j], records[j])
    /\ LedgerInv(status[j], used[j], operation[j].state)
    /\ \A a \in Attempts : Sound(handler[j][a], operation[j].state, records[j])

ProcessingInv == ProcessingShape /\ \A j \in Jobs : JobInv(j)

-----------------------------------------------------------------------------
(* Facts about records that more records do not undo. *)

(* A row that is stored stays stored. *)
LEMMA PartsGrow ==
    ASSUME NEW recs, NEW more, recs \subseteq more, NEW b
    PROVE  /\ ParseIn(recs, b) => ParseIn(more, b)
           /\ \A r, id : ScanIn(recs, b, r, id) => ScanIn(more, b, r, id)
           /\ \A r, k, scan, id : ObservationIn(recs, b, r, k, scan, id) =>
                                  ObservationIn(more, b, r, k, scan, id)
           /\ \A kind, r, k, o : InterpretationIn(recs, kind, r, k, o) =>
                                 InterpretationIn(more, kind, r, k, o)
  BY DEF ParseIn, ScanIn, ObservationIn, InterpretationIn

(* The same for a result with its interpretations, *)
LEMMA ResultGrows ==
    ASSUME NEW recs, NEW more, recs \subseteq more, NEW b, NEW r, NEW k, NEW scan,
           ResultIn(recs, b, r, k, scan)
    PROVE  ResultIn(more, b, r, k, scan)
  BY PartsGrow DEF ResultIn

(* for a run, *)
LEMMA RunGrows ==
    ASSUME NEW recs, NEW more, recs \subseteq more, NEW b, NEW r, RunIn(recs, b, r)
    PROVE  RunIn(more, b, r)
  BY ResultGrows DEF RunIn

(* for the report, *)
LEMMA ReportGrows ==
    ASSUME NEW recs, NEW more, recs \subseteq more, NEW b, ReportIn(recs, b)
    PROVE  ReportIn(more, b)
  BY PartsGrow, RunGrows DEF ReportIn

(* and for what a loop has stored so far. *)
LEMMA ProgressGrows ==
    ASSUME NEW recs, NEW more, recs \subseteq more, NEW b, NEW step, NEW scan, NEW observation,
           Progress(recs, b, step, scan, observation)
    PROVE  Progress(more, b, step, scan, observation)
  <1>1. step.kind # "parse" => ParseIn(more, b) /\ step.run \in 1..Runs
    BY PartsGrow DEF Progress
  <1>2. \A r \in 1..Runs : r < step.run => RunIn(more, b, r)
    BY RunGrows DEF Progress
  <1>3. step.kind \in {"observation", "normalization", "correlation"} =>
          /\ ScanIn(more, b, step.run, scan)
          /\ step.result \in 1..ResultsIn[step.run]
          /\ \A k \in 1..ResultsIn[step.run] :
                k < step.result => ResultIn(more, b, step.run, k, scan)
    BY PartsGrow, ResultGrows DEF Progress
  <1>4. /\ step.kind \in {"normalization", "correlation"} =>
             ObservationIn(more, b, step.run, step.result, scan, observation)
        /\ step.kind = "correlation" =>
             InterpretationIn(more, "normalization", step.run, step.result, observation)
        /\ step.kind = "parse" => step.run = 0
        /\ step.kind \in {"parse", "scan"} => step.result = 0
    BY PartsGrow DEF Progress
  <1>5. QED
    BY <1>1, <1>2, <1>3, <1>4 DEF Progress

(* Another attempt may add records and end the operation, never undo either. *)
Forward(state, after, recs, more) ==
    /\ recs \subseteq more
    /\ state # "absent" => after # "absent"
    /\ state \in Terminal => after = state

(* What a handler relies on survives every step of the operation and every  *)
(* row that other attempts add.                                             *)
LEMMA SoundForward ==
    ASSUME NEW h, NEW state, NEW after, NEW recs, NEW more,
           Forward(state, after, recs, more), Sound(h, state, recs)
    PROVE  Sound(h, after, more)
  <1>1. h.pc = "record" => Progress(more, h.build, h.step, h.scan, h.observation)
    BY ProgressGrows DEF Forward, Sound
  <1>2. h.pc = "complete" => ReportIn(more, h.build)
    BY ReportGrows DEF Forward, Sound
  <1>3. QED
    BY <1>1, <1>2 DEF Forward, Sound, Terminal

-----------------------------------------------------------------------------
(* The insertion of a row. *)

(* A row that a handler may ask for. *)
Proper(row, recs) ==
    /\ row \in Record
    /\ row.kind \in {"parse", "scan"} => row.result = 0
    /\ row.kind = "parse" => row.run = 0
    /\ row.kind = "scan" => row.run \in 1..Runs
    /\ row.kind = "observation" => ScanIn(recs, row.build, row.run, row.parent)

(* A row that is accepted is found by its key or new, and has the row it    *)
(* is made from.                                                            *)
LEMMA VerdictCases ==
    ASSUME NEW j, NEW row, row.kind \in RecordKinds, Verdict(j, row) \in {"new", "replay"}
    PROVE  /\ Verdict(j, row) = Found(j, row)
           /\ row.kind \in {"normalization", "correlation"} =>
                \E e \in records[j] :
                    /\ e.kind = (IF row.kind = "normalization" THEN "observation"
                                                              ELSE "normalization")
                    /\ e.run = row.run /\ e.result = row.result
                    /\ IF row.kind = "normalization" THEN e.id = row.parent
                                                     ELSE e.parent = row.parent
  <1>1. CASE row.kind = "parse"
    BY <1>1 DEF Verdict, RecordParseOutput
  <1>2. CASE row.kind = "scan"
    BY <1>2 DEF Verdict, RecordScan
  <1>3. CASE row.kind = "observation"
    BY <1>3, Zenon DEF Verdict, RecordObservation
  <1>4. CASE row.kind = "normalization"
    BY <1>4, Zenon DEF Verdict, RecordNormalization
  <1>5. CASE row.kind = "correlation"
    BY <1>5, Zenon DEF Verdict, RecordUncorrelated
  <1>6. QED
    BY <1>1, <1>2, <1>3, <1>4, <1>5 DEF RecordKinds

(* A row that is not there finds its place. *)
LEMMA SourceFree ==
    ASSUME NEW j, NEW row, RecordsInv(records[j]), Proper(row, records[j]),
           Verdict(j, row) = "new", NEW e \in records[j]
    PROVE  ~SameSource(e, row)
  <1> SUFFICES ASSUME SameSource(e, row) PROVE FALSE
    OBVIOUS
  <1>1. /\ e.kind = row.kind /\ e.run = row.run /\ e.result = row.result
        /\ row.kind \in RecordKinds
    BY DEF SameSource, Proper, Record
  <1>2. Existing(j, row) = {}
    BY <1>1, VerdictCases DEF Found
  <1>3. CASE row.kind = "parse"
    BY <1>1, <1>2, <1>3 DEF Existing, ParseOutputKey, SameSource
  <1>4. CASE row.kind = "scan"
    BY <1>1, <1>2, <1>4 DEF Existing, ScanKey
  <1>5. CASE row.kind = "observation"
    <2>1. PICK s \in records[j] : /\ s.kind = "scan" /\ s.run = row.run
                                  /\ s.build = row.build /\ s.id = row.parent
      BY <1>5 DEF Proper, ScanIn
    <2>2. PICK t \in records[j] : /\ t.kind = "scan" /\ t.run = e.run
                                  /\ t.build = e.build /\ t.id = e.parent
      BY <1>1, <1>5 DEF RecordsInv, ScanIn
    <2>3. s = t
      BY <1>1, <2>1, <2>2 DEF RecordsInv, SameSource
    <2>4. QED
      BY <1>1, <1>2, <1>5, <2>1, <2>2, <2>3 DEF Existing, ObservationKey
  <1>6. CASE row.kind \in {"normalization", "correlation"}
    <2>1. PICK o \in records[j] : /\ o.kind = "observation" /\ o.run = e.run
                                  /\ o.result = e.result /\ o.id = e.parent
      BY <1>1, <1>6 DEF RecordsInv
    <2>2. PICK p \in records[j] : /\ p.kind = "observation" /\ p.run = row.run
                                  /\ p.result = row.result /\ p.id = row.parent
      <3>1. CASE row.kind = "normalization"
        BY <1>1, <3>1, VerdictCases
      <3>2. CASE row.kind = "correlation"
        <4>1. PICK n \in records[j] : /\ n.kind = "normalization" /\ n.run = row.run
                                      /\ n.result = row.result /\ n.parent = row.parent
          BY <1>1, <3>2, VerdictCases
        <4>2. QED
          BY <4>1 DEF RecordsInv
      <3>3. QED
        BY <1>6, <3>1, <3>2
    <2>3. o = p
      BY <1>1, <2>1, <2>2 DEF RecordsInv, SameSource
    <2>4. QED
      BY <1>1, <1>2, <1>6, <2>1, <2>2, <2>3 DEF Existing, InterpretationKey
  <1>7. QED
    BY <1>1, <1>3, <1>4, <1>5, <1>6 DEF RecordKinds

(* Adding a new row keeps rows unique per source, and under their parents. *)
LEMMA RowAdded ==
    ASSUME NEW j, NEW row, RecordsInv(records[j]), Proper(row, records[j]),
           Verdict(j, row) = "new"
    PROVE  RecordsInv(records[j] \cup {row})
  <1> DEFINE recs == records[j]
             more == recs \cup {row}
  <1>1. more \subseteq Record
    BY DEF RecordsInv, Proper
  <1>2. ASSUME NEW e \in more, NEW f \in more, SameSource(e, f)
        PROVE  e = f
    <2>1. CASE e \in recs /\ f \in recs
      BY <1>2, <2>1 DEF RecordsInv
    <2>2. CASE e \in recs /\ f = row
      BY <1>2, <2>2, SourceFree
    <2>3. CASE e = row /\ f \in recs
      <3>1. SameSource(f, row)
        BY <1>2, <2>3 DEF SameSource
      <3>2. QED
        BY <2>3, <3>1, SourceFree
    <2>4. QED
      BY <2>1, <2>2, <2>3
  <1>3. ASSUME NEW e \in more
        PROVE  /\ e.kind \in {"parse", "scan"} => e.result = 0
               /\ e.kind = "parse" => e.run = 0
               /\ e.kind = "scan" => e.run \in 1..Runs
               /\ e.kind = "observation" => ScanIn(more, e.build, e.run, e.parent)
               /\ e.kind \in {"normalization", "correlation"} =>
                     \E o \in more : /\ o.kind = "observation" /\ o.run = e.run
                                     /\ o.result = e.result /\ o.id = e.parent
    <2>1. CASE e \in recs
      BY <2>1, PartsGrow DEF RecordsInv
    <2>2. CASE e = row
      <3>1. row.kind = "observation" => ScanIn(more, row.build, row.run, row.parent)
        BY PartsGrow DEF Proper
      <3>2. row.kind = "normalization" =>
              \E o \in recs : /\ o.kind = "observation" /\ o.run = row.run
                              /\ o.result = row.result /\ o.id = row.parent
        BY VerdictCases DEF RecordKinds
      <3>3. row.kind = "correlation" =>
              \E o \in recs : /\ o.kind = "observation" /\ o.run = row.run
                              /\ o.result = row.result /\ o.id = row.parent
        <4>1. SUFFICES ASSUME row.kind = "correlation"
                       PROVE  \E o \in recs : /\ o.kind = "observation" /\ o.run = row.run
                                              /\ o.result = row.result /\ o.id = row.parent
          OBVIOUS
        <4>2. PICK n \in recs : /\ n.kind = "normalization" /\ n.run = row.run
                                /\ n.result = row.result /\ n.parent = row.parent
          BY <4>1, VerdictCases DEF RecordKinds
        <4>3. QED
          BY <4>2 DEF RecordsInv
      <3>4. QED
        BY <2>2, <3>1, <3>2, <3>3 DEF Proper
    <2>3. QED
      BY <2>1, <2>2
  <1>4. QED
    BY <1>1, <1>2, <1>3 DEF RecordsInv

(* What is stored once a row was inserted or found. *)
StepStored(recs, b, step, scan, observation, id) ==
    /\ step.kind = "parse" => ParseIn(recs, b)
    /\ step.kind = "scan" => ScanIn(recs, b, step.run, id)
    /\ step.kind = "observation" =>
          ObservationIn(recs, b, step.run, step.result, scan, id)
    /\ step.kind \in {"normalization", "correlation"} =>
          InterpretationIn(recs, step.kind, step.run, step.result, observation)

(* The row that Record answers with, new or replayed, is the element it     *)
(* was called for.                                                          *)
LEMMA RowStored ==
    ASSUME NEW j, NEW row, row.kind \in RecordKinds,
           Verdict(j, row) \in {"new", "replay"},
           NEW stored \in Existing(j, row) \cup {row}
    PROVE  /\ stored.kind = row.kind /\ stored.build = row.build
           /\ row.kind = "scan" => stored.run = row.run
           /\ row.kind = "observation" =>
                 stored.run = row.run /\ stored.result = row.result /\ stored.parent = row.parent
           /\ row.kind \in {"normalization", "correlation"} =>
                 stored.run = row.run /\ stored.result = row.result /\ stored.parent = row.parent
  <1>1. CASE stored = row
    BY <1>1
  <1>2. CASE stored \in Existing(j, row)
    <2>1. Found(j, row) \in {"new", "replay"} /\ Existing(j, row) # {}
      BY <1>2, VerdictCases
    <2>2. stored.build = row.build
      BY <1>2, <2>1 DEF Found
    <2>3. stored.kind = row.kind
      BY <1>2 DEF Existing
    <2>4. row.kind = "scan" => stored.run = row.run
      BY <1>2 DEF Existing, ScanKey
    <2>5. row.kind = "observation" =>
            stored.run = row.run /\ stored.result = row.result /\ stored.parent = row.parent
      BY <1>2 DEF Existing, ObservationKey
    <2>6. row.kind \in {"normalization", "correlation"} =>
            stored.run = row.run /\ stored.result = row.result /\ stored.parent = row.parent
      BY <1>2 DEF Existing, InterpretationKey
    <2>7. QED
      BY <2>2, <2>3, <2>4, <2>5, <2>6
  <1>3. QED
    BY <1>1, <1>2

(* The row that Record answers with is stored. *)
LEMMA RowKept ==
    ASSUME NEW j, NEW row, row.kind \in RecordKinds,
           Verdict(j, row) \in {"new", "replay"},
           NEW stored \in Existing(j, row) \cup {row},
           Existing(j, row) # {} => stored \in Existing(j, row)
    PROVE  stored \in (IF Verdict(j, row) = "new" THEN records[j] \cup {row} ELSE records[j])
  <1>1. CASE Existing(j, row) = {}
    <2>1. stored = row
      BY <1>1
    <2>2. Verdict(j, row) = "new"
      BY <1>1, VerdictCases DEF Found
    <2>3. QED
      BY <2>1, <2>2
  <1>2. CASE Existing(j, row) # {}
    <2>1. stored \in records[j]
      BY <1>2 DEF Existing
    <2>2. QED
      BY <2>1
  <1>3. QED
    BY <1>1, <1>2

-----------------------------------------------------------------------------
(* The loops go on. *)

Step == [kind : RecordKinds, run : 0..Runs, result : Nat]

(* Where a loop stands after a call. *)
Arrived(recs, b, next, scan, observation) ==
    /\ next \in Step
    /\ next = FirstStep => ReportIn(recs, b)
    /\ next # FirstStep => Progress(recs, b, next, scan, observation)

(* With all results of run r stored, the loop goes on to a run of which     *)
(* nothing is needed, or ends.                                              *)
LEMMA NextRunArrives ==
    ASSUME NEW recs, NEW b, NEW r \in 0..Runs, NEW scan, NEW observation,
           ParseIn(recs, b), \A s \in 1..Runs : s <= r => RunIn(recs, b, s)
    PROVE  Arrived(recs, b, NextRun(r), scan, observation)
  <1>1. CASE r < Runs
    <2> DEFINE next == [kind |-> "scan", run |-> r + 1, result |-> 0]
    <2>1. NextRun(r) = next
      BY <1>1 DEF NextRun
    <2>2. /\ next.kind = "scan" /\ next.run = r + 1 /\ next.result = 0
          /\ next \in Step /\ next # FirstStep
      BY <1>1, ProcessingConstants DEF Step, RecordKinds, FirstStep
    <2> HIDE DEF next
    <2>3. next.run \in 1..Runs /\ \A s \in 1..Runs : s < next.run => s <= r
      BY <1>1, <2>2, ProcessingConstants
    <2>4. Progress(recs, b, next, scan, observation)
      BY <2>2, <2>3 DEF Progress
    <2>5. QED
      BY <2>1, <2>2, <2>4 DEF Arrived
  <1>2. CASE ~(r < Runs)
    <2>1. NextRun(r) = FirstStep
      BY <1>2 DEF NextRun
    <2>2. FirstStep \in Step
      BY ProcessingConstants DEF FirstStep, Step, RecordKinds
    <2>3. \A s \in 1..Runs : s <= r
      BY <1>2, ProcessingConstants
    <2>4. ReportIn(recs, b)
      BY <2>3 DEF ReportIn
    <2>5. QED
      BY <2>1, <2>2, <2>4 DEF Arrived
  <1>3. QED
    BY <1>1, <1>2

(* With k results of a run stored, the loop goes on to the next one, or to  *)
(* the next run.                                                            *)
LEMMA NextResultArrives ==
    ASSUME NEW recs, NEW b, NEW r \in 1..Runs, NEW k \in Nat, k <= ResultsIn[r],
           NEW scan, NEW observation, ParseIn(recs, b),
           \A s \in 1..Runs : s < r => RunIn(recs, b, s), ScanIn(recs, b, r, scan),
           \A n \in 1..ResultsIn[r] : n <= k => ResultIn(recs, b, r, n, scan)
    PROVE  Arrived(recs, b, NextResult(r, k), scan, observation)
  <1>0. ResultsIn[r] \in Nat /\ Runs \in Nat /\ r \in Nat
    BY ProcessingConstants
  <1>1. CASE k < ResultsIn[r]
    <2> DEFINE next == [kind |-> "observation", run |-> r, result |-> k + 1]
    <2>1. NextResult(r, k) = next
      BY <1>1 DEF NextResult
    <2>2. /\ next.kind = "observation" /\ next.run = r /\ next.result = k + 1
          /\ next # FirstStep /\ next \in Step
      BY <1>0 DEF Step, RecordKinds, FirstStep
    <2> HIDE DEF next
    <2>3. next.result \in 1..ResultsIn[r] /\ \A n \in 1..ResultsIn[r] : n < next.result => n <= k
      BY <1>0, <1>1, <2>2
    <2>4. Progress(recs, b, next, scan, observation)
      BY <1>0, <2>2, <2>3 DEF Progress
    <2>5. QED
      BY <2>1, <2>2, <2>4 DEF Arrived
  <1>2. CASE ~(k < ResultsIn[r])
    <2>1. NextResult(r, k) = NextRun(r)
      BY <1>2 DEF NextResult
    <2>2. \A n \in 1..ResultsIn[r] : n <= k
      BY <1>0, <1>2
    <2>3. RunIn(recs, b, r)
      BY <2>2 DEF RunIn, ScanIn
    <2>4. \A s \in 1..Runs : s <= r => RunIn(recs, b, s)
      BY <1>0, <2>3
    <2>5. r \in 0..Runs
      BY <1>0
    <2>6. QED
      BY <2>1, <2>4, <2>5, NextRunArrives
  <1>3. QED
    BY <1>1, <1>2

(* Storing the row of the current step is the progress that the next step   *)
(* needs.                                                                   *)
LEMMA LoopAdvances ==
    ASSUME NEW recs, NEW b, NEW step \in Step, NEW scan, NEW observation, NEW id,
           Progress(recs, b, step, scan, observation),
           StepStored(recs, b, step, scan, observation, id)
    PROVE  Arrived(recs, b, Following(step),
                   IF step.kind = "scan" THEN id ELSE scan,
                   IF step.kind = "observation" THEN id ELSE observation)
  <1>0. step.run \in 0..Runs /\ step.result \in Nat /\ step.kind \in RecordKinds
    BY DEF Step
  <1>1. CASE step.kind = "parse"
    <2>1. Following(step) = NextRun(0) /\ ParseIn(recs, b) /\ 0 \in 0..Runs
      BY <1>1, ProcessingConstants DEF Following, StepStored
    <2>2. \A s \in 1..Runs : s <= 0 => RunIn(recs, b, s)
      OBVIOUS
    <2>3. QED
      BY <1>1, <2>1, <2>2, NextRunArrives
  <1>2. CASE step.kind = "scan"
    <2>1. /\ Following(step) = NextResult(step.run, 0) /\ ParseIn(recs, b)
          /\ step.run \in 1..Runs /\ ScanIn(recs, b, step.run, id)
          /\ \A s \in 1..Runs : s < step.run => RunIn(recs, b, s)
      BY <1>2 DEF Following, StepStored, Progress
    <2>2. /\ 0 <= ResultsIn[step.run]
          /\ \A n \in 1..ResultsIn[step.run] : n <= 0 => ResultIn(recs, b, step.run, n, id)
      BY <2>1, ProcessingConstants
    <2>3. QED
      BY <1>2, <2>1, <2>2, NextResultArrives
  <1>3. CASE step.kind = "observation"
    <2> DEFINE next == [step EXCEPT !.kind = "normalization"]
    <2>1. Following(step) = next
      BY <1>3 DEF Following
    <2>2. /\ next \in Step /\ next.kind = "normalization" /\ next.run = step.run
          /\ next.result = step.result /\ next # FirstStep
      BY DEF Step, RecordKinds, FirstStep
    <2> HIDE DEF next
    <2>3. Progress(recs, b, next, scan, id)
      BY <1>3, <2>2 DEF Progress, StepStored
    <2>4. QED
      BY <1>3, <2>1, <2>2, <2>3 DEF Arrived
  <1>4. CASE step.kind = "normalization"
    <2> DEFINE next == [step EXCEPT !.kind = "correlation"]
    <2>1. Following(step) = next
      BY <1>4 DEF Following
    <2>2. /\ next \in Step /\ next.kind = "correlation" /\ next.run = step.run
          /\ next.result = step.result /\ next # FirstStep
      BY DEF Step, RecordKinds, FirstStep
    <2> HIDE DEF next
    <2>3. Progress(recs, b, next, scan, observation)
      BY <1>4, <2>2 DEF Progress, StepStored
    <2>4. QED
      BY <1>4, <2>1, <2>2, <2>3 DEF Arrived
  <1>5. CASE step.kind = "correlation"
    <2>1. /\ Following(step) = NextResult(step.run, step.result) /\ ParseIn(recs, b)
          /\ step.run \in 1..Runs /\ ScanIn(recs, b, step.run, scan)
          /\ step.result \in 1..ResultsIn[step.run]
          /\ \A s \in 1..Runs : s < step.run => RunIn(recs, b, s)
          /\ \A n \in 1..ResultsIn[step.run] :
                n < step.result => ResultIn(recs, b, step.run, n, scan)
      BY <1>5, Zenon DEF Following, Progress
    <2>2. ResultIn(recs, b, step.run, step.result, scan)
      <3>1. /\ ObservationIn(recs, b, step.run, step.result, scan, observation)
            /\ InterpretationIn(recs, "normalization", step.run, step.result, observation)
            /\ InterpretationIn(recs, "correlation", step.run, step.result, observation)
        BY <1>5 DEF Progress, StepStored
      <3>2. QED
        BY <3>1 DEF ResultIn, ObservationIn
    <2>3. /\ step.result <= ResultsIn[step.run]
          /\ \A n \in 1..ResultsIn[step.run] :
                n <= step.result => ResultIn(recs, b, step.run, n, scan)
      BY <2>1, <2>2, ProcessingConstants
    <2>4. QED
      BY <1>0, <1>5, <2>1, <2>3, NextResultArrives
  <1>6. QED
    BY <1>0, <1>1, <1>2, <1>3, <1>4, <1>5 DEF RecordKinds

-----------------------------------------------------------------------------
(* A step of one job. *)

(* The public resources and the records of job j after a step of its handler. *)
Moved(j) ==
    /\ operation' \in [Jobs -> Operation] /\ importState' \in [Jobs -> ImportStates]
    /\ records' \in [Jobs -> SUBSET Record]
    /\ \A i \in Jobs : i # j => /\ operation'[i] = operation[i]
                                /\ importState'[i] = importState[i]
                                /\ records'[i] = records[i]
    /\ DomainInv(operation'[j], importState'[j], records'[j])
    /\ Forward(operation[j].state, operation'[j].state, records[j], records'[j])
    /\ operation[j].state \in Terminal =>
          operation'[j] = operation[j] /\ importState'[j] = importState[j]

(* Nothing moves if nothing is written. *)
LEMMA DomainStays ==
    ASSUME ProcessingInv, NEW j \in Jobs, UNCHANGED domain
    PROVE  Moved(j)
  BY DEF ProcessingInv, ProcessingShape, JobInv, Moved, Forward, domain

(* What holds of a handler depends on these fields. *)
LEMMA SoundByFields ==
    ASSUME NEW h, NEW g, NEW state, NEW recs, Sound(h, state, recs),
           /\ g.pc = h.pc /\ g.seen = h.seen /\ g.build = h.build /\ g.step = h.step
           /\ g.scan = h.scan /\ g.observation = h.observation /\ g.outcome = h.outcome
    PROVE  Sound(g, state, recs)
  BY ZenonT(60) DEF Sound

(* The parts of the invariant that a step of a handler starts from. *)
LEMMA HandlerFields ==
    ASSUME ProcessingInv, NEW j \in Jobs, NEW a \in Attempts
    PROVE  /\ handler \in [Jobs -> [Attempts -> Handler]] /\ handler[j][a] \in Handler
           /\ handler[j][a].pc \in Pcs /\ handler[j][a].ctx \in {"live", "done"}
           /\ handler[j][a].build \in Builds \cup {"none"} /\ handler[j][a].step \in Step
           /\ handler[j][a].code \in Codes
           /\ handler[j][a].scan \in 0..AttemptLimit
           /\ handler[j][a].observation \in 0..AttemptLimit
           /\ Sound(handler[j][a], operation[j].state, records[j])
  <1>1. handler[j][a] \in Handler /\ handler \in [Jobs -> [Attempts -> Handler]]
    BY DEF ProcessingInv, ProcessingShape
  <1>2. QED
    BY <1>1 DEF ProcessingInv, JobInv, Handler, Step

(* A handler moves, its job stays where it is in the queue. *)
LEMMA StepKeeps ==
    ASSUME ProcessingInv, NEW j \in Jobs, NEW a \in Attempts, NEW h \in Handler, Go(j, a, h),
           Moved(j), UNCHANGED ledger, handler[j][a].pc # "idle",
           Sound(h, operation'[j].state, records'[j])
    PROVE  ProcessingInv'
  <1>1. /\ handler' \in [Jobs -> [Attempts -> Handler]] /\ handler'[j][a] = h
        /\ \A i \in Jobs : i # j => handler'[i] = handler[i]
        /\ \A c \in Attempts : c # a => handler'[j][c] = handler[j][c]
    BY HandlerFields DEF Go
  <1>2. ProcessingShape'
    BY <1>1, Zenon DEF ProcessingInv, ProcessingShape, Moved, ledger
  <1>3. ASSUME NEW i \in Jobs, i # j PROVE JobInv(i)'
    BY <1>1, <1>3, Zenon DEF ProcessingInv, JobInv, Moved, ledger
  <1>4. JobInv(j)'
    <2>1. DomainInv(operation'[j], importState'[j], records'[j])
      BY Zenon DEF Moved
    <2>2. LedgerInv(status'[j], used'[j], operation'[j].state)
      <3>1. operation[j].state # "absent"
        BY HandlerFields, Zenon DEF Sound
      <3>2. LedgerInv(status[j], used[j], operation[j].state)
        BY Zenon DEF ProcessingInv, JobInv
      <3>3. QED
        BY <3>1, <3>2, Zenon DEF LedgerInv, Moved, Forward, ledger, Terminal
    <2>3. ASSUME NEW c \in Attempts PROVE Sound(handler'[j][c], operation'[j].state, records'[j])
      <3>1. CASE c = a
        BY <1>1, <3>1, Zenon
      <3>2. CASE c # a
        BY <1>1, <3>2, HandlerFields, SoundForward DEF Moved
      <3>3. QED
        BY <3>1, <3>2
    <2>4. QED
      BY <2>1, <2>2, <2>3, Zenon DEF JobInv
  <1>5. QED
    BY <1>2, <1>3, <1>4 DEF ProcessingInv

(* The handlers a step may leave behind. *)

(* An attempt that has not begun. *)
LEMMA NoHandlerShape == NoHandler \in Handler
  BY ProcessingConstants DEF NoHandler, Handler, Pcs, OperationStates, FirstStep, RecordKinds,
     Codes

(* An attempt that has ended relies on nothing. *)
LEMMA EndedSound ==
    ASSUME NEW state, state # "absent", NEW recs
    PROVE  /\ [NoHandler EXCEPT !.pc = "ended"] \in Handler
           /\ Sound([NoHandler EXCEPT !.pc = "ended"], state, recs)
  <1> DEFINE h == [NoHandler EXCEPT !.pc = "ended"]
  <1>1. h \in Handler
    BY NoHandlerShape DEF Handler, Pcs
  <1>2. h.pc = "ended" /\ h.step = FirstStep
    BY DEF NoHandler
  <1> HIDE DEF h
  <1>3. Sound(h, state, recs)
    BY <1>2 DEF Sound
  <1>4. QED
    BY <1>1, <1>3 DEF h

Working(h) == h.pc \notin {"idle", "ended"}

(* An outcome may be reported once it is public. *)
LEMMA ReportingSound ==
    ASSUME ProcessingInv, NEW j \in Jobs, NEW a \in Attempts, Working(handler[j][a]),
           NEW outcome \in {"succeeded", "retryable", "permanent", "cancelled"},
           NEW state, state # "absent", NEW recs,
           outcome = "succeeded" => state = "succeeded",
           outcome = "permanent" => state \in Terminal
    PROVE  /\ Reporting(j, a, outcome) \in Handler
           /\ Sound(Reporting(j, a, outcome), state, recs)
  <1> DEFINE h == [NoHandler EXCEPT !.pc = "report", !.ctx = handler[j][a].ctx,
                       !.build = handler[j][a].build, !.outcome = outcome]
  <1>1. h \in Handler
    BY NoHandlerShape, HandlerFields, ZenonT(60) DEF Handler, Pcs
  <1>2. /\ h.pc = "report" /\ h.step = FirstStep /\ h.build = handler[j][a].build
        /\ h.outcome = outcome
    BY DEF NoHandler
  <1>3. handler[j][a].build \in Builds
    BY HandlerFields DEF Sound, Working
  <1> HIDE DEF h
  <1>4. Sound(h, state, recs)
    BY <1>2, <1>3 DEF Sound
  <1>5. QED
    BY <1>1, <1>4 DEF h, Reporting

(* A failure is persisted before it is reported. *)
LEMMA FailingSound ==
    ASSUME ProcessingInv, NEW j \in Jobs, NEW a \in Attempts, Working(handler[j][a]),
           NEW code \in Codes, NEW state, state # "absent", NEW recs
    PROVE  /\ Failing(j, a, code) \in Handler
           /\ Sound(Failing(j, a, code), state, recs)
  <1> DEFINE h == [NoHandler EXCEPT !.pc = "fail", !.ctx = handler[j][a].ctx,
                       !.build = handler[j][a].build, !.code = code]
  <1>1. h \in Handler
    BY NoHandlerShape, HandlerFields, ZenonT(60) DEF Handler, Pcs
  <1>2. h.pc = "fail" /\ h.step = FirstStep /\ h.build = handler[j][a].build
    BY DEF NoHandler
  <1>3. handler[j][a].build \in Builds
    BY HandlerFields, Zenon DEF Sound, Working
  <1> HIDE DEF h
  <1>4. Sound(h, state, recs)
    BY <1>2, <1>3 DEF Sound
  <1>5. QED
    BY <1>1, <1>4 DEF h, Failing

(* A retry promises nothing. *)
LEMMA RetryingSound ==
    ASSUME ProcessingInv, NEW j \in Jobs, NEW a \in Attempts, Working(handler[j][a]),
           NEW state, state # "absent", NEW recs
    PROVE  Retrying(j, a) \in Handler /\ Sound(Retrying(j, a), state, recs)
  BY ReportingSound, FailingSound DEF Retrying, Codes

(* A handler that works has an operation. *)
LEMMA Present ==
    ASSUME ProcessingInv, NEW j \in Jobs, NEW a \in Attempts, Working(handler[j][a])
    PROVE  operation[j].state # "absent"
  BY HandlerFields, Zenon DEF Sound, Working

-----------------------------------------------------------------------------
(* Steps of the handler that write nothing. *)

(* ResolveProcessingTarget reads the operation and the import. *)
LEMMA ResolveKeeps ==
    ASSUME ProcessingInv, NEW j \in Jobs, NEW a \in Attempts, ResolveProcessingTarget(j, a)
    PROVE  ProcessingInv'
  <1> DEFINE h == [handler[j][a] EXCEPT !.pc = "authorize", !.seen = operation[j].state]
  <1>1. /\ Go(j, a, h) /\ UNCHANGED ledger /\ UNCHANGED domain
        /\ handler[j][a].pc = "resolve"
    BY Zenon DEF ResolveProcessingTarget, Calling
  <1>2. operation[j].state \in OperationStates
    BY DEF ProcessingInv, JobInv, DomainInv, Operation
  <1>3. h \in Handler
    <2>1. handler[j][a] \in Handler
      BY HandlerFields
    <2>2. QED
      BY <1>2, <2>1, Zenon DEF Handler, Pcs
  <1>4. /\ h.pc = "authorize" /\ h.seen = operation[j].state /\ h.build = handler[j][a].build
        /\ h.step = handler[j][a].step
    BY HandlerFields, ZenonT(60) DEF Handler
  <1> HIDE DEF h
  <1>5. Sound(h, operation[j].state, records[j])
    BY <1>1, <1>4, HandlerFields, Zenon DEF Sound
  <1>6. QED
    BY <1>1, <1>3, <1>5, DomainStays, StepKeeps DEF domain

(* The processor authorizes again, and leaves a finished operation alone. *)
LEMMA AuthorizeKeeps ==
    ASSUME ProcessingInv, NEW j \in Jobs, NEW a \in Attempts, Authorize(j, a)
    PROVE  ProcessingInv'
  <1>1. /\ UNCHANGED ledger /\ UNCHANGED domain
        /\ handler[j][a].pc = "authorize" /\ Working(handler[j][a])
    BY DEF Authorize, Calling, Working
  <1>2. PICK h \in Handler : Go(j, a, h) /\ Sound(h, operation[j].state, records[j])
    <2>1. CASE Go(j, a, Failing(j, a, "denied"))
      BY <1>1, <2>1, Present, FailingSound, Zenon DEF Codes
    <2>2. CASE /\ handler[j][a].seen \in Terminal
               /\ Go(j, a, Reporting(j, a, TerminalOutcome(handler[j][a].seen)))
      <3>1. operation[j].state = handler[j][a].seen
        BY <1>1, <2>2, HandlerFields DEF Sound
      <3>2. QED
        BY <1>1, <2>2, <3>1, Present, ReportingSound, Zenon DEF TerminalOutcome, Terminal
    <2>3. CASE Go(j, a, [handler[j][a] EXCEPT !.pc = "begin", !.seen = "absent"])
      <3> DEFINE h == [handler[j][a] EXCEPT !.pc = "begin", !.seen = "absent"]
      <3>1. h \in Handler
        <4>1. handler[j][a] \in Handler
          BY HandlerFields
        <4>2. QED
          BY <4>1, ZenonT(60) DEF Handler, Pcs, OperationStates
      <3>2. h.pc = "begin" /\ h.build = handler[j][a].build /\ h.step = handler[j][a].step
        BY HandlerFields DEF Handler
      <3> HIDE DEF h
      <3>3. Sound(h, operation[j].state, records[j])
        BY <1>1, <3>2, HandlerFields, Zenon DEF Sound
      <3>4. QED
        BY <2>3, <3>1, <3>3 DEF h
    <2>4. QED
      BY <2>1, <2>2, <2>3, Zenon DEF Authorize
  <1>3. QED
    BY <1>1, <1>2, DomainStays, StepKeeps DEF domain

(* The evidence is opened and parsed. *)
LEMMA OpenKeeps ==
    ASSUME ProcessingInv, NEW j \in Jobs, NEW a \in Attempts, OpenAndParse(j, a)
    PROVE  ProcessingInv'
  <1>1. /\ UNCHANGED ledger /\ UNCHANGED domain
        /\ handler[j][a].pc = "evidence" /\ Working(handler[j][a])
    BY DEF OpenAndParse, Calling, Working
  <1>2. PICK h \in Handler : Go(j, a, h) /\ Sound(h, operation[j].state, records[j])
    <2>1. CASE Go(j, a, Failing(j, a, "rejected"))
      BY <1>1, <2>1, Present, FailingSound DEF Codes
    <2>2. CASE Go(j, a, [handler[j][a] EXCEPT !.pc = "record"])
      <3> DEFINE h == [handler[j][a] EXCEPT !.pc = "record"]
      <3>1. h \in Handler
        <4>1. handler[j][a] \in Handler
          BY HandlerFields
        <4>2. QED
          BY <4>1 DEF Handler, Pcs
      <3>2. h.pc = "record" /\ h.build = handler[j][a].build /\ h.step = FirstStep
        <4>1. handler[j][a].step = FirstStep
          BY <1>1, HandlerFields, Zenon DEF Sound
        <4>2. QED
          BY <4>1, HandlerFields, ZenonT(60) DEF Handler
      <3> HIDE DEF h
      <3>3. Progress(records[j], h.build, h.step, h.scan, h.observation)
        <4>1. h.step.kind = "parse" /\ h.step.run = 0 /\ h.step.result = 0
          BY <3>2 DEF FirstStep
        <4>2. QED
          BY <4>1 DEF Progress
      <3>4. Sound(h, operation[j].state, records[j])
        <4>1. h.build \in Builds /\ operation[j].state # "absent"
          BY <1>1, <3>2, HandlerFields, Zenon DEF Sound
        <4>2. QED
          BY <3>2, <3>3, <4>1, Zenon DEF Sound
      <3>5. QED
        BY <2>2, <3>1, <3>4 DEF h
    <2>3. QED
      BY <2>1, <2>2, Zenon DEF OpenAndParse
  <1>3. QED
    BY <1>1, <1>2, DomainStays, StepKeeps DEF domain

(* A call fails, the evidence is bad, the handler panics or the process     *)
(* dies.                                                                    *)
LEMMA FaultKeeps ==
    ASSUME ProcessingInv, NEW j \in Jobs, NEW a \in Attempts,
           CallFails(j, a) \/ EvidenceFails(j, a) \/ Panic(j, a) \/ Crash(j, a)
    PROVE  ProcessingInv'
  <1>1. UNCHANGED ledger /\ UNCHANGED domain /\ Working(handler[j][a])
    BY DEF CallFails, EvidenceFails, Panic, Crash, Calls, Active, Working
  <1>2. PICK h \in Handler : Go(j, a, h) /\ Sound(h, operation[j].state, records[j])
    <2>1. CASE Go(j, a, Retrying(j, a))
      BY <1>1, <2>1, Present, RetryingSound, Zenon
    <2>2. CASE \E outcome \in {"retryable", "cancelled"} : Go(j, a, Reporting(j, a, outcome))
      BY <1>1, <2>2, Present, ReportingSound
    <2>3. CASE Go(j, a, [NoHandler EXCEPT !.pc = "ended"])
      BY <1>1, <2>3, Present, EndedSound, Zenon
    <2>4. QED
      BY <2>1, <2>2, <2>3, Zenon DEF CallFails, EvidenceFails, Panic, Crash
  <1>3. QED
    BY <1>1, <1>2, DomainStays, StepKeeps DEF domain, Working

(* The context of a handler ends. *)
LEMMA InterruptKeeps ==
    ASSUME ProcessingInv, NEW j \in Jobs, NEW a \in Attempts, Interrupt(j, a)
    PROVE  ProcessingInv'
  <1> DEFINE h == [handler[j][a] EXCEPT !.ctx = "done"]
  <1>1. /\ Go(j, a, h) /\ UNCHANGED ledger /\ UNCHANGED domain
        /\ handler[j][a].pc # "idle"
    BY DEF Interrupt, Active
  <1>2. h \in Handler
    BY HandlerFields, ZenonT(60) DEF Handler
  <1>3. /\ h.pc = handler[j][a].pc /\ h.seen = handler[j][a].seen
        /\ h.build = handler[j][a].build /\ h.step = handler[j][a].step
        /\ h.scan = handler[j][a].scan /\ h.observation = handler[j][a].observation
        /\ h.outcome = handler[j][a].outcome
    BY HandlerFields DEF Handler
  <1> HIDE DEF h
  <1>4. Sound(h, operation[j].state, records[j])
    <2>1. Sound(handler[j][a], operation[j].state, records[j])
      BY HandlerFields
    <2>2. QED
      BY <1>3, <2>1, SoundByFields, Zenon
  <1>5. QED
    BY <1>1, <1>2, <1>4, DomainStays, StepKeeps DEF domain

-----------------------------------------------------------------------------
(* Steps of the handler that write. *)

(* The parts of the invariant that a write to the domain starts from. *)
LEMMA DomainFields ==
    ASSUME ProcessingInv, NEW j \in Jobs
    PROVE  /\ operation \in [Jobs -> Operation] /\ importState \in [Jobs -> ImportStates]
           /\ records \in [Jobs -> SUBSET Record]
           /\ operation[j] \in Operation /\ operation[j].state \in OperationStates
           /\ operation[j].scans \in 0..Runs
           /\ Agree(operation[j].state, importState[j]) /\ RecordsInv(records[j])
           /\ operation[j].state = "succeeded" =>
                operation[j].scans = Runs /\ \E b \in Builds : ReportIn(records[j], b)
  BY DEF ProcessingInv, ProcessingShape, JobInv, DomainInv, Operation

(* The operation and the import change together, the records stay. *)
LEMMA OperationMoves ==
    ASSUME ProcessingInv, NEW j \in Jobs, NEW op \in Operation, NEW import,
           operation' = [operation EXCEPT ![j] = op],
           importState' = [importState EXCEPT ![j] = import], UNCHANGED records,
           operation[j].state \notin Terminal, Agree(op.state, import), op.state # "absent",
           op.state = "succeeded" =>
               op.scans = Runs /\ \E b \in Builds : ReportIn(records[j], b)
    PROVE  Moved(j)
  <1>1. import \in ImportStates
    BY DEF Agree, ImportStates
  <1>2. QED
    BY <1>1, DomainFields DEF Moved, DomainInv, Forward

(* BeginProcessing moves a queued operation to running, and its import      *)
(* along.                                                                   *)
LEMMA BeginMoves ==
    ASSUME ProcessingInv, NEW j \in Jobs, BeginEffect(j)
    PROVE  Moved(j)
  <1>1. CASE Unfinished(j)
    <2> DEFINE op == [operation[j] EXCEPT !.state = "running"]
    <2>1. op \in Operation /\ op.state = "running"
      BY DomainFields DEF Operation, OperationStates
    <2>2. operation' = [operation EXCEPT ![j] = op]
      BY <1>1, DomainFields DEF BeginEffect
    <2>3. importState' = [importState EXCEPT ![j] = "processing"] /\ UNCHANGED records
      BY <1>1, DomainFields DEF BeginEffect
    <2> HIDE DEF op
    <2>4. QED
      BY <1>1, <2>1, <2>2, <2>3, OperationMoves, Zenon DEF Unfinished, Terminal, Agree
  <1>2. CASE ~Unfinished(j)
    <2>1. operation' = operation /\ importState' = importState /\ UNCHANGED records
      BY <1>2, DomainFields DEF BeginEffect
    <2>2. QED
      BY <2>1, DomainStays DEF domain
  <1>3. QED
    BY <1>1, <1>2

(* FailProcessing ends an operation unless it has ended. *)
LEMMA FailMoves ==
    ASSUME ProcessingInv, NEW j \in Jobs, NEW code \in Codes, FailEffect(j, code)
    PROVE  Moved(j) /\ (operation[j].state # "absent" => operation'[j].state \in Terminal)
  <1>1. CASE Unfinished(j)
    <2> DEFINE op == [operation[j] EXCEPT !.state = "failed", !.code = code]
    <2>1. op \in Operation /\ op.state = "failed"
      BY DomainFields, Zenon DEF Operation, OperationStates
    <2>2. operation' = [operation EXCEPT ![j] = op]
      BY <1>1, DomainFields DEF FailEffect
    <2>3. importState' = [importState EXCEPT ![j] = "failed"] /\ UNCHANGED records
      BY <1>1, DomainFields DEF FailEffect
    <2> HIDE DEF op
    <2>4. Moved(j)
      BY <1>1, <2>1, <2>2, <2>3, OperationMoves, Zenon DEF Unfinished, Terminal, Agree
    <2>5. operation'[j].state \in Terminal
      BY <2>1, <2>2, DomainFields DEF Terminal
    <2>6. QED
      BY <2>4, <2>5
  <1>2. CASE ~Unfinished(j)
    <2>1. operation' = operation /\ importState' = importState /\ UNCHANGED records
      BY <1>2, DomainFields DEF FailEffect
    <2>2. operation[j].state # "absent" => operation[j].state \in Terminal
      BY <1>2, DomainFields, Zenon DEF Unfinished, Agree, Terminal
    <2>3. QED
      BY <2>1, <2>2, DomainStays DEF domain
  <1>3. QED
    BY <1>1, <1>2

(* CompleteProcessing ends a running operation with the scans counted. *)
LEMMA CompleteMoves ==
    ASSUME ProcessingInv, NEW j \in Jobs, CompleteEffect(j),
           NEW b \in Builds, ReportIn(records[j], b)
    PROVE  Moved(j) /\ (Completes(j) => operation'[j].state = "succeeded")
                    /\ (~Completes(j) => operation' = operation)
  <1>1. CASE Completes(j)
    <2> DEFINE op == [operation[j] EXCEPT !.state = "succeeded", !.scans = Runs]
    <2>1. op \in Operation /\ op.state = "succeeded" /\ op.scans = Runs
      <3>1. operation[j] \in Operation /\ Runs \in 0..Runs
        BY DomainFields, ProcessingConstants
      <3>2. QED
        BY <3>1, Zenon DEF Operation, OperationStates
    <2>2. operation' = [operation EXCEPT ![j] = op]
      BY <1>1, DomainFields DEF CompleteEffect
    <2>3. importState' = [importState EXCEPT ![j] = "succeeded"] /\ UNCHANGED records
      BY <1>1, DomainFields DEF CompleteEffect
    <2> HIDE DEF op
    <2>4. Moved(j)
      BY <1>1, <2>1, <2>2, <2>3, OperationMoves, Zenon DEF Completes, Terminal, Agree
    <2>5. operation'[j].state = "succeeded"
      BY <2>1, <2>2, DomainFields
    <2>6. QED
      BY <1>1, <2>4, <2>5
  <1>2. CASE ~Completes(j)
    <2>1. operation' = operation /\ importState' = importState /\ UNCHANGED records
      BY <1>2, DomainFields, Zenon DEF CompleteEffect
    <2>2. QED
      BY <1>2, <2>1, DomainStays DEF domain
  <1>3. QED
    BY <1>1, <1>2, Zenon

(* BeginProcessing keeps the invariant. *)
LEMMA BeginKeeps ==
    ASSUME ProcessingInv, NEW j \in Jobs, NEW a \in Attempts, BeginProcessing(j, a)
    PROVE  ProcessingInv'
  <1>1. /\ UNCHANGED ledger /\ BeginEffect(j) /\ Go(j, a, BeginReply(j, a))
        /\ handler[j][a].pc = "begin" /\ Working(handler[j][a])
    BY DEF BeginProcessing, Calling, Working
  <1>2. /\ Moved(j) /\ operation'[j].state # "absent"
        /\ operation[j].state \in Terminal => operation'[j].state = operation[j].state
    BY <1>1, BeginMoves, Present, Zenon DEF Moved, Forward
  <1>3. BeginReply(j, a) \in Handler /\ Sound(BeginReply(j, a), operation'[j].state, records'[j])
    <2>1. CASE operation[j].state \in Terminal
      BY <1>1, <1>2, <2>1, ReportingSound, Zenon DEF BeginReply, TerminalOutcome, Terminal
    <2>2. CASE operation[j].state \notin Terminal /\ Unfinished(j)
      <3> DEFINE h == [handler[j][a] EXCEPT !.pc = "evidence"]
      <3>1. h \in Handler
        <4>1. handler[j][a] \in Handler
          BY HandlerFields
        <4>2. QED
          BY <4>1 DEF Handler, Pcs
      <3>2. h.pc = "evidence" /\ h.build = handler[j][a].build /\ h.step = handler[j][a].step
        BY HandlerFields DEF Handler
      <3>3. BeginReply(j, a) = h
        BY <2>2 DEF BeginReply
      <3> HIDE DEF h
      <3>4. Sound(h, operation'[j].state, records'[j])
        BY <1>1, <1>2, <3>2, HandlerFields, Zenon DEF Sound
      <3>5. QED
        BY <3>1, <3>3, <3>4
    <2>3. CASE operation[j].state \notin Terminal /\ ~Unfinished(j)
      BY <1>1, <1>2, <2>3, FailingSound, Zenon DEF BeginReply, Codes
    <2>4. QED
      BY <2>1, <2>2, <2>3
  <1>4. QED
    BY <1>1, <1>2, <1>3, StepKeeps, Zenon

(* CompleteProcessing is called when the whole report is stored. *)
LEMMA CompleteKeeps ==
    ASSUME ProcessingInv, NEW j \in Jobs, NEW a \in Attempts, CompleteProcessing(j, a)
    PROVE  ProcessingInv'
  <1>1. /\ UNCHANGED ledger /\ CompleteEffect(j) /\ Go(j, a, CompleteReply(j, a))
        /\ handler[j][a].pc = "complete" /\ Working(handler[j][a])
    BY DEF CompleteProcessing, Calling, Working
  <1>2. handler[j][a].build \in Builds /\ ReportIn(records[j], handler[j][a].build)
    BY <1>1, HandlerFields, Zenon DEF Sound
  <1>3. /\ Moved(j) /\ operation'[j].state # "absent"
        /\ Completes(j) \/ operation[j].state = "succeeded" =>
              operation'[j].state = "succeeded"
    BY <1>1, <1>2, CompleteMoves, Present, Zenon DEF Moved, Forward
  <1>4. /\ CompleteReply(j, a) \in Handler
        /\ Sound(CompleteReply(j, a), operation'[j].state, records'[j])
    BY <1>1, <1>3, ReportingSound, FailingSound, Zenon DEF CompleteReply, Codes
  <1>5. QED
    BY <1>1, <1>3, <1>4, StepKeeps, Zenon

(* FailProcessing makes a permanent failure public before it is reported. *)
LEMMA FailKeeps ==
    ASSUME ProcessingInv, NEW j \in Jobs, NEW a \in Attempts, FailProcessing(j, a)
    PROVE  ProcessingInv'
  <1>1. /\ UNCHANGED ledger /\ FailEffect(j, handler[j][a].code)
        /\ Go(j, a, Reporting(j, a, "permanent"))
        /\ handler[j][a].pc = "fail" /\ Working(handler[j][a])
    BY Zenon DEF FailProcessing, Working
  <1>2. Moved(j) /\ operation'[j].state \in Terminal
    BY <1>1, HandlerFields, FailMoves, Present, Zenon
  <1>3. /\ Reporting(j, a, "permanent") \in Handler
        /\ Sound(Reporting(j, a, "permanent"), operation'[j].state, records'[j])
    BY <1>1, <1>2, ReportingSound, Zenon DEF Terminal
  <1>4. QED
    BY <1>1, <1>2, <1>3, StepKeeps, Zenon

(* A failure that could not be persisted is retried, whether or not the     *)
(* write took effect.                                                       *)
LEMMA UnpersistedKeeps ==
    ASSUME ProcessingInv, NEW j \in Jobs, NEW a \in Attempts, FailureUnpersisted(j, a)
    PROVE  ProcessingInv'
  <1>1. /\ UNCHANGED ledger
        /\ UNCHANGED domain \/ FailEffect(j, handler[j][a].code)
        /\ Go(j, a, Reporting(j, a, "retryable"))
        /\ handler[j][a].pc = "fail" /\ Working(handler[j][a])
    BY DEF FailureUnpersisted, Working, Unpersisted
  <1>2. Moved(j) /\ operation'[j].state # "absent"
    BY <1>1, HandlerFields, FailMoves, DomainStays, Present, Zenon DEF Moved, Forward
  <1>3. /\ Reporting(j, a, "retryable") \in Handler
        /\ Sound(Reporting(j, a, "retryable"), operation'[j].state, records'[j])
    BY <1>1, <1>2, ReportingSound, Zenon
  <1>4. QED
    BY <1>1, <1>2, <1>3, StepKeeps, Zenon

(* The row a recording handler asks for. *)
LEMMA ProgressFields ==
    ASSUME NEW recs, NEW b, NEW step, NEW scan, NEW observation,
           Progress(recs, b, step, scan, observation)
    PROVE  /\ step.kind \in {"parse", "scan"} => step.result = 0
           /\ step.kind = "parse" => step.run = 0
           /\ step.kind = "scan" => step.run \in 1..Runs
           /\ step.kind = "observation" => ScanIn(recs, b, step.run, scan)
  BY DEF Progress

(* A record of the right fields. *)
LEMMA RecordMade ==
    ASSUME NEW kind \in RecordKinds, NEW run \in 0..Runs, NEW result \in Nat,
           NEW build \in Builds, NEW id \in Attempts, NEW parent \in 0..AttemptLimit
    PROVE  [kind |-> kind, run |-> run, result |-> result, build |-> build, id |-> id,
            parent |-> parent] \in Record
  BY DEF Record

(* The row of the current step belongs to its run and result, under the     *)
(* row the loop carries the identifier of.                                  *)
LEMMA RowProper ==
    ASSUME ProcessingInv, NEW j \in Jobs, NEW a \in Attempts, handler[j][a].pc = "record",
           NEW row, row = RowOf(handler[j][a], a)
    PROVE  /\ Proper(row, records[j])
           /\ row.kind = handler[j][a].step.kind /\ row.run = handler[j][a].step.run
           /\ row.result = handler[j][a].step.result /\ row.build = handler[j][a].build
           /\ row.kind = "observation" => row.parent = handler[j][a].scan
           /\ row.kind \in {"normalization", "correlation"} =>
                 row.parent = handler[j][a].observation
  <1> PICK h \in Handler : h = handler[j][a]
    BY HandlerFields, Zenon
  <1>1. /\ h.build \in Builds /\ Progress(records[j], h.build, h.step, h.scan, h.observation)
        /\ h.step \in Step /\ h.scan \in 0..AttemptLimit /\ h.observation \in 0..AttemptLimit
    BY HandlerFields, Zenon DEF Sound
  <1>2. /\ h.step.kind \in RecordKinds /\ h.step.run \in 0..Runs /\ h.step.result \in Nat
    BY <1>1 DEF Step
  <1>3. PICK parent : parent = (CASE h.step.kind = "observation" -> h.scan
                                  [] h.step.kind \in {"normalization", "correlation"} -> h.observation
                                  [] OTHER -> 0)
    BY Zenon
  <1>4. /\ parent \in 0..AttemptLimit
        /\ h.step.kind = "observation" => parent = h.scan
        /\ h.step.kind \in {"normalization", "correlation"} => parent = h.observation
    <2>1. CASE h.step.kind = "observation"
      BY <1>1, <1>3, <2>1
    <2>2. CASE h.step.kind \in {"normalization", "correlation"}
      BY <1>1, <1>3, <2>2, Zenon
    <2>3. CASE h.step.kind \notin {"observation", "normalization", "correlation"}
      <3>1. parent = 0
        BY <1>3, <2>3, Zenon
      <3>2. QED
        BY <2>3, <3>1, ProcessingConstants
    <2>4. QED
      BY <2>1, <2>2, <2>3
  <1>5. row = [kind |-> h.step.kind, run |-> h.step.run, result |-> h.step.result,
               build |-> h.build, id |-> a, parent |-> parent]
    BY <1>3, Zenon DEF RowOf
  <1>6. /\ row \in Record /\ row.kind = h.step.kind /\ row.run = h.step.run
        /\ row.result = h.step.result /\ row.build = h.build /\ row.parent = parent
    <2>1. [kind |-> h.step.kind, run |-> h.step.run, result |-> h.step.result,
           build |-> h.build, id |-> a, parent |-> parent] \in Record
      <3>1. h.build \in Builds /\ parent \in 0..AttemptLimit
        BY <1>1, <1>4, Zenon
      <3>2. QED
        BY <1>2, <3>1, RecordMade, ZenonT(60)
    <2>2. QED
      BY <1>5, <2>1
  <1>7. /\ h.step.kind \in {"parse", "scan"} => h.step.result = 0
        /\ h.step.kind = "parse" => h.step.run = 0
        /\ h.step.kind = "scan" => h.step.run \in 1..Runs
        /\ h.step.kind = "observation" => ScanIn(records[j], h.build, h.step.run, h.scan)
    BY <1>1, ProgressFields, Zenon
  <1>8. /\ row.kind \in {"parse", "scan"} => row.result = 0
        /\ row.kind = "parse" => row.run = 0
        /\ row.kind = "scan" => row.run \in 1..Runs
    BY <1>6, <1>7, Zenon
  <1>9. row.kind = "observation" => row.parent = h.scan
    BY <1>4, <1>6, Zenon
  <1>10. row.kind \in {"normalization", "correlation"} => row.parent = h.observation
    BY <1>4, <1>6
  <1>11. row.kind = "observation" => ScanIn(records[j], row.build, row.run, row.parent)
    BY <1>6, <1>7, <1>9, Zenon
  <1>12. Proper(row, records[j])
    BY <1>6, <1>8, <1>11, Zenon DEF Proper
  <1>13. /\ row.kind = handler[j][a].step.kind /\ row.run = handler[j][a].step.run
         /\ row.result = handler[j][a].step.result /\ row.build = handler[j][a].build
    BY <1>6, Zenon
  <1>14. QED
    BY <1>9, <1>10, <1>12, <1>13, Zenon

(* Storing a row adds it if it is new, and nothing else. *)
LEMMA RecordMoves ==
    ASSUME ProcessingInv, NEW j \in Jobs, NEW row, Proper(row, records[j]), RecordEffect(j, row)
    PROVE  /\ Moved(j) /\ UNCHANGED operation
           /\ records'[j] = IF Verdict(j, row) = "new" THEN records[j] \cup {row} ELSE records[j]
  <1>1. CASE Verdict(j, row) = "new"
    <2>1. /\ records' = [records EXCEPT ![j] = records[j] \cup {row}]
          /\ UNCHANGED <<operation, importState>>
      BY <1>1 DEF RecordEffect
    <2>2. RecordsInv(records[j] \cup {row}) /\ records[j] \cup {row} \subseteq Record
      BY <1>1, DomainFields, RowAdded, Zenon DEF RecordsInv
    <2>3. /\ records' \in [Jobs -> SUBSET Record] /\ records'[j] = records[j] \cup {row}
          /\ \A i \in Jobs : i # j => records'[i] = records[i]
      BY <2>1, <2>2, DomainFields, Zenon
    <2>4. operation[j].state = "succeeded" => \E b \in Builds : ReportIn(records'[j], b)
      BY <2>3, DomainFields, ReportGrows
    <2>5. DomainInv(operation'[j], importState'[j], records'[j])
      BY <2>1, <2>2, <2>3, <2>4, DomainFields, Zenon DEF DomainInv
    <2>6. QED
      BY <1>1, <2>1, <2>3, <2>5, DomainFields, Zenon DEF Moved, Forward
  <1>2. CASE Verdict(j, row) # "new"
    <2>1. UNCHANGED domain
      BY <1>2, DomainFields, Zenon DEF RecordEffect, domain
    <2>2. QED
      BY <1>2, <2>1, DomainStays, Zenon DEF domain
  <1>3. QED
    BY <1>1, <1>2, Zenon

(* The loop goes on with what is stored. *)
LEMMA RecordedSound ==
    ASSUME ProcessingInv, NEW j \in Jobs, NEW a \in Attempts, handler[j][a].pc = "record",
           NEW row, row = RowOf(handler[j][a], a), Verdict(j, row) \in {"new", "replay"},
           RecordEffect(j, row)
    PROVE  /\ Recorded(j, a, row) \in Handler
           /\ Sound(Recorded(j, a, row), operation'[j].state, records'[j])
  <1>1. PICK h \in Handler : h = handler[j][a]
    BY HandlerFields, Zenon
  <1>2. /\ h.build \in Builds /\ h.step \in Step /\ h.scan \in 0..AttemptLimit
        /\ h.observation \in 0..AttemptLimit
        /\ Progress(records[j], h.build, h.step, h.scan, h.observation)
        /\ operation[j].state # "absent"
    BY <1>1, HandlerFields, Zenon DEF Sound
  <1>3. /\ Proper(row, records[j]) /\ row.kind = h.step.kind /\ row.run = h.step.run
        /\ row.result = h.step.result /\ row.build = h.build
        /\ row.kind = "observation" => row.parent = h.scan
        /\ row.kind \in {"normalization", "correlation"} => row.parent = h.observation
        /\ row.kind \in RecordKinds
    <2>1. /\ Proper(row, records[j]) /\ row.kind = h.step.kind /\ row.run = h.step.run
          /\ row.result = h.step.result /\ row.build = h.build
          /\ row.kind = "observation" => row.parent = h.scan
          /\ row.kind \in {"normalization", "correlation"} => row.parent = h.observation
      <3>1. /\ Proper(row, records[j])
            /\ row.kind = handler[j][a].step.kind /\ row.run = handler[j][a].step.run
            /\ row.result = handler[j][a].step.result /\ row.build = handler[j][a].build
            /\ row.kind = "observation" => row.parent = handler[j][a].scan
            /\ row.kind \in {"normalization", "correlation"} =>
                  row.parent = handler[j][a].observation
        BY RowProper, ZenonT(60)
      <3>2. QED
        BY <1>1, <3>1, Zenon
    <2>2. h.step.kind \in RecordKinds
      BY <1>2 DEF Step
    <2>3. QED
      BY <2>1, <2>2, Zenon
  <1>4. PICK more : more = records'[j]
    BY Zenon
  <1>5. /\ Moved(j) /\ operation' = operation
        /\ more = IF Verdict(j, row) = "new" THEN records[j] \cup {row} ELSE records[j]
    BY <1>3, <1>4, RecordMoves
  <1>6. more \subseteq Record /\ records[j] \subseteq more
    BY <1>4, <1>5, Zenon DEF Moved, Forward
  <1>7. PICK stored : stored = CHOOSE e \in Existing(j, row) \cup {row} :
                                  Existing(j, row) # {} => e \in Existing(j, row)
    BY Zenon
  <1>8. /\ stored \in Existing(j, row) \cup {row}
        /\ Existing(j, row) # {} => stored \in Existing(j, row)
    BY <1>7, Zenon
  <1>9. /\ stored \in more /\ stored.kind = row.kind /\ stored.build = row.build
        /\ row.kind = "scan" => stored.run = row.run
        /\ row.kind \in {"observation", "normalization", "correlation"} =>
              stored.run = row.run /\ stored.result = row.result /\ stored.parent = row.parent
    <2>1. row.kind \in RecordKinds
      BY <1>3
    <2>2. stored \in (IF Verdict(j, row) = "new" THEN records[j] \cup {row} ELSE records[j])
      BY <1>8, <2>1, RowKept, Zenon
    <2>3. /\ stored.kind = row.kind /\ stored.build = row.build
          /\ row.kind = "scan" => stored.run = row.run
          /\ row.kind = "observation" =>
                stored.run = row.run /\ stored.result = row.result /\ stored.parent = row.parent
          /\ row.kind \in {"normalization", "correlation"} =>
                stored.run = row.run /\ stored.result = row.result /\ stored.parent = row.parent
      BY <1>8, <2>1, RowStored
    <2>4. QED
      BY <1>5, <2>2, <2>3, Zenon
  <1>10. stored.id \in 0..AttemptLimit
    BY <1>6, <1>9, ProcessingConstants, SMTT(60) DEF Record, Attempts
  <1>11. StepStored(more, h.build, h.step, h.scan, h.observation, stored.id)
    BY <1>3, <1>9, ZenonT(60) DEF StepStored, ParseIn, ScanIn, ObservationIn, InterpretationIn
  <1>12. Progress(more, h.build, h.step, h.scan, h.observation)
    BY <1>2, <1>6, ProgressGrows, Zenon
  <1>13. PICK scan \in 0..AttemptLimit : scan = IF h.step.kind = "scan" THEN stored.id ELSE h.scan
    BY <1>2, <1>10, Zenon
  <1>14. PICK observation \in 0..AttemptLimit :
           observation = IF h.step.kind = "observation" THEN stored.id ELSE h.observation
    BY <1>2, <1>10
  <1>15. PICK next : next = Following(h.step)
    BY Zenon
  <1>16. Arrived(more, h.build, next, scan, observation)
    BY <1>2, <1>11, <1>12, <1>13, <1>14, <1>15, LoopAdvances, Zenon
  <1>17. PICK pc \in Pcs : pc = IF next = FirstStep THEN "complete" ELSE "record"
    BY DEF Pcs
  <1>18. PICK g : g = [h EXCEPT !.pc = pc, !.step = next, !.scan = scan,
                                !.observation = observation]
    OBVIOUS
  <1>19. Recorded(j, a, row) = g
    BY <1>1, <1>3, <1>7, <1>13, <1>14, <1>15, <1>17, <1>18, ZenonT(60) DEF Recorded
  <1>20. next \in Step
    BY <1>16 DEF Arrived
  <1>21. /\ g \in Handler /\ g.pc = pc /\ g.step = next /\ g.scan = scan
         /\ g.observation = observation /\ g.build = h.build
    BY <1>18, <1>20, Zenon DEF Handler, Step
  <1>22. Sound(g, operation[j].state, more)
    BY <1>2, <1>16, <1>17, <1>21 DEF Sound, Arrived
  <1>23. QED
    BY <1>4, <1>5, <1>19, <1>21, <1>22, Zenon

(* The five Record calls keep the invariant. *)
LEMMA RecordKeeps ==
    ASSUME ProcessingInv, NEW j \in Jobs, NEW a \in Attempts, RecordRow(j, a)
    PROVE  ProcessingInv'
  <1> PICK row : row = RowOf(handler[j][a], a)
    BY Zenon
  <1>1. /\ UNCHANGED ledger /\ RecordEffect(j, row) /\ Go(j, a, RecordReply(j, a, row))
        /\ handler[j][a].pc = "record" /\ Working(handler[j][a])
    BY Zenon DEF RecordRow, Calling, Working
  <1>2. Proper(row, records[j]) /\ row.kind \in RecordKinds
    BY <1>1, RowProper DEF Proper, Record
  <1>3. Moved(j) /\ operation' = operation /\ operation'[j].state # "absent"
    BY <1>1, <1>2, RecordMoves, Present, Zenon
  <1>4. Verdict(j, row) \in {"new", "replay", "invalid", "conflict", "no source"}
    BY <1>2, Zenon DEF Verdict, RecordParseOutput, RecordScan, RecordObservation,
       RecordNormalization,
       RecordUncorrelated, Found, RecordKinds
  <1>5. /\ RecordReply(j, a, row) \in Handler
        /\ Sound(RecordReply(j, a, row), operation'[j].state, records'[j])
    <2>1. CASE Verdict(j, row) \in {"new", "replay"}
      <3>1. RecordReply(j, a, row) = Recorded(j, a, row)
        BY <2>1, Zenon DEF RecordReply
      <3>2. QED
        BY <1>1, <2>1, <3>1, RecordedSound
    <2>2. CASE Verdict(j, row) = "invalid"
      BY <1>1, <1>3, <2>2, FailingSound DEF RecordReply, Codes
    <2>3. CASE Verdict(j, row) = "conflict"
      BY <1>1, <1>3, <2>3, FailingSound DEF RecordReply, Codes
    <2>4. CASE Verdict(j, row) = "no source"
      BY <1>1, <1>3, <2>4, FailingSound, RetryingSound, Zenon DEF RecordReply, Codes
    <2>5. QED
      BY <1>4, <2>1, <2>2, <2>3, <2>4, Zenon
  <1>6. QED
    BY <1>1, <1>3, <1>5, StepKeeps, Zenon

(* A write whose reply is lost is still a legal write. *)
LEMMA ReplyLostMoves ==
    ASSUME ProcessingInv, NEW j \in Jobs, NEW a \in Attempts, ReplyLost(j, a)
    PROVE  Moved(j)
  <1>1. CASE BeginEffect(j)
    BY <1>1, BeginMoves
  <1>2. CASE Calling(j, a, "record") /\ RecordEffect(j, RowOf(handler[j][a], a))
    BY <1>2, RowProper, RecordMoves, Zenon DEF Calling
  <1>3. CASE Calling(j, a, "complete") /\ CompleteEffect(j)
    <2>1. handler[j][a].build \in Builds /\ ReportIn(records[j], handler[j][a].build)
      BY <1>3, HandlerFields, Zenon DEF Sound, Calling
    <2>2. QED
      BY <1>3, <2>1, CompleteMoves
  <1>4. QED
    BY <1>1, <1>2, <1>3 DEF ReplyLost

(* The handler that lost a reply retries, and relies on nothing. *)
LEMMA ReplyLostKeeps ==
    ASSUME ProcessingInv, NEW j \in Jobs, NEW a \in Attempts, ReplyLost(j, a)
    PROVE  ProcessingInv'
  <1>1. UNCHANGED ledger /\ Go(j, a, Retrying(j, a)) /\ Working(handler[j][a])
    BY DEF ReplyLost, Calling, Working
  <1>2. Moved(j)
    BY ReplyLostMoves, Zenon
  <1>3. operation'[j].state # "absent"
    BY <1>1, <1>2, Present, Zenon DEF Moved, Forward
  <1>4. QED
    BY <1>1, <1>2, <1>3, RetryingSound, StepKeeps, Zenon DEF Working

-----------------------------------------------------------------------------
(* Steps of the job in the queue. *)

(* What the invariant says of the job. *)
LEMMA LedgerFields ==
    ASSUME ProcessingInv, NEW j \in Jobs
    PROVE  /\ status \in [Jobs -> Statuses] /\ used \in [Jobs -> 0..AttemptLimit]
           /\ status[j] \in Statuses /\ used[j] \in 0..AttemptLimit /\ used[j] \in Nat
           /\ LedgerInv(status[j], used[j], operation[j].state)
           /\ MaxAttempts[j] \in 1..AttemptLimit /\ AttemptLimit \in Nat
  BY ProcessingConstants DEF ProcessingInv, ProcessingShape, JobInv, LedgerInv

(* A step of the queue that keeps the job consistent with its operation. *)
LEMMA LedgerMoves ==
    ASSUME ProcessingInv, NEW j \in Jobs, UNCHANGED domain,
           NEW s \in Statuses, status' = [status EXCEPT ![j] = s],
           NEW n \in 0..AttemptLimit, used' = [used EXCEPT ![j] = n],
           LedgerInv(s, n, operation[j].state),
           \/ UNCHANGED handler
           \/ \E a \in Attempts, h \in Handler :
                 Go(j, a, h) /\ Sound(h, operation[j].state, records[j])
    PROVE  ProcessingInv'
  <1>1. /\ status' \in [Jobs -> Statuses] /\ used' \in [Jobs -> 0..AttemptLimit]
        /\ status'[j] = s /\ used'[j] = n
        /\ \A i \in Jobs : i # j => status'[i] = status[i] /\ used'[i] = used[i]
    BY LedgerFields, Zenon
  <1>2. /\ handler' \in [Jobs -> [Attempts -> Handler]]
        /\ \A i \in Jobs : i # j => handler'[i] = handler[i]
        /\ \A c \in Attempts : Sound(handler'[j][c], operation[j].state, records[j])
    <2>1. CASE UNCHANGED handler
      BY <2>1, HandlerFields DEF ProcessingInv, ProcessingShape
    <2>2. CASE \E a \in Attempts, h \in Handler :
                 Go(j, a, h) /\ Sound(h, operation[j].state, records[j])
      <3>1. PICK a \in Attempts, h \in Handler :
              Go(j, a, h) /\ Sound(h, operation[j].state, records[j])
        BY <2>2, Zenon
      <3>2. /\ handler' \in [Jobs -> [Attempts -> Handler]] /\ handler'[j][a] = h
            /\ \A i \in Jobs : i # j => handler'[i] = handler[i]
            /\ \A c \in Attempts : c # a => handler'[j][c] = handler[j][c]
        BY <3>1, HandlerFields, ZenonT(60) DEF Go
      <3>3. QED
        BY <3>1, <3>2, HandlerFields, Zenon
    <2>3. QED
      BY <2>1, <2>2, Zenon
  <1>3. ProcessingShape'
    BY <1>1, <1>2 DEF ProcessingInv, ProcessingShape, domain
  <1>4. JobInv(j)'
    BY <1>1, <1>2, Zenon DEF ProcessingInv, JobInv, domain
  <1>5. ASSUME NEW i \in Jobs, i # j PROVE JobInv(i)'
    BY <1>1, <1>2, <1>5 DEF ProcessingInv, JobInv, domain
  <1>6. QED
    BY <1>3, <1>4, <1>5, Zenon DEF ProcessingInv

(* The queue learns an outcome that is public. *)
LEMMA ReportKeeps ==
    ASSUME ProcessingInv, NEW j \in Jobs, NEW a \in Attempts, Report(j, a)
    PROVE  ProcessingInv'
  <1>1. /\ UNCHANGED domain /\ handler[j][a].pc = "report" /\ Working(handler[j][a])
        /\ Go(j, a, [NoHandler EXCEPT !.pc = "ended"])
    BY DEF Report, Working
  <1>2. /\ [NoHandler EXCEPT !.pc = "ended"] \in Handler
        /\ Sound([NoHandler EXCEPT !.pc = "ended"], operation[j].state, records[j])
    BY <1>1, Present, EndedSound
  <1>3. CASE UNCHANGED ledger
    BY <1>1, <1>2, <1>3, DomainStays, StepKeeps DEF domain
  <1>4. CASE \E s \in EndStates \cup {"waiting"} :
               /\ Finish(j, s)
               /\ s = "succeeded" => handler[j][a].outcome = "succeeded"
    <2>1. PICK s \in EndStates \cup {"waiting"} :
            Finish(j, s) /\ (s = "succeeded" => handler[j][a].outcome = "succeeded")
      BY <1>4
    <2>2. s \in Statuses /\ s # "absent"
      BY Zenon DEF Statuses, EndStates
    <2>3. /\ status' = [status EXCEPT ![j] = s] /\ used' = [used EXCEPT ![j] = used[j]]
      BY <2>1, LedgerFields DEF Finish
    <2>4. LedgerInv(s, used[j], operation[j].state)
      <3>1. s = "succeeded" => operation[j].state = "succeeded"
        BY <1>1, <2>1, HandlerFields, Zenon DEF Sound
      <3>2. QED
        BY <1>1, <2>2, <3>1, Present, LedgerFields, Zenon DEF LedgerInv
    <2>5. QED
      BY <1>1, <1>2, <2>2, <2>3, <2>4, LedgerFields, LedgerMoves, Zenon
  <1>5. ASSUME Holder(j, a), Finish(j, EndOf(j, a, handler[j][a].outcome))
        PROVE  \E s \in EndStates \cup {"waiting"} :
                  /\ Finish(j, s)
                  /\ s = "succeeded" => handler[j][a].outcome = "succeeded"
    <2>1. /\ EndOf(j, a, handler[j][a].outcome) \in EndStates \cup {"waiting"}
          /\ EndOf(j, a, handler[j][a].outcome) = "succeeded" =>
                handler[j][a].outcome = "succeeded"
      BY DEF EndOf, EndStates
    <2>2. QED
      BY <1>5, <2>1
  <1>6. ASSUME Finish(j, "cancelled")
        PROVE  \E s \in EndStates \cup {"waiting"} :
                  /\ Finish(j, s)
                  /\ s = "succeeded" => handler[j][a].outcome = "succeeded"
    BY <1>6 DEF EndStates
  <1>7. QED
    BY <1>3, <1>4, <1>5, <1>6 DEF Report

(* An attempt is granted, and begins. *)
LEMMA AcquireKeeps ==
    ASSUME ProcessingInv, NEW j \in Jobs, AcquireImport(j)
    PROVE  ProcessingInv'
  <1>1. /\ status[j] = "waiting" /\ used[j] < MaxAttempts[j]
        /\ status' = [status EXCEPT ![j] = "held"]
        /\ used' = [used EXCEPT ![j] = used[j] + 1] /\ UNCHANGED domain
    BY Zenon DEF AcquireImport, Grant
  <1>2. used[j] + 1 \in 0..AttemptLimit /\ used[j] + 1 \in Attempts /\ "held" \in Statuses
    BY <1>1, LedgerFields DEF Attempts, Statuses
  <1>3. LedgerInv("held", used[j] + 1, operation[j].state) /\ operation[j].state # "absent"
    BY <1>1, <1>2, LedgerFields DEF LedgerInv
  <1>4. PICK b \in Builds : Go(j, used[j] + 1, [NoHandler EXCEPT !.pc = "resolve", !.build = b])
    BY Zenon DEF AcquireImport
  <1> DEFINE h == [NoHandler EXCEPT !.pc = "resolve", !.build = b]
  <1>5. h \in Handler
    BY NoHandlerShape, Zenon DEF Handler, Pcs
  <1>6. h.pc = "resolve" /\ h.step = FirstStep /\ h.build = b
    BY DEF NoHandler
  <1>7. Go(j, used[j] + 1, h)
    BY <1>4, Zenon
  <1> HIDE DEF h
  <1>8. Sound(h, operation[j].state, records[j])
    BY <1>3, <1>6 DEF Sound
  <1>9. QED
    BY <1>1, <1>2, <1>3, <1>5, <1>7, <1>8, LedgerMoves, Zenon

(* Recovery and cancellation change the job, not the operation. *)
LEMMA QueueKeeps ==
    ASSUME ProcessingInv, NEW j \in Jobs,
           RecoverAbandoned(j) \/ RecoverActive(j) \/ RequestCancellation(j)
    PROVE  ProcessingInv'
  <1>1. UNCHANGED domain /\ UNCHANGED handler /\ UNCHANGED used
    BY Zenon DEF RecoverAbandoned, RecoverActive, RequestCancellation, Reclaim, Withdraw
  <1>2. PICK s \in {"waiting", "held", "cancelled", "dead_letter"} :
          status' = [status EXCEPT ![j] = s] /\ status[j] # "absent"
    <2>1. CASE Reclaim({j})
      <3>1. Reclaimed(j) \in {"waiting", "cancelled", "dead_letter"}
        BY Zenon DEF Reclaimed
      <3>2. status' = [status EXCEPT ![j] = Reclaimed(j)]
        BY <2>1, LedgerFields, Zenon DEF Reclaim
      <3>3. status[j] # "absent"
        BY <2>1, LedgerFields DEF Reclaim, LedgerInv
      <3>4. QED
        BY <3>1, <3>2, <3>3, Zenon
    <2>2. CASE Withdraw(j)
      BY <2>2, Zenon DEF Withdraw
    <2>3. QED
      BY <2>1, <2>2 DEF RecoverAbandoned, RecoverActive, RequestCancellation
  <1>3. s \in Statuses /\ used' = [used EXCEPT ![j] = used[j]]
    BY <1>1, LedgerFields, Zenon DEF Statuses, EndStates
  <1>4. LedgerInv(s, used[j], operation[j].state)
    BY <1>2, <1>3, LedgerFields DEF LedgerInv
  <1>5. QED
    BY <1>1, <1>2, <1>3, <1>4, LedgerFields, LedgerMoves, Zenon

(* Completing an import creates operation and job in one transaction. *)
LEMMA CompleteImportKeeps ==
    ASSUME ProcessingInv, NEW j \in Jobs, CompleteImport(j)
    PROVE  ProcessingInv' /\ Moved(j)
  <1> DEFINE op == [operation[j] EXCEPT !.state = "queued"]
  <1>1. /\ status[j] = "absent" /\ status' = [status EXCEPT ![j] = "waiting"]
        /\ importState' = [importState EXCEPT ![j] = "queued"]
        /\ UNCHANGED <<used, records, handler>>
    BY DEF CompleteImport, Submit
  <1>2. operation' = [operation EXCEPT ![j] = op]
    BY DEF CompleteImport
  <1>3. op \in Operation /\ op.state = "queued"
    <2>1. operation[j] \in Operation
      BY DomainFields, Zenon
    <2>2. QED
      BY <2>1, Zenon DEF Operation, OperationStates
  <1> HIDE DEF op
  <1>4. operation[j].state = "absent" /\ used[j] = 0
    BY <1>1, LedgerFields DEF LedgerInv
  <1>5. Moved(j)
    BY <1>1, <1>2, <1>3, <1>4, OperationMoves, Zenon DEF Terminal, Agree
  <1>6. /\ status' \in [Jobs -> Statuses] /\ status'[j] = "waiting"
        /\ \A i \in Jobs : i # j => status'[i] = status[i]
    BY <1>1, LedgerFields, Zenon DEF Statuses
  <1>7. ProcessingShape'
    BY <1>1, <1>5, <1>6 DEF ProcessingInv, ProcessingShape, Moved
  <1>8. ASSUME NEW i \in Jobs, i # j PROVE JobInv(i)'
    BY <1>1, <1>5, <1>6, <1>8, Zenon DEF ProcessingInv, JobInv, Moved
  <1>9. JobInv(j)'
    <2>1. operation'[j].state = "queued"
      BY <1>2, <1>3, DomainFields, Zenon
    <2>2. LedgerInv(status'[j], used'[j], operation'[j].state)
      BY <1>1, <1>6, <2>1, LedgerFields, Zenon DEF LedgerInv, Statuses
    <2>3. \A a \in Attempts : Sound(handler'[j][a], operation'[j].state, records'[j])
      BY <1>1, <1>5, HandlerFields, SoundForward DEF Moved
    <2>4. QED
      BY <1>5, <2>2, <2>3, Zenon DEF JobInv, Moved
  <1>10. QED
    BY <1>5, <1>7, <1>8, <1>9 DEF ProcessingInv

-----------------------------------------------------------------------------
(* The invariant holds. *)

(* Nothing has been uploaded. *)
LEMMA ProcessingStarts == ProcessingInit => ProcessingInv
  <1> SUFFICES ASSUME ProcessingInit PROVE ProcessingInv
    OBVIOUS
  <1> DEFINE op == [state |-> "absent", code |-> "none", scans |-> 0]
  <1>1. op \in Operation /\ op.state = "absent"
    BY ProcessingConstants DEF Operation, OperationStates, Codes
  <1>2. /\ status = [j \in Jobs |-> "absent"] /\ used = [j \in Jobs |-> 0]
        /\ operation = [j \in Jobs |-> op] /\ importState = [j \in Jobs |-> "absent"]
        /\ records = [j \in Jobs |-> {}]
        /\ handler = [j \in Jobs |-> [a \in Attempts |-> NoHandler]]
    BY Zenon DEF ProcessingInit, LedgerInit
  <1> HIDE DEF op
  <1>3. NoHandler \in Handler /\ NoHandler.pc = "idle" /\ NoHandler.step = FirstStep
    BY NoHandlerShape, Zenon DEF NoHandler
  <1>4. ProcessingShape
    BY <1>1, <1>2, <1>3, ProcessingConstants, SMTT(60) DEF ProcessingShape, Statuses,
       ImportStates
  <1>5. ASSUME NEW j \in Jobs PROVE JobInv(j)
    <2>1. DomainInv(operation[j], importState[j], records[j])
      BY <1>1, <1>2, Zenon DEF DomainInv, Agree, RecordsInv
    <2>2. LedgerInv(status[j], used[j], operation[j].state)
      BY <1>1, <1>2, ProcessingConstants DEF LedgerInv, Statuses
    <2>3. \A a \in Attempts : Sound(handler[j][a], operation[j].state, records[j])
      BY <1>2, <1>3, Zenon DEF Sound
    <2>4. QED
      BY <2>1, <2>2, <2>3, Zenon DEF JobInv
  <1>6. QED
    BY <1>4, <1>5 DEF ProcessingInv

(* Grants and clocks are not part of the invariant. *)
LEMMA EnvironmentKeeps ==
    ASSUME ProcessingInv, UNCHANGED <<ledger, domain, handler>>
    PROVE  ProcessingInv'
  BY Zenon DEF ProcessingInv, ProcessingShape, JobInv, ledger, domain

(* The invariant is inductive. *)
LEMMA ProcessingGoesOn == ProcessingInv /\ [ProcessingNext]_processing => ProcessingInv'
  <1> SUFFICES ASSUME ProcessingInv, [ProcessingNext]_processing PROVE ProcessingInv'
    OBVIOUS
  <1>1. CASE UNCHANGED processing
    BY <1>1, EnvironmentKeeps, Zenon DEF processing
  <1>2. ASSUME NEW j \in Jobs, NEW a \in Attempts, HandleStep(j, a)
        PROVE  ProcessingInv'
    BY <1>2, ResolveKeeps, AuthorizeKeeps, BeginKeeps, OpenKeeps, RecordKeeps, CompleteKeeps,
       FailKeeps, ReportKeeps, Zenon DEF HandleStep
  <1>3. ASSUME NEW j \in Jobs, NEW a \in Attempts, HandleFault(j, a)
        PROVE  ProcessingInv'
    BY <1>3, FaultKeeps, ReplyLostKeeps, UnpersistedKeeps, InterruptKeeps, Zenon DEF HandleFault
  <1>4. ASSUME NEW j \in Jobs, Revoke(j) \/ Age(j)
        PROVE  ProcessingInv'
    BY <1>4, EnvironmentKeeps DEF Revoke, Age
  <1>5. QED
    BY <1>1, <1>2, <1>3, <1>4, CompleteImportKeeps, AcquireKeeps, QueueKeeps, Zenon
       DEF ProcessingNext

(* The invariant holds in every reachable state. *)
LEMMA ProcessingHolds == ProcessingSpec => []ProcessingInv
  BY ProcessingStarts, ProcessingGoesOn, PTL DEF ProcessingSpec

-----------------------------------------------------------------------------
(* The properties. *)

(* operations.state and imports.state agree in every state: BeginProcessing,  *)
(* CompleteProcessing and FailProcessing move them together, whatever         *)
(* attempts of whatever builds overlap and whatever faults there are.         *)
THEOREM ProcessingStatesAgree == ProcessingSpec => []StatesAgree
  <1>1. ProcessingInv => StatesAgree
    BY Zenon DEF ProcessingInv, JobInv, DomainInv, Agree, StatesAgree
  <1>2. QED
    BY <1>1, ProcessingHolds, PTL

(* One row per element of the report: the unique keys of the five inserts,    *)
(* together with the identifiers the loops carry, leave overlapping attempts  *)
(* and different builds no way to store an element twice.                     *)
THEOREM ProcessingOneRecordPerSource == ProcessingSpec => []OneRecordPerSource
  <1>1. ProcessingInv => OneRecordPerSource
    BY Zenon DEF ProcessingInv, JobInv, DomainInv, RecordsInv, SameSource, OneRecordPerSource
  <1>2. QED
    BY <1>1, ProcessingHolds, PTL

(* What Handle reports to the queue is already public.                        *)
THEOREM ProcessingOutcomePublished == ProcessingSpec => []OutcomePublished
  <1>1. ProcessingInv => OutcomePublished
    BY ZenonT(60) DEF ProcessingInv, JobInv, LedgerInv, Sound, OutcomePublished
  <1>2. QED
    BY <1>1, ProcessingHolds, PTL

(* A report stored in full has one scan for each of its runs.                 *)
LEMMA ScansCounted ==
    ASSUME NEW recs, RecordsInv(recs), NEW b, ReportIn(recs, b)
    PROVE  LET scans == {e \in recs : e.kind = "scan"} IN
           /\ {e.run : e \in scans} = 1..Runs
           /\ \A e, f \in scans : e.run = f.run => e = f
  <1> DEFINE scans == {e \in recs : e.kind = "scan"}
  <1>1. \A e \in scans : e.run \in 1..Runs
    BY Zenon DEF RecordsInv
  <1>2. \A e, f \in scans : e.run = f.run => e = f
    BY DEF RecordsInv, SameSource
  <1>3. \A r \in 1..Runs : \E e \in scans : e.run = r
    BY Zenon DEF ReportIn, RunIn
  <1>4. QED
    BY <1>1, <1>2, <1>3

(* A succeeded operation has every record of the report, in one build's       *)
(* interpretation, each under the row it came from, and as many scans as its  *)
(* result says: CompleteProcessing runs only after Handle's loops.            *)
THEOREM ProcessingSucceededIsComplete == ProcessingSpec => []SucceededIsComplete
  <1>1. ASSUME ProcessingInv, NEW j \in Jobs, operation[j].state = "succeeded"
        PROVE  /\ \E b \in Builds : Interpreted(j, b)
               /\ LET scans == {e \in records[j] : e.kind = "scan"} IN
                  /\ {e.run : e \in scans} = 1..operation[j].scans
                  /\ \A e, f \in scans : e.run = f.run => e = f
    <2>1. PICK b \in Builds : ReportIn(records[j], b)
      BY <1>1, DomainFields, Zenon
    <2>2. Interpreted(j, b)
      BY <2>1 DEF ReportIn, ParseIn, RunIn, ResultIn, InterpretationIn, Interpreted
    <2>3. operation[j].scans = Runs /\ RecordsInv(records[j])
      BY <1>1, DomainFields, Zenon
    <2>4. QED
      BY <2>1, <2>2, <2>3, ScansCounted, Zenon
  <1>2. ProcessingInv => SucceededIsComplete
    BY <1>1, Zenon DEF SucceededIsComplete
  <1>3. QED
    BY <1>2, ProcessingHolds, PTL

(* A step of a handler writes nothing, or moves its own job on. *)
LEMMA HandlerWrites ==
    ASSUME ProcessingInv, NEW j \in Jobs, NEW a \in Attempts, HandleStep(j, a)
    PROVE  UNCHANGED domain \/ Moved(j)
  <1>1. CASE ResolveProcessingTarget(j, a) \/ Authorize(j, a) \/ OpenAndParse(j, a) \/ Report(j, a)
    BY <1>1 DEF ResolveProcessingTarget, Authorize, OpenAndParse, Report
  <1>2. CASE BeginProcessing(j, a)
    BY <1>2, BeginMoves DEF BeginProcessing
  <1>3. CASE RecordRow(j, a)
    BY <1>3, RowProper, RecordMoves, Zenon DEF RecordRow, Calling
  <1>4. CASE CompleteProcessing(j, a)
    <2>1. handler[j][a].build \in Builds /\ ReportIn(records[j], handler[j][a].build)
      BY <1>4, HandlerFields, Zenon DEF Sound, Calling, CompleteProcessing
    <2>2. QED
      BY <1>4, <2>1, CompleteMoves, Zenon DEF CompleteProcessing
  <1>5. CASE FailProcessing(j, a)
    BY <1>5, HandlerFields, FailMoves, Zenon DEF FailProcessing
  <1>6. QED
    BY <1>1, <1>2, <1>3, <1>4, <1>5 DEF HandleStep

(* So does a fault. *)
LEMMA FaultWrites ==
    ASSUME ProcessingInv, NEW j \in Jobs, NEW a \in Attempts, HandleFault(j, a)
    PROVE  UNCHANGED domain \/ Moved(j)
  <1>1. CASE CallFails(j, a) \/ EvidenceFails(j, a) \/ Panic(j, a) \/ Crash(j, a) \/ Interrupt(j, a)
    BY <1>1, Zenon DEF CallFails, EvidenceFails, Panic, Crash, Interrupt
  <1>2. CASE FailureUnpersisted(j, a)
    BY <1>2, HandlerFields, FailMoves DEF FailureUnpersisted
  <1>3. CASE ReplyLost(j, a)
    BY <1>3, ReplyLostMoves
  <1>4. QED
    BY <1>1, <1>2, <1>3 DEF HandleFault

(* A finished operation and its import never change again: no late attempt    *)
(* overwrites the verdict a client has seen.                                  *)
THEOREM ProcessingOperationFinal == ProcessingSpec => OperationFinal
  <1>1. ASSUME ProcessingInv, ProcessingNext
        PROVE  \A j \in Jobs : operation[j].state \in Terminal
                  => operation'[j] = operation[j] /\ importState'[j] = importState[j]
    <2>1. ASSUME NEW j \in Jobs, Moved(j), NEW i \in Jobs, operation[i].state \in Terminal
          PROVE  operation'[i] = operation[i] /\ importState'[i] = importState[i]
      BY <2>1 DEF Moved
    <2>2. UNCHANGED domain \/ \E j \in Jobs : Moved(j)
      <3>1. PICK j \in Jobs :
              \/ CompleteImport(j) \/ AcquireImport(j)
              \/ \E a \in Attempts : HandleStep(j, a) \/ HandleFault(j, a)
              \/ RecoverAbandoned(j) \/ RecoverActive(j)
              \/ RequestCancellation(j) \/ Revoke(j) \/ Age(j)
        BY <1>1 DEF ProcessingNext
      <3>2. CASE CompleteImport(j)
        BY <1>1, <3>2, CompleteImportKeeps
      <3>3. CASE \/ AcquireImport(j) \/ RecoverAbandoned(j) \/ RecoverActive(j)
                 \/ RequestCancellation(j) \/ Revoke(j) \/ Age(j)
        BY <3>3, Zenon DEF AcquireImport, RecoverAbandoned, RecoverActive, RequestCancellation,
           Revoke, Age
      <3>4. ASSUME NEW a \in Attempts, HandleStep(j, a)
            PROVE  UNCHANGED domain \/ Moved(j)
        BY <1>1, <3>4, HandlerWrites
      <3>5. ASSUME NEW a \in Attempts, HandleFault(j, a)
            PROVE  UNCHANGED domain \/ Moved(j)
        BY <1>1, <3>5, FaultWrites, Zenon
      <3>6. QED
        BY <3>1, <3>2, <3>3, <3>4, <3>5
    <2>3. CASE UNCHANGED domain
      BY <2>3, Zenon DEF domain
    <2>4. QED
      BY <2>1, <2>2, <2>3, Zenon
  <1>2. ProcessingInv /\ [ProcessingNext]_processing =>
          [\A j \in Jobs : operation[j].state \in Terminal
              => operation'[j] = operation[j] /\ importState'[j] = importState[j]]_processing
    BY <1>1 DEF processing
  <1>3. QED
    BY <1>2, ProcessingHolds, PTL DEF ProcessingSpec, OperationFinal
=============================================================================
