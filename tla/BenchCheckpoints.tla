--------------------------- MODULE BenchCheckpoints ---------------------------
(***************************************************************************)
(* The comparisons that run one process per shape, each writing a          *)
(* checkpoint of its own; after every shape the checkpoints found are      *)
(* rendered into one report.  compare_cutlass.py ("checkpoints") is both   *)
(* in benchmarks/ and, with other shapes, in the archive of the model      *)
(* projections; compare_optimized.py ("families") also measures the        *)
(* library from before the optimization.  The archives keep an audit of    *)
(* each beside its checkpoints.  Sessions measure every shape, one shape,  *)
(* or only render; sources are edited, processes are killed, the host      *)
(* restarts between any two steps.                                         *)
(***************************************************************************)
EXTENDS Integers, Sequences, FiniteSets

CONSTANTS
  SHAPES,       \* the shapes, in order
  MaxEdits,     \* bound: edits of the sources
  MaxSessions   \* bound: sessions started

VARIABLES
  tool,
  sources,    \* what is on disk of each source: how often it was edited
  edits,
  file,       \* the checkpoint of each shape
  durable,    \* the directories a restart of the host may leave
  rendered,   \* the report
  pc,
  args,       \* what the session was asked for
  next,       \* the shape it is at
  loaded,     \* the sources the measuring process runs
  hashed,     \* the sources it hashed
  sessions,
  promised    \* history: the checkpoints whose save returned

session == <<pc, args, next, loaded, hashed>>
disk == <<file, durable, rendered, promised>>
host == <<tool, sources, edits, sessions>>
vars == <<session, disk, host>>

\* baseline: the library from before the optimization, and its manifest.
Sources == {"library", "software", "script", "baseline"}
Used == IF tool = "families" THEN Sources ELSE Sources \ {"baseline"}
Unedited == [s \in Sources |-> 0]
Indices == 1 .. Len(SHAPES)
Absent == [kind |-> "absent", ran |-> Unedited, source |-> Unedited]
Case == [kind |-> "complete", ran |-> loaded, source |-> hashed]
NoReport == [kind |-> "absent", cases |-> <<>>]
Torn == [kind |-> "torn", cases |-> <<>>]

Ended ==
  /\ pc' = "off" /\ args' = "none" /\ next' = 0
  /\ loaded' = Unedited /\ hashed' = Unedited
At(place) == pc' = place /\ UNCHANGED <<args, next, loaded, hashed>>

-----------------------------------------------------------------------------
(* One shape.                                                              *)

\* main: every shape in a child, one shape here, or only the report.
Start ==
  /\ pc = "off" /\ sessions < MaxSessions /\ sessions' = sessions + 1
  /\ \/ pc' = "child" /\ args' = "all" /\ next' = 1
     \/ pc' = "child" /\ args' = "one" /\ next' \in Indices
     \/ pc' = "render" /\ args' = "render" /\ next' = 0
  /\ UNCHANGED <<loaded, hashed, disk, tool, sources, edits>>

\* The process imports the package and its libraries, then hashes them, and
\* the environment, all in one comparison.
Import ==
  /\ pc = "child" /\ pc' = "hash" /\ loaded' = [sources EXCEPT !["baseline"] = 0]
  /\ UNCHANGED <<args, next, hashed, disk, host>>
Provenance ==
  /\ pc = "hash" /\ pc' = "compare" /\ hashed' = sources
  /\ UNCHANGED <<args, next, loaded, disk, host>>

\* A complete checkpoint of the same sources is retained, another raises.
Retained(old) == old.kind = "complete" /\ old.source = hashed
NotRetained(old) == ~Retained(old)
Rerun(old) == old.kind = "absent"
Compare ==
  /\ pc = "compare"
  /\ LET old == file[next]
     IN IF Rerun(old) THEN At(IF tool = "families" THEN "baseline" ELSE "tune")
        ELSE IF Retained(old) THEN At("after")
        ELSE Ended
  /\ UNCHANGED <<disk, host>>

\* The baseline is loaded only now, after it was hashed.
LoadBaseline ==
  /\ pc = "baseline" /\ pc' = "tune"
  /\ loaded' = [loaded EXCEPT !["baseline"] = sources["baseline"]]
  /\ UNCHANGED <<args, next, hashed, disk, host>>

\* A wrong or non-finite output raises, and a time that is not positive.
OrRaise(place) == At(place) \/ Ended

\* Every candidate is checked, captured into a graph and tuned, unless it needs
\* too many resources; a backend none of whose candidates fits raises.  The
\* fastest of each backend, and of each family of the optimized library, is
\* then checked on new inputs, replayed on zeros, and timed.  Whatever raises,
\* nothing is saved.
Tune == pc = "tune" /\ OrRaise("time") /\ UNCHANGED <<disk, host>>
Time == pc = "time" /\ OrRaise("save") /\ UNCHANGED <<disk, host>>

\* save: the bytes are synced before the replacement, the directory after it.
Replace ==
  /\ pc = "save" /\ At("sync")
  /\ file' = [file EXCEPT ![next] = Case] /\ durable' = durable \cup {file'}
  /\ UNCHANGED <<rendered, promised, host>>
SyncDirectory ==
  /\ pc = "sync" /\ At("after")
  /\ durable' = {file} /\ promised' = [promised EXCEPT ![next] = file[next]]
  /\ UNCHANGED <<file, rendered, host>>
After ==
  /\ pc = "after"
  /\ IF args = "all" THEN At("render") ELSE Ended
  /\ UNCHANGED <<disk, host>>

-----------------------------------------------------------------------------
(* The report.                                                             *)

Found == {i \in Indices : file[i].kind # "absent"}
\* render refuses an incomplete case, and cases of different sources.
OneSoftware ==
  \A i, j \in Found : file[i].kind = "complete" /\ file[i].source["software"] = file[j].source["software"]
Mixable ==
  \A i, j \in Found : file[i].kind = "complete" /\ file[i].source = file[j].source

\* The report is written in place.
Render ==
  /\ pc = "render"
  /\ IF Found # {} /\ Mixable THEN At("rendering") /\ rendered' = Torn
     ELSE Ended /\ UNCHANGED rendered
  /\ UNCHANGED <<file, durable, promised, host>>
Rendered ==
  /\ pc = "rendering" /\ rendered' = [kind |-> "report", cases |-> [i \in Found |-> file[i]]]
  /\ IF args = "render" THEN Ended
     ELSE IF next < Len(SHAPES)
     THEN pc' = "child" /\ next' = next + 1 /\ UNCHANGED <<args, loaded, hashed>>
     ELSE At("finished")
  /\ UNCHANGED <<file, durable, promised, host>>
Finish == pc = "finished" /\ Ended /\ UNCHANGED <<disk, host>>

-----------------------------------------------------------------------------
(* The audit, which only reads.                                            *)

\* Every case is complete, and all are of the same sources.
AuditCases(checkpoints) ==
  \A i, j \in Found : checkpoints[i].kind = "complete" /\ checkpoints[i].source = checkpoints[j].source
\* What the first case recorded is what is there now; of the software only the
\* name of the device is looked at.
AuditSources(recorded) == \A s \in Used \ {"software"} : recorded[s] = sources[s]
Audit ==
  IF ~AuditCases(file) \/ \E i \in Found : ~AuditSources(file[i].source) THEN "FAIL"
  ELSE IF Found = Indices THEN "PASS" ELSE "INCOMPLETE"

-----------------------------------------------------------------------------
(* The environment.                                                        *)

Edit(s) ==
  /\ s \in Used
  /\ edits < MaxEdits /\ edits' = edits + 1
  /\ sources' = [sources EXCEPT ![s] = @ + 1]
  /\ UNCHANGED <<session, disk, tool, sessions>>
Kill == pc # "off" /\ Ended /\ UNCHANGED <<disk, host>>
\* Nothing syncs the report.
HostRestart ==
  /\ Ended
  /\ file' \in durable /\ durable' = {file'}
  /\ rendered' \in {rendered, Torn}
  /\ UNCHANGED <<promised, host>>

Init ==
  /\ tool \in {"checkpoints", "families"}
  /\ sources = Unedited /\ edits = 0 /\ sessions = 0
  /\ file = [i \in Indices |-> Absent] /\ durable = {file} /\ promised = file
  /\ rendered = NoReport
  /\ pc = "off" /\ args = "none" /\ next = 0 /\ loaded = Unedited /\ hashed = Unedited

Work ==
  \/ Import \/ Provenance \/ Compare \/ LoadBaseline \/ Tune \/ Time
  \/ Replace \/ SyncDirectory \/ After \/ Render \/ Rendered \/ Finish
Next == Start \/ Work \/ Kill \/ HostRestart \/ \E s \in Sources : Edit(s)

-----------------------------------------------------------------------------
(* Properties.                                                             *)

\* The rows of a report were measured with one library, one script and one
\* environment, in however many processes and sessions (those aside that were
\* edited between the import and the hash).
Uniform ==
  \A i, j \in DOMAIN rendered.cases :
    LET a == rendered.cases[i]  b == rendered.cases[j]
    IN a.ran = a.source /\ b.ran = b.source => a.ran = b.ran

\* An audit that passes is of results that were measured with the libraries and
\* the script there now, and in one environment (those aside again).
AuditSound ==
  Audit = "PASS" =>
    \A i \in Indices : file[i].ran = file[i].source =>
      /\ \A s \in Used \ {"software"} : file[i].ran[s] = sources[s]
      /\ \A j \in Indices : file[j].source["software"] = file[i].ran["software"]

\* A run through every shape that ends without an error has rendered them all,
\* and passes the audit unless something was edited since.
Whole ==
  pc = "finished" =>
    /\ DOMAIN rendered.cases = Indices
    /\ file[Len(SHAPES)].source = sources => Audit = "PASS"

\* A checkpoint whose save returned is there for good: no later session and no
\* restart replaces or loses it.
Kept == \A content \in durable : \A i \in Indices : promised[i].kind = "complete" => content[i] = promised[i]

\* Every session ends.
SessionEnds == pc # "off" ~> pc = "off"

Spec == Init /\ [][Next]_vars /\ WF_vars(Work)
=============================================================================
