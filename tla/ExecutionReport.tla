-------------------------- MODULE ExecutionReport --------------------------
(***************************************************************************)
(* The check records of evidence-record.mjs and the decision that            *)
(* build-execution-report.mjs makes from them.  A digest stands for its      *)
(* content, and the repository is always the same.                           *)
(***************************************************************************)
EXTENDS Integers, FiniteSets

CONSTANTS HostedOnly,  \* the checks that only hosted runs can pass
          NoRun,       \* no workflow run: evidence made outside GitHub
          NoArtifact   \* a check that names no artifact

Statuses == {"pass", "fail", "skipped", "not-run"}

Decisions == {"review_required", "ready_for_review", "ready_for_acceptance"}

CheckRecords(ids, heads, runs, digests) ==
  [id : ids, status : Statuses, head : heads, run : runs, digest : digests]

CheckRecord(id, status, head, run, digest) ==
  [id |-> id, status |-> status, head |-> head, run |-> run, digest |-> digest]

\* A bug: the file is named by the time, so that the earlier record stays.
AddRecord(records, record) == records \cup {record}

\* The file is named by the check, so that a later record replaces it.
WriteRecord(records, record) ==
  {r \in records : r.id # record.id} \cup {record}

\* A JUnit file as a set of test cases.
NoSuite == [present |-> FALSE, passed |-> FALSE, tests |-> 0, names |-> {}]

JUnit(cases) ==
  [present |-> TRUE,
   passed  |-> \A c \in cases : c.outcome # "failed",
   tests   |-> Cardinality(cases),
   names   |-> {c.name : c \in {d \in cases : d.outcome = "passed"}}]

-----------------------------------------------------------------------------
(* The evidence e: task contract, plan and whether it is valid, records, the *)
(* two suites, whether the report is made on GitHub, the head and run that   *)
(* are reported on, and the digests of the artifacts as they are now.        *)

\* A bug: a record counts for any commit.
ValidOnAnyHead(record, e) ==
  /\ e.run # NoRun => record.run = e.run
  /\ record.digest # NoArtifact => record.digest = e.artifacts[record.id]

ValidRecord(record, e) ==
  /\ record.head = e.head
  /\ e.run # NoRun => record.run = e.run
  /\ record.digest # NoArtifact => record.digest = e.artifacts[record.id]

\* A check counts by exactly one record.
CheckPasses(id, e) ==
  \E record \in e.records :
    /\ {r \in e.records : r.id = id} = {record}
    /\ record.status = "pass"
    /\ ValidRecord(record, e)

RequiredChecks(e) ==
  (e.checks \cup (IF e.hosted THEN {"validation-authority"} ELSE {})) \ {"evidence"}

FailedChecks(e) == {id \in RequiredChecks(e) : ~CheckPasses(id, e)}

UnprovenCriteria(e) == e.criteria \ (e.unit.names \cup e.acceptance.names)

LocalReady(e) ==
  /\ e.planValid
  /\ e.unit.present /\ e.unit.passed
  /\ e.acceptance.present /\ e.acceptance.passed /\ e.acceptance.tests > 0
  /\ FailedChecks(e) \subseteq HostedOnly
  /\ UnprovenCriteria(e) = {}

Decision(e) ==
  IF ~LocalReady(e) THEN "review_required"
  ELSE IF e.hosted /\ e.trusted /\ FailedChecks(e) = {}
  THEN "ready_for_acceptance" ELSE "ready_for_review"
=============================================================================
