----------------------------- MODULE AuditStore -----------------------------
(***************************************************************************)
(* The audit tables of storage/sqlite.py and the worker threads that write *)
(* them.                                                                   *)
(*                                                                         *)
(* Every coroutine of SQLiteStore hands one SQL statement to               *)
(* asyncio.to_thread and awaits it.  The statement is queued, a worker     *)
(* thread executes it on the shared autocommit connection, and the event   *)
(* loop resumes the caller some time later.  These are three moments, and  *)
(* a cancellation or a crash can fall between any two of them: the caller  *)
(* of a cancelled await has gone, yet the statement it queued may still be *)
(* executed.                                                               *)
(*                                                                         *)
(* A row is named by the uuid4 of the call that opens it, so a run id is   *)
(* used by one call only and has at most one statement in the queue.       *)
(***************************************************************************)
EXTENDS Naturals

CONSTANTS
    AgentRuns,      \* ids of AgentRun rows, one per call of an @agent function
    WorkflowRuns,   \* ids of WorkflowRun rows, one per run_workflow
    NoRun,          \* None, where a run id is expected
    Faults          \* the faults the environment may produce

Runs == AgentRuns \cup WorkflowRuns

ASSUME RunIdsDistinct ==
    /\ AgentRuns \cap WorkflowRuns = {}
    /\ NoRun \notin Runs

ASSUME FaultKinds == Faults \subseteq {"cancel", "store", "crash", "janitor"}

(***************************************************************************)
(* An LLM call is named by the agent run that made it and its number among *)
(* the calls of that run.  A row whose cost, tokens and hashes are those   *)
(* of call c "charges" c; zero cost and the sentinels of a pure agent are  *)
(* NoCall.                                                                 *)
(***************************************************************************)
NoCall == <<NoRun, 0>>
Call == (AgentRuns \X Nat) \cup {NoCall}

Status == {"absent", "pending", "running", "succeeded", "failed", "aborted"}

Statement ==
    [op : {"insert", "update", "artifact"}, status : Status,
     wf : WorkflowRuns \cup {NoRun}, call : Call]

VARIABLES
    status,     \* status column of the row of each run; "absent" if there is none
    link,       \* agent_run.workflow_run_id
    charge,     \* the call whose cost and hashes the agent_run row records
    artifact,   \* artifact.workflow_run_id of the artifact a run created, or NoRun
    stage,      \* progress of the statement a run has given to to_thread
    stmt        \* the last statement a run has given to to_thread

rowVars   == <<status, link, charge, artifact>>
storeVars == <<status, link, charge, artifact, stage, stmt>>

StoreTypeOK ==
    /\ status   \in [Runs -> Status]
    /\ link     \in [Runs -> WorkflowRuns \cup {NoRun}]
    /\ charge   \in [Runs -> Call]
    /\ artifact \in [Runs -> WorkflowRuns \cup {NoRun}]
    /\ stage    \in [Runs -> {"none", "queued", "applied", "error"}]
    /\ stmt     \in [Runs -> Statement]

(***************************************************************************)
(* The statements the platform issues.                                     *)
(***************************************************************************)
Insert(st, wf)     == [op |-> "insert",   status |-> st,       wf |-> wf,    call |-> NoCall]
Update(st, call)   == [op |-> "update",   status |-> st,       wf |-> NoRun, call |-> call]
InsertArtifact(wf) == [op |-> "artifact", status |-> "absent", wf |-> wf,    call |-> NoCall]

StoreInit ==
    /\ status   = [r \in Runs |-> "absent"]
    /\ link     = [r \in Runs |-> NoRun]
    /\ charge   = [r \in Runs |-> NoCall]
    /\ artifact = [r \in Runs |-> NoRun]
    /\ stage    = [r \in Runs |-> "none"]
    /\ stmt     = [r \in Runs |-> Insert("absent", NoRun)]

\* await asyncio.to_thread(...): the statement is queued, nothing is written yet.
Submit(r, s) ==
    /\ stage' = [stage EXCEPT ![r] = "queued"]
    /\ stmt'  = [stmt EXCEPT ![r] = s]
    /\ UNCHANGED rowVars

\* The result of the await has been consumed.
Consume(r) ==
    /\ stage' = [stage EXCEPT ![r] = "none"]
    /\ UNCHANGED <<stmt, status, link, charge, artifact>>

\* PRAGMA foreign_keys = ON: the workflow and the creator a row refers to exist.
ForeignKeys(r) ==
    /\ stmt[r].wf # NoRun => status[stmt[r].wf] # "absent"
    /\ stmt[r].op = "artifact" => status[r] # "absent"

Executes(r, op) ==
    /\ stage[r] = "queued"
    /\ stmt[r].op = op
    /\ ForeignKeys(r)
    /\ stage' = [stage EXCEPT ![r] = "applied"]
    /\ UNCHANGED stmt

\* INSERT INTO agent_run / workflow_run; the cost of a new row is zero.
InsertRow(r) ==
    /\ Executes(r, "insert")
    /\ status' = [status EXCEPT ![r] = stmt[r].status]
    /\ link'   = [link EXCEPT ![r] = stmt[r].wf]
    /\ UNCHANGED <<charge, artifact>>

\* Defect: an update that names the cost columns does not name the status.
UpdateRow_CostOnly(r) ==
    /\ Executes(r, "update")
    /\ status' = [status EXCEPT ![r] =
                    IF @ = "absent" \/ stmt[r].call # NoCall THEN @ ELSE stmt[r].status]
    /\ charge' = [charge EXCEPT ![r] = IF status[r] # "absent" THEN stmt[r].call ELSE @]
    /\ UNCHANGED <<link, artifact>>

\* UPDATE ... WHERE id = ?: the status the row had is not looked at, a missing
\* row is no error, and only an update to succeeded names the cost columns.
UpdateRow(r) ==
    /\ Executes(r, "update")
    /\ status' = [status EXCEPT ![r] = IF @ = "absent" THEN @ ELSE stmt[r].status]
    /\ charge' = [charge EXCEPT ![r] =
                    IF status[r] # "absent" /\ stmt[r].status = "succeeded"
                    THEN stmt[r].call ELSE @]
    /\ UNCHANGED <<link, artifact>>

\* INSERT INTO artifact, with the run as created_by_agent_run_id.
InsertArtifactRow(r) ==
    /\ Executes(r, "artifact")
    /\ artifact' = [artifact EXCEPT ![r] = stmt[r].wf]
    /\ UNCHANGED <<status, link, charge>>

\* The statement raises: a foreign key fails, or the database is unavailable.
RejectStatement(r) ==
    /\ stage[r] = "queued"
    /\ ~ForeignKeys(r) \/ "store" \in Faults
    /\ stage' = [stage EXCEPT ![r] = "error"]
    /\ UNCHANGED <<stmt, status, link, charge, artifact>>
=============================================================================
