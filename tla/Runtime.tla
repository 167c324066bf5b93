------------------------------- MODULE Runtime ------------------------------
(***************************************************************************)
(* The platform runtime: agents and workflows nested in each other on the  *)
(* await chains of several tasks, over the contexts they share and the     *)
(* audit store, with cancellations, store failures, process crashes and    *)
(* the janitor that ADR-005 leaves to the deployment.                      *)
(***************************************************************************)
EXTENDS AgentCall, WorkflowCall

vars == <<storeVars, stackVars, contextVars, pc, own, localVars>>

TypeOK == StoreTypeOK /\ ContextTypeOK

Init == StoreInit /\ ContextInit

\* A worker thread executes the statement a run has queued, and nothing else.
LoopUnchanged == UNCHANGED <<stackVars, contextVars, pc, own, localVars>>
WorkerInsertsRow(r)      == InsertRow(r) /\ LoopUnchanged
WorkerUpdatesRow(r)      == UpdateRow(r) /\ LoopUnchanged
WorkerInsertsArtifact(r) == InsertArtifactRow(r) /\ LoopUnchanged
WorkerRejects(r)         == RejectStatement(r) /\ LoopUnchanged

\* The process dies: contexts, await chains and queued statements are gone,
\* the rows stay.  The process that follows starts with fresh contexts.
Crash ==
    /\ "crash" \in Faults
    /\ \E r \in Runs : pc[r] \in Active
    /\ pc'         = [r \in Runs |-> IF pc[r] \in Active THEN "crashed" ELSE pc[r]]
    /\ cur'        = [t \in Tasks |-> NoRun]
    /\ stage'      = [r \in Runs |-> "none"]
    /\ lastCall'   = [c \in Contexts |-> NoCall]
    /\ workflowId' = [c \in Contexts |-> NoRun]
    /\ UNCHANGED <<stmt, rowVars, caller, depth, task, own, localVars>>

\* The janitor takes a running row for one whose process has died.
JanitorAborts(w) ==
    /\ "janitor" \in Faults
    /\ status[w] = "running"
    /\ status' = [status EXCEPT ![w] = "aborted"]
    /\ UNCHANGED <<stage, stmt, link, charge, artifact>>
    /\ LoopUnchanged

-----------------------------------------------------------------------------
\* What a body may do, and the ways it may end.
BodyStep(t) ==
    \/ \E r \in AgentRuns : CallAgent(t, r)
    \/ \E w \in WorkflowRuns : CallWorkflow(t, w)
    \/ InvokeLLM(t)
BodyEnds(t) ==
    \/ BackOff(t)
    \/ AgentBodyRaises(t)
    \/ AgentBodyReturns(t)
    \/ AgentReturnsUnaudited(t)
    \/ AgentValueInvalid(t)
    \/ WorkflowBodyReturns(t)
    \/ WorkflowBodyRaises(t)

\* What the platform does once the await it is in is over.
Resume(t) ==
    \/ LLMAnswers(t)
    \/ LLMFails(t)
    \/ BeginAgentBody(t)
    \/ Retry(t)
    \/ InsertAgentArtifact(t)
    \/ AgentReturns(t)
    \/ AgentReraises(t)
    \/ AgentStoreFails(t)
    \/ BeginWorkflowBody(t)
    \/ WorkflowEnds(t)
    \/ WorkflowStoreFails(t)

\* task.cancel() reaches the platform's own awaits.
Cancel(t) ==
    \/ CancelBackoff(t)
    \/ AgentStoreCancelled(t)
    \/ WorkflowStoreCancelled(t)

Worker(r) ==
    \/ WorkerInsertsRow(r)
    \/ WorkerUpdatesRow(r)
    \/ WorkerInsertsArtifact(r)
    \/ WorkerRejects(r)

Next ==
    \/ \E t \in Tasks : BodyStep(t) \/ BodyEnds(t) \/ Resume(t) \/ Cancel(t)
    \/ \E r \in Runs : Worker(r)
    \/ \E w \in WorkflowRuns : JanitorAborts(w)
    \/ Crash

Spec == Init /\ [][Next]_vars

(***************************************************************************)
(* The event loop resumes every await that is over and the thread pool     *)
(* executes every statement it was given.  The provider answers or fails:  *)
(* both SDK clients have a request timeout.  Product code is assumed to    *)
(* end each attempt of a body somehow, however often it calls on the       *)
(* platform first.                                                         *)
(***************************************************************************)
Fairness ==
    /\ \A t \in Tasks : WF_vars(Resume(t)) /\ SF_vars(BodyEnds(t))
    /\ \A r \in Runs : WF_vars(Worker(r))

FairSpec == Spec /\ Fairness
-----------------------------------------------------------------------------
(***************************************************************************)
(* What the runtime guarantees.  What is said of contexts and of charges   *)
(* needs every task to have a context of its own.                          *)
(***************************************************************************)
PrivateContexts == \A t, u \in Tasks : CtxOf[t] = CtxOf[u] => t = u

\* A body finds on the context the call it has completed itself, never one of
\* the agents it awaited, and a context no call is using is clean: the save
\* and restore of agent.py:104-126 nests, however bodies, retries, failures
\* and cancellations interleave.
MetadataScoped ==
    \A t \in Tasks :
        /\ cur[t] = NoRun => lastCall[Ctx(t)] = NoCall
        /\ At(t, AgentRuns, Scoped) => lastCall[Ctx(t)] = own[cur[t]]

\* The cost, tokens and hashes of a row are those of the first and only call
\* its own run completed, and only a row that succeeded has any
\* (agent.py:136-182): no call is ever charged to two rows.
ChargesAreReal ==
    \A r \in AgentRuns :
        /\ charge[r] \in {NoCall, <<r, 1>>}
        /\ charge[r] # NoCall => status[r] = "succeeded"
        /\ status[r] = "succeeded" /\ r \notin PureRuns => charge[r] # NoCall

\* What a call that returned to its caller promises about the tables: its row
\* succeeded, it charges what the run spent, and its artifact, if it left one,
\* is stored (agent.py:136-199, workflow.py:64-70).
ReturnedIsRecorded ==
    \A r \in Runs :
        pc[r] = "returned" =>
            /\ status[r] = "succeeded"
            /\ r \in AgentRuns => charge[r] = own[r]
            /\ stmt[r].op = "artifact" => artifact[r] = stmt[r].wf

\* No statement ever names a row that is not there, whatever was cancelled or
\* lost before it: no foreign key fails, no update misses its row
\* (sqlite.py:64, migrations.py).
NoDanglingStatement ==
    \A r \in Runs :
        stage[r] = "queued" =>
            /\ ForeignKeys(r)
            /\ stmt[r].op = "update" => status[r] # "absent"

\* The tables behave as AuditTrail promises.
Trail == INSTANCE AuditTrail
ImplementsTrail == Trail!Spec

\* The agent rows are what the cost ledger takes them for: each is inserted
\* once, closed once and billed, if at all, as it closes (agent.py:90-199).
Rows == INSTANCE LedgerRows WITH
            Runs   <- AgentRuns,
            stored <- {r \in AgentRuns : status[r] # "absent"},
            closed <- {r \in AgentRuns : status[r] \in {"succeeded", "failed"}},
            billed <- {r \in AgentRuns : charge[r] # NoCall}
FeedsLedger == Rows!Spec

\* When the closing update of a workflow raises or is cancelled, the context
\* keeps its id (workflow.py:64-69).  That id is never the id of a workflow
\* that returned: no context names such a workflow any more, and no agent is at
\* work in it.
ReturnedWorkflowIsOver ==
    \A w \in WorkflowRuns : pc[w] = "returned" =>
        /\ \A t \in Tasks : workflowId[Ctx(t)] # w
        /\ \A r \in AgentRuns : pc[r] \in Active => link[r] # w

\* What the next two need besides private contexts: the await of the update
\* that closes a workflow neither raises nor is cancelled (workflow.py:55-68).
ClosingAnswers ==
    \A t \in Tasks :
        At(t, WorkflowRuns, {"closeOk", "closeFail"}) =>
            ~WorkflowStoreFails(t) /\ ~WorkflowStoreCancelled(t)

AnsweredSpec == Init /\ [][Next /\ ClosingAnswers]_vars

\* If the closing update of every workflow comes back, ctx.workflow_run_id is
\* the workflow whose body is running and is put back when it ends, whatever
\* else of the store fails or is cancelled (workflow.py:49-69).
WorkflowIdRestored ==
    \A t \in Tasks :
        /\ cur[t] = NoRun => workflowId[Ctx(t)] = NoRun
        /\ At(t, WorkflowRuns, {"body"}) => workflowId[Ctx(t)] = cur[t]

\* Structured nesting: an agent at work belongs to a workflow that is still
\* running, and an artifact to the workflow its run was opened under.
WorkStaysInItsWorkflow ==
    \A r \in AgentRuns :
        /\ pc[r] \in Active /\ link[r] # NoRun => status[link[r]] = "running"
        /\ artifact[r] \in {NoRun, link[r]}

\* Every call of the platform returns or raises in the end: retries are
\* bounded, and no wrapper waits for a statement nobody executes.
EveryCallEnds == \A r \in Runs : pc[r] = "insert" ~> pc[r] \in Ended

-----------------------------------------------------------------------------
(***************************************************************************)
(* What documents and comments of the repository say of the runtime and    *)
(* the code does not do for every body, refuted by runs of their own.      *)
(***************************************************************************)

\* "Calling invoke_llm twice inside the same agent body" is what the guard is
\* for (context.py:77-78): a retry, a fresh call of the body, can call again.
\* The bodies of LeverageBet retry nothing after a completed call, and with
\* them it holds.
RetriesStartClean ==
    [][\A t \in Tasks : Retry(t) => lastCall[Ctx(t)] = NoCall]_vars

\* ADR-011: every completed call is charged to the run that made it.
EveryCallIsCharged ==
    \A r \in AgentRuns : pc[r] \in Ended => charge[r] = own[r]
=============================================================================
