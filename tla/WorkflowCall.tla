---------------------------- MODULE WorkflowCall ----------------------------
(***************************************************************************)
(* run_workflow of runtime/workflow.py.                                    *)
(*                                                                         *)
(*   insert --> body --> closeOk --> returned                              *)
(*              body --> closeFail --> raised                              *)
(*                                                                         *)
(* The prior workflow id is put back only after the closing update of the  *)
(* row has come back: when that await raises or is cancelled, the context  *)
(* keeps the id of the workflow that has ended.                            *)
(***************************************************************************)
EXTENDS AgentContext

CallWorkflow(t, w) ==
    /\ Enter(t, w)
    /\ Submit(w, Insert("running", NoRun))
    /\ UNCHANGED <<contextVars, own, localVars>>

\* Defect: the body starts before the row is in the table.
BeginWorkflowBody_NotAwaited(t) ==
    /\ At(t, WorkflowRuns, {"insert"})
    /\ priorWorkflow' = [priorWorkflow EXCEPT ![cur[t]] = workflowId[Ctx(t)]]
    /\ workflowId'    = [workflowId EXCEPT ![Ctx(t)] = cur[t]]
    /\ own'           = [own EXCEPT ![cur[t]] = lastCall[Ctx(t)]]
    /\ Goto(t, "body")
    /\ UNCHANGED <<storeVars, stackVars, lastCall, savedCall, attempt>>

\* Defect: the prior id is read after the new one has been written.
BeginWorkflowBody_SavesItself(t) ==
    /\ At(t, WorkflowRuns, {"insert"})
    /\ stage[cur[t]] = "applied"
    /\ priorWorkflow' = [priorWorkflow EXCEPT ![cur[t]] = cur[t]]
    /\ workflowId'    = [workflowId EXCEPT ![Ctx(t)] = cur[t]]
    /\ own'           = [own EXCEPT ![cur[t]] = lastCall[Ctx(t)]]
    /\ Goto(t, "body")
    /\ Consume(cur[t])
    /\ UNCHANGED <<stackVars, lastCall, savedCall, attempt>>

\* The row is open: ctx.workflow_run_id names it while the body runs.  The
\* body stays in the scope of the LLM call, if any, of the agent around it.
BeginWorkflowBody(t) ==
    /\ At(t, WorkflowRuns, {"insert"})
    /\ stage[cur[t]] = "applied"
    /\ priorWorkflow' = [priorWorkflow EXCEPT ![cur[t]] = workflowId[Ctx(t)]]
    /\ workflowId'    = [workflowId EXCEPT ![Ctx(t)] = cur[t]]
    /\ own'           = [own EXCEPT ![cur[t]] = lastCall[Ctx(t)]]
    /\ Goto(t, "body")
    /\ Consume(cur[t])
    /\ UNCHANGED <<stackVars, lastCall, savedCall, attempt>>

WorkflowBodyReturns(t) ==
    /\ At(t, WorkflowRuns, {"body"})
    /\ Submit(cur[t], Update("succeeded", NoCall))
    /\ Goto(t, "closeOk")
    /\ UNCHANGED <<stackVars, contextVars, own, localVars>>

\* except BaseException, a cancellation included: the run is recorded as failed.
WorkflowBodyRaises(t) ==
    /\ At(t, WorkflowRuns, {"body"})
    /\ Submit(cur[t], Update("failed", NoCall))
    /\ Goto(t, "closeFail")
    /\ UNCHANGED <<stackVars, contextVars, own, localVars>>

\* Defect: the context is left without a workflow.
WorkflowEnds_Clears(t) ==
    /\ At(t, WorkflowRuns, {"closeOk", "closeFail"})
    /\ stage[cur[t]] = "applied"
    /\ workflowId' = [workflowId EXCEPT ![Ctx(t)] = NoRun]
    /\ Leave(t, IF pc[cur[t]] = "closeOk" THEN "returned" ELSE "raised")
    /\ Consume(cur[t])
    /\ UNCHANGED <<lastCall, own, localVars>>

\* Defect: only the failure path restores the prior workflow id.
WorkflowEnds_RestoresOnFailure(t) ==
    /\ At(t, WorkflowRuns, {"closeOk", "closeFail"})
    /\ stage[cur[t]] = "applied"
    /\ workflowId' = [workflowId EXCEPT
                        ![Ctx(t)] = IF pc[cur[t]] = "closeFail" THEN priorWorkflow[cur[t]] ELSE @]
    /\ Leave(t, IF pc[cur[t]] = "closeOk" THEN "returned" ELSE "raised")
    /\ Consume(cur[t])
    /\ UNCHANGED <<lastCall, own, localVars>>

\* The row is closed: restore the prior workflow id, then return or re-raise.
WorkflowEnds(t) ==
    /\ At(t, WorkflowRuns, {"closeOk", "closeFail"})
    /\ stage[cur[t]] = "applied"
    /\ workflowId' = [workflowId EXCEPT ![Ctx(t)] = priorWorkflow[cur[t]]]
    /\ Leave(t, IF pc[cur[t]] = "closeOk" THEN "returned" ELSE "raised")
    /\ Consume(cur[t])
    /\ UNCHANGED <<lastCall, own, localVars>>

\* An await of the store raises: the exception passes by the restore.
WorkflowStoreFails(t) ==
    /\ At(t, WorkflowRuns, {"insert", "closeOk", "closeFail"})
    /\ stage[cur[t]] = "error"
    /\ Leave(t, "raised")
    /\ Consume(cur[t])
    /\ UNCHANGED <<contextVars, own, localVars>>

\* An await of the store is cancelled: CancelledError passes by the restore.
WorkflowStoreCancelled(t) ==
    /\ "cancel" \in Faults
    /\ At(t, WorkflowRuns, {"insert", "closeOk", "closeFail"})
    /\ Leave(t, "raised")
    /\ \/ Consume(cur[t])
       \/ stage[cur[t]] = "queued" /\ UNCHANGED storeVars
    /\ UNCHANGED <<contextVars, own, localVars>>
=============================================================================
