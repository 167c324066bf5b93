----------------------------- MODULE AgentCall ------------------------------
(***************************************************************************)
(* The wrapper that the @agent decorator of runtime/agent.py puts around a *)
(* function, with the retry loop of runtime/retry.py inside it.            *)
(*                                                                         *)
(*   insert --> body <--> llm          body --> backoff --> body (a retry) *)
(*              body --> closeOk --> artifact --> returned                 *)
(*              body --> closeFail --> raised                              *)
(*                                                                         *)
(* insert, closeOk, closeFail and artifact await the store; when that      *)
(* await raises, or is cancelled, the wrapper has no handler left and      *)
(* raises on the spot.                                                     *)
(***************************************************************************)
EXTENDS AgentContext

CONSTANTS
    PureRuns,       \* runs of agents decorated with pure=True
    ArtifactRuns    \* runs of agents decorated with an artifact_type

ASSUME DecoratorArguments == PureRuns \subseteq AgentRuns /\ ArtifactRuns \subseteq AgentRuns

\* Defect: the row is linked to the caller, be it an agent.
CallAgent_LinksCaller(t, r) ==
    /\ Enter(t, r)
    /\ Submit(r, Insert("pending", cur[t]))
    /\ UNCHANGED <<contextVars, own, localVars>>

\* A body calls an @agent function: the row is opened under ctx.workflow_run_id.
CallAgent(t, r) ==
    /\ Enter(t, r)
    /\ Submit(r, Insert("pending", workflowId[Ctx(t)]))
    /\ UNCHANGED <<contextVars, own, localVars>>

\* Defect: the metadata of the caller are saved and not cleared.
BeginAgentBody_NotCleared(t) ==
    /\ At(t, AgentRuns, {"insert"})
    /\ stage[cur[t]] = "applied"
    /\ savedCall' = [savedCall EXCEPT ![cur[t]] = lastCall[Ctx(t)]]
    /\ own'       = [own EXCEPT ![cur[t]] = NoCall]
    /\ attempt'   = [attempt EXCEPT ![cur[t]] = 0]
    /\ Goto(t, "body")
    /\ Consume(cur[t])
    /\ UNCHANGED <<stackVars, contextVars, priorWorkflow>>

\* The row is open: save and clear ctx.last_llm_call, start the first attempt.
BeginAgentBody(t) ==
    /\ At(t, AgentRuns, {"insert"})
    /\ stage[cur[t]] = "applied"
    /\ savedCall' = [savedCall EXCEPT ![cur[t]] = lastCall[Ctx(t)]]
    /\ lastCall'  = [lastCall EXCEPT ![Ctx(t)] = NoCall]
    /\ own'       = [own EXCEPT ![cur[t]] = NoCall]
    /\ attempt'   = [attempt EXCEPT ![cur[t]] = 0]
    /\ Goto(t, "body")
    /\ Consume(cur[t])
    /\ UNCHANGED <<stackVars, workflowId, priorWorkflow>>

RestoreLastCall(t) == lastCall' = [lastCall EXCEPT ![Ctx(t)] = savedCall[cur[t]]]

-----------------------------------------------------------------------------
(***************************************************************************)
(* with_retry                                                              *)
(***************************************************************************)

\* Defect: one retry too many.
BackOff_OffByOne(t) ==
    /\ At(t, AgentRuns, {"body"})
    /\ attempt[cur[t]] <= MaxRetries
    /\ Goto(t, "backoff")
    /\ UNCHANGED <<storeVars, stackVars, contextVars, own, localVars>>

\* The attempt raises something is_retryable accepts and attempts are left.
BackOff(t) ==
    /\ At(t, AgentRuns, {"body"})
    /\ attempt[cur[t]] < MaxRetries
    /\ Goto(t, "backoff")
    /\ UNCHANGED <<storeVars, stackVars, contextVars, own, localVars>>

\* Defect: the attempt is not counted.
Retry_NotCounted(t) ==
    /\ At(t, AgentRuns, {"backoff"})
    /\ Goto(t, "body")
    /\ UNCHANGED <<storeVars, stackVars, contextVars, own, localVars>>

\* The sleep is over: the body runs again, in the context the attempt left.
Retry(t) ==
    /\ At(t, AgentRuns, {"backoff"})
    /\ attempt' = [attempt EXCEPT ![cur[t]] = @ + 1]
    /\ Goto(t, "body")
    /\ UNCHANGED <<storeVars, stackVars, contextVars, own, savedCall, priorWorkflow>>

\* Defect: a failure does not restore the metadata of the caller.
FailAgent_NoRestore(t) ==
    /\ Submit(cur[t], Update("failed", NoCall))
    /\ Goto(t, "closeFail")
    /\ UNCHANGED <<stackVars, contextVars, own, localVars>>

\* except BaseException: restore, then record the failure.
FailAgent(t) ==
    /\ RestoreLastCall(t)
    /\ Submit(cur[t], Update("failed", NoCall))
    /\ Goto(t, "closeFail")
    /\ UNCHANGED <<stackVars, workflowId, own, localVars>>

\* The attempt raises something with_retry does not retry, be it that
\* is_retryable refuses it or that it was the last attempt.
AgentBodyRaises(t) ==
    /\ At(t, AgentRuns, {"body"})
    /\ FailAgent(t)

\* CancelledError is raised by asyncio.sleep inside the handler of with_retry.
CancelBackoff(t) ==
    /\ "cancel" \in Faults
    /\ At(t, AgentRuns, {"backoff"})
    /\ FailAgent(t)

-----------------------------------------------------------------------------
(***************************************************************************)
(* The end of the wrapper                                                  *)
(***************************************************************************)

\* The body returns a value the schema accepts, and its run can be audited:
\* the row is closed with the metadata found on the context, if any.
AgentBodyReturns(t) ==
    /\ At(t, AgentRuns, {"body"})
    /\ lastCall[Ctx(t)] # NoCall \/ cur[t] \in PureRuns
    /\ RestoreLastCall(t)
    /\ Submit(cur[t], Update("succeeded", lastCall[Ctx(t)]))
    /\ Goto(t, "closeOk")
    /\ UNCHANGED <<stackVars, workflowId, own, localVars>>

\* Defect: an unaudited run does not restore the metadata of the caller.
AgentReturnsUnaudited_NoRestore(t) ==
    /\ At(t, AgentRuns \ PureRuns, {"body"})
    /\ lastCall[Ctx(t)] = NoCall
    /\ Submit(cur[t], Update("failed", NoCall))
    /\ Goto(t, "closeFail")
    /\ UNCHANGED <<stackVars, contextVars, own, localVars>>

\* A run without metadata that is not declared pure is recorded as a failure.
AgentReturnsUnaudited(t) ==
    /\ At(t, AgentRuns \ PureRuns, {"body"})
    /\ lastCall[Ctx(t)] = NoCall
    /\ RestoreLastCall(t)
    /\ Submit(cur[t], Update("failed", NoCall))
    /\ Goto(t, "closeFail")
    /\ UNCHANGED <<stackVars, workflowId, own, localVars>>

\* Defect: the restore is not in a finally.
AgentValueInvalid_NoRestore(t) ==
    /\ At(t, AgentRuns, {"body"})
    /\ Leave(t, "raised")
    /\ UNCHANGED <<storeVars, contextVars, own, localVars>>

\* schema.model_validate raises: no handler, the row keeps its status.
AgentValueInvalid(t) ==
    /\ At(t, AgentRuns, {"body"})
    /\ RestoreLastCall(t)
    /\ Leave(t, "raised")
    /\ UNCHANGED <<storeVars, workflowId, own, localVars>>

\* The row is closed as succeeded and the agent produces an artifact for the
\* workflow now on the context.
InsertAgentArtifact(t) ==
    /\ At(t, ArtifactRuns, {"closeOk"})
    /\ stage[cur[t]] = "applied"
    /\ workflowId[Ctx(t)] # NoRun
    /\ Submit(cur[t], InsertArtifact(workflowId[Ctx(t)]))
    /\ Goto(t, "artifact")
    /\ UNCHANGED <<stackVars, contextVars, own, localVars>>

\* Defect: the last await of the store is missing, its statement is only queued.
AgentReturns_NotAwaited(t) ==
    /\ \/ At(t, AgentRuns, {"artifact"})
       \/ At(t, AgentRuns, {"closeOk"}) /\ (cur[t] \in ArtifactRuns => workflowId[Ctx(t)] = NoRun)
    /\ Leave(t, "returned")
    /\ UNCHANGED <<storeVars, contextVars, own, localVars>>

\* return validated
AgentReturns(t) ==
    /\ \/ At(t, AgentRuns, {"artifact"})
       \/ At(t, AgentRuns, {"closeOk"}) /\ (cur[t] \in ArtifactRuns => workflowId[Ctx(t)] = NoRun)
    /\ stage[cur[t]] = "applied"
    /\ Leave(t, "returned")
    /\ Consume(cur[t])
    /\ UNCHANGED <<contextVars, own, localVars>>

\* The failure is on record: re-raise.
AgentReraises(t) ==
    /\ At(t, AgentRuns, {"closeFail"})
    /\ stage[cur[t]] = "applied"
    /\ Leave(t, "raised")
    /\ Consume(cur[t])
    /\ UNCHANGED <<contextVars, own, localVars>>

\* An await of the store raises; the wrapper has no handler for that.
AgentStoreFails(t) ==
    /\ At(t, AgentRuns, {"insert", "closeOk", "closeFail", "artifact"})
    /\ stage[cur[t]] = "error"
    /\ Leave(t, "raised")
    /\ Consume(cur[t])
    /\ UNCHANGED <<contextVars, own, localVars>>

\* An await of the store is cancelled.  A statement no worker has started is
\* withdrawn; one that is under way is executed all the same.
AgentStoreCancelled(t) ==
    /\ "cancel" \in Faults
    /\ At(t, AgentRuns, {"insert", "closeOk", "closeFail", "artifact"})
    /\ Leave(t, "raised")
    /\ \/ Consume(cur[t])
       \/ stage[cur[t]] = "queued" /\ UNCHANGED storeVars
    /\ UNCHANGED <<contextVars, own, localVars>>
=============================================================================
