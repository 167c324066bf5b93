---------------------------- MODULE AgentContext ----------------------------
(***************************************************************************)
(* The mutable AgentContext of runtime/context.py and the await chains of  *)
(* the asyncio tasks that share it.                                        *)
(*                                                                         *)
(* A task executes a chain of platform calls: the wrapper of an @agent     *)
(* function or run_workflow, whose body may await further such calls.      *)
(* cur[t] is the innermost one, caller leads back to the outermost, depth  *)
(* counts from it.  The event loop switches tasks only at an await, so one *)
(* action stands for the code between two awaits.                          *)
(*                                                                         *)
(* The bodies are product code: in "body" a call may invoke the LLM, await *)
(* other agents and workflows, catch what they raise, return or raise, in  *)
(* any order.  The one thing they are assumed not to do is to call         *)
(* ctx.invoke_llm from a workflow body, outside every @agent function.     *)
(***************************************************************************)
EXTENDS AuditStore

CONSTANTS
    Tasks,      \* asyncio tasks
    Contexts,   \* AgentContext objects
    CtxOf,      \* the context a task passes to the calls it makes
    MaxRetries, \* RetryConfig.max_retries
    MaxCalls    \* bound on the LLM calls one agent run completes

ASSUME ContextOfTask == CtxOf \in [Tasks -> Contexts]
ASSUME BoundsAreNat == MaxRetries \in Nat /\ MaxCalls \in Nat

VARIABLES
    lastCall,    \* ctx.last_llm_call
    workflowId,  \* ctx.workflow_run_id
    cur,         \* innermost call a task is executing, or NoRun
    caller,      \* the call whose body awaits this one, or NoRun
    depth,       \* number of calls below this one in its await chain
    task,        \* the task that executes a call
    pc,          \* where a call is
    own,         \* history: the LLM call completed in the scope of a call
    savedCall,     \* local prior_last_llm_call of an agent's wrapper
    attempt,       \* local attempt of with_retry
    priorWorkflow  \* local prior_workflow_id of run_workflow

stackVars   == <<cur, caller, depth, task>>
contextVars == <<lastCall, workflowId>>
localVars   == <<savedCall, attempt, priorWorkflow>>

PC == {"unused", "insert", "body", "llm", "backoff", "closeOk", "closeFail",
       "artifact", "returned", "raised", "crashed"}

\* The calls that are on the await chain of their task.
Active == {"insert", "body", "llm", "backoff", "closeOk", "closeFail", "artifact"}
\* The calls between the save and the restore of ctx.last_llm_call.
Scoped == {"body", "llm", "backoff"}
\* The calls that have returned or raised.
Ended == {"returned", "raised"}

ContextTypeOK ==
    /\ lastCall   \in [Contexts -> Call]
    /\ workflowId \in [Contexts -> WorkflowRuns \cup {NoRun}]
    /\ cur        \in [Tasks -> Runs \cup {NoRun}]
    /\ caller     \in [Runs -> Runs \cup {NoRun}]
    /\ depth      \in [Runs -> Nat]
    /\ task       \in [Runs -> Tasks \cup {NoRun}]
    /\ pc         \in [Runs -> PC]
    /\ own        \in [Runs -> Call]
    /\ savedCall  \in [AgentRuns -> Call]
    /\ attempt    \in [AgentRuns -> Nat]
    /\ priorWorkflow \in [WorkflowRuns -> WorkflowRuns \cup {NoRun}]

ContextInit ==
    /\ lastCall   = [c \in Contexts |-> NoCall]
    /\ workflowId = [c \in Contexts |-> NoRun]
    /\ cur        = [t \in Tasks |-> NoRun]
    /\ caller     = [r \in Runs |-> NoRun]
    /\ depth      = [r \in Runs |-> 0]
    /\ task       = [r \in Runs |-> NoRun]
    /\ pc         = [r \in Runs |-> "unused"]
    /\ own        = [r \in Runs |-> NoCall]
    /\ savedCall  = [r \in AgentRuns |-> NoCall]
    /\ attempt    = [r \in AgentRuns |-> 0]
    /\ priorWorkflow = [w \in WorkflowRuns |-> NoRun]

Ctx(t) == CtxOf[t]

\* The task is executing a call of the given kind that is at one of the places P.
At(t, kind, P) == cur[t] \in kind /\ pc[cur[t]] \in P

Goto(t, place) == pc' = [pc EXCEPT ![cur[t]] = place]

\* The task can make a call: from the body it is in, or from outside every call.
MayCall(t) == cur[t] = NoRun \/ At(t, Runs, {"body"})

\* A platform call begins under a fresh id and awaits the insert of its row.
Enter(t, r) ==
    /\ MayCall(t)
    /\ pc[r] = "unused"
    /\ pc'     = [pc EXCEPT ![r] = "insert"]
    /\ caller' = [caller EXCEPT ![r] = cur[t]]
    /\ depth'  = [depth EXCEPT ![r] = IF cur[t] = NoRun THEN 0 ELSE depth[cur[t]] + 1]
    /\ task'   = [task EXCEPT ![r] = t]
    /\ cur'    = [cur EXCEPT ![t] = r]

\* The call the task executes returns or raises into the body that awaits it.
Leave(t, how) ==
    /\ Goto(t, how)
    /\ cur' = [cur EXCEPT ![t] = caller[cur[t]]]
    /\ UNCHANGED <<caller, depth, task>>

-----------------------------------------------------------------------------
(***************************************************************************)
(* AgentContext.invoke_llm, called from the body of an agent.  A call that *)
(* the guard refuses raises into the body and changes nothing, so it needs *)
(* no action: the body may raise at any time.                              *)
(***************************************************************************)

\* Defect: the guard on a second call is missing.
InvokeLLM_NoGuard(t) ==
    /\ At(t, AgentRuns, {"body"})
    /\ own[cur[t]][2] < MaxCalls
    /\ Goto(t, "llm")
    /\ UNCHANGED <<storeVars, stackVars, contextVars, own, localVars>>

\* The guard passes and the body awaits the provider.
InvokeLLM(t) ==
    /\ At(t, AgentRuns, {"body"})
    /\ lastCall[Ctx(t)] = NoCall
    /\ own[cur[t]][2] < MaxCalls
    /\ Goto(t, "llm")
    /\ UNCHANGED <<storeVars, stackVars, contextVars, own, localVars>>

\* The provider has answered: its metadata go onto the context.
LLMAnswers(t) ==
    /\ At(t, AgentRuns, {"llm"})
    /\ LET call == <<cur[t], own[cur[t]][2] + 1>>
       IN  /\ lastCall' = [lastCall EXCEPT ![Ctx(t)] = call]
           /\ own' = [own EXCEPT ![cur[t]] = call]
    /\ Goto(t, "body")
    /\ UNCHANGED <<storeVars, stackVars, workflowId, localVars>>

\* Defect: the metadata are put on the context before the provider is awaited.
LLMFails_MetadataFirst(t) ==
    /\ At(t, AgentRuns, {"llm"})
    /\ lastCall' = [lastCall EXCEPT ![Ctx(t)] = <<cur[t], own[cur[t]][2] + 1>>]
    /\ Goto(t, "body")
    /\ UNCHANGED <<storeVars, stackVars, workflowId, own, localVars>>

\* The provider raises, or the await of it is cancelled: no metadata.
LLMFails(t) ==
    /\ At(t, AgentRuns, {"llm"})
    /\ Goto(t, "body")
    /\ UNCHANGED <<storeVars, stackVars, contextVars, own, localVars>>
=============================================================================
