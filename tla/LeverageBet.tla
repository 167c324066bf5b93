---------------------------- MODULE LeverageBet -----------------------------
(***************************************************************************)
(* The 30-Day Leverage Bet of proof/thirty_day_leverage_bet: one workflow  *)
(* whose body awaits five agents one after the other.  The fifth, the      *)
(* Critic, is pure: it checks the bet with rule_eval and, if the rules     *)
(* accept it, awaits llm_judge, an agent of its own.                       *)
(*                                                                         *)
(* The bodies that Runtime leaves open are given here.  Each action is the *)
(* one of Runtime under the condition the script puts on it, together with *)
(* the exception on its way through the calls, which decides whether       *)
(* with_retry tries again.                                                 *)
(***************************************************************************)
EXTENDS Runtime, Providers, Evaluation, FiniteSets

CONSTANTS
    Bet,        \* the run of the workflow
    Stages,     \* the runs of its five agents, in their order
    JudgeRuns,  \* the runs of llm_judge, one per attempt of the Critic
    Provider,   \* the LLM provider of the context
    Bets,       \* the bets the designer may come up with
    NoReport    \* no report yet

Outer  == {Stages[i] : i \in DOMAIN Stages}
Critic == Stages[Len(Stages)]

ASSUME ScenarioRuns ==
    /\ WorkflowRuns = {Bet}
    /\ Stages \in Seq(AgentRuns) /\ Len(Stages) > 0
    /\ \A i, j \in DOMAIN Stages : Stages[i] = Stages[j] => i = j
    /\ JudgeRuns = AgentRuns \ Outer
    /\ PureRuns = {Critic}
    /\ ArtifactRuns = Outer
    /\ Provider \in {"anthropic", "openai", "mock"}

\* The schema types the plan as a list of strings and the actions as a list.
ASSUME BetShape ==
    \A b \in Bets : b.weekly_plan \in Seq(STRING) /\ b.first_48h_actions \in Nat

VARIABLES
    exc,        \* the exception a call is raising or has caught, or "none"
    bet,        \* the bet the designer returns when it returns one
    report      \* the EvalReport the Critic's body has returned, or NoReport

betVars == <<vars, exc, bet, report>>

BetTypeOK ==
    /\ TypeOK
    /\ exc \in [Runs -> Exceptions \cup {"none"}]
    /\ bet \in Bets
    /\ report \in {NoReport} \cup {rule_eval(b) : b \in Bets} \cup JudgeReports

BetInit ==
    /\ Init
    /\ exc = [r \in Runs |-> "none"]
    /\ bet \in Bets
    /\ report = NoReport

\* The innermost call of t sees e, or is done with the one it had.
Sees(t, e) == exc' = [exc EXCEPT ![cur[t]] = e]

\* The innermost call of t ends with e, and the body that awaits it sees it.
Throws(t, e) ==
    exc' = [r \in Runs |-> IF r \in {cur[t], caller[cur[t]]} THEN e ELSE exc[r]]

\* The innermost call of t is at work in its body, with no exception to handle.
Working(t, runs) == At(t, runs, {"body"}) /\ exc[cur[t]] = "none"

\* The calls of llm_judge that have returned a report.
Reports == {j \in JudgeRuns : pc[j] = "returned"}

-----------------------------------------------------------------------------
(***************************************************************************)
(* workflow.py and agents.py                                               *)
(***************************************************************************)
RunBet(t) ==
    /\ cur[t] = NoRun
    /\ CallWorkflow(t, Bet)
    /\ UNCHANGED <<exc, bet, report>>

\* Defect: the body goes on after an agent has failed.
NextStage_AfterFailure(t, i) ==
    /\ At(t, {Bet}, {"body"})
    /\ \A j \in 1..(i - 1) : pc[Stages[j]] \in Ended
    /\ CallAgent(t, Stages[i])
    /\ UNCHANGED <<exc, bet, report>>

\* The body awaits its agents in order.
NextStage(t, i) ==
    /\ Working(t, {Bet})
    /\ \A j \in 1..(i - 1) : pc[Stages[j]] = "returned"
    /\ CallAgent(t, Stages[i])
    /\ UNCHANGED <<exc, bet, report>>

\* return await critic_eval_agent(ctx, bet)
BetReturns(t) ==
    /\ Working(t, {Bet})
    /\ pc[Critic] = "returned"
    /\ WorkflowBodyReturns(t)
    /\ UNCHANGED <<exc, bet, report>>

BetRaises(t) ==
    /\ At(t, {Bet}, {"body"}) /\ exc[cur[t]] # "none"
    /\ WorkflowBodyRaises(t)
    /\ UNCHANGED <<exc, bet, report>>

\* Every agent but the Critic invokes the LLM, once, and returns its value.
Invokes(t) ==
    /\ Working(t, AgentRuns \ {Critic})
    /\ InvokeLLM(t)
    /\ UNCHANGED <<exc, bet, report>>

Answered(t) == LLMAnswers(t) /\ UNCHANGED <<exc, bet, report>>

\* Defect: the failure of the request is passed on as it is.
LLMRaises_Unmapped(t) ==
    /\ LLMFails(t)
    /\ \E f \in FailuresOf(Provider) : Sees(t, f)
    /\ UNCHANGED <<bet, report>>

\* The provider raises, or the await of it is cancelled.
LLMRaises(t) ==
    /\ LLMFails(t)
    /\ \/ \E f \in FailuresOf(Provider) : Sees(t, Raised(Provider, f))
       \/ "cancel" \in Faults /\ Sees(t, "CancelledError")
    /\ UNCHANGED <<bet, report>>

LLMAgentReturns(t) ==
    /\ Working(t, AgentRuns \ {Critic})
    /\ own[cur[t]] # NoCall
    /\ AgentBodyReturns(t)
    /\ UNCHANGED <<exc, bet, report>>

\* Defect: the judge is asked again when it has reported.
CallJudge_Again(t, j) ==
    /\ Working(t, {Critic})
    /\ rule_eval(bet).accepted
    /\ CallAgent(t, j)
    /\ UNCHANGED <<exc, bet, report>>

\* Defect: the row of the judge is not linked to the workflow.
CallJudge_Unlinked(t, j) ==
    /\ Working(t, {Critic})
    /\ rule_eval(bet).accepted
    /\ Reports = {}
    /\ Enter(t, j)
    /\ Submit(j, Insert("pending", NoRun))
    /\ UNCHANGED <<contextVars, own, localVars, exc, bet, report>>

\* The rules accept the bet: the Critic awaits the judge.
CallJudge(t, j) ==
    /\ Working(t, {Critic})
    /\ rule_eval(bet).accepted
    /\ Reports = {}
    /\ CallAgent(t, j)
    /\ UNCHANGED <<exc, bet, report>>

\* Defect: the Critic does not wait for the judge.
CriticReturns_Unjudged(t) ==
    /\ Working(t, {Critic})
    /\ report' = rule_eval(bet)
    /\ AgentBodyReturns(t)
    /\ UNCHANGED <<exc, bet>>

\* The Critic returns the report of the rules, or that of the judge.
CriticReturns(t) ==
    /\ Working(t, {Critic})
    /\ \/ ~rule_eval(bet).accepted /\ report' = rule_eval(bet)
       \/ Reports # {} /\ report' \in JudgeReports
    /\ AgentBodyReturns(t)
    /\ UNCHANGED <<exc, bet>>

-----------------------------------------------------------------------------
(***************************************************************************)
(* with_retry, its decision now made by is_retryable                       *)
(***************************************************************************)
RetriesLeft(t) == attempt[cur[t]] < MaxRetries

BacksOff(t) ==
    /\ At(t, AgentRuns, {"body"})
    /\ IsRetryable(exc[cur[t]]) /\ RetriesLeft(t)
    /\ BackOff(t)
    /\ UNCHANGED <<exc, bet, report>>

Retries(t) ==
    /\ Retry(t)
    /\ Sees(t, "none")
    /\ UNCHANGED <<bet, report>>

BackoffCancelled(t) ==
    /\ CancelBackoff(t)
    /\ Sees(t, "CancelledError")
    /\ UNCHANGED <<bet, report>>

\* Defect: the exception of the last attempt is not raised.
GivesUp_NotWhenExhausted(t) ==
    /\ At(t, AgentRuns, {"body"})
    /\ exc[cur[t]] # "none"
    /\ ~IsRetryable(exc[cur[t]])
    /\ AgentBodyRaises(t)
    /\ UNCHANGED <<exc, bet, report>>

GivesUp(t) ==
    /\ At(t, AgentRuns, {"body"})
    /\ exc[cur[t]] # "none"
    /\ ~IsRetryable(exc[cur[t]]) \/ ~RetriesLeft(t)
    /\ AgentBodyRaises(t)
    /\ UNCHANGED <<exc, bet, report>>

-----------------------------------------------------------------------------
\* The platform goes on without a new exception.
Proceeds(t) ==
    /\ \/ BeginAgentBody(t)
       \/ InsertAgentArtifact(t)
       \/ AgentReturns(t)
       \/ BeginWorkflowBody(t)
    /\ UNCHANGED <<exc, bet, report>>

\* A call ends, and raises what its body raised, if anything.
Ends(t) ==
    /\ AgentReraises(t) \/ WorkflowEnds(t)
    /\ Throws(t, exc[cur[t]])
    /\ UNCHANGED <<bet, report>>

StoreRaises(t) ==
    /\ AgentStoreFails(t) \/ WorkflowStoreFails(t)
    /\ Throws(t, "OperationalError")
    /\ UNCHANGED <<bet, report>>

Cancelled(t) ==
    /\ AgentStoreCancelled(t) \/ WorkflowStoreCancelled(t)
    /\ Throws(t, "CancelledError")
    /\ UNCHANGED <<bet, report>>

Body(t) ==
    \/ RunBet(t)
    \/ \E i \in DOMAIN Stages : NextStage(t, i)
    \/ \E j \in JudgeRuns : CallJudge(t, j)
    \/ BetReturns(t) \/ BetRaises(t)
    \/ Invokes(t) \/ LLMAgentReturns(t) \/ CriticReturns(t)
    \/ BacksOff(t) \/ GivesUp(t)

Platform(t) ==
    \/ Answered(t) \/ LLMRaises(t)
    \/ Retries(t)
    \/ Proceeds(t)
    \/ Ends(t)
    \/ StoreRaises(t)

BetWorker(r) == Worker(r) /\ UNCHANGED <<exc, bet, report>>

BetNext ==
    \/ \E t \in Tasks : Body(t) \/ Platform(t) \/ BackoffCancelled(t) \/ Cancelled(t)
    \/ \E r \in Runs : BetWorker(r)

BetSpec == BetInit /\ [][BetNext]_betVars

\* The event loop, the threads and the provider go on; so does this body.
BetFairSpec ==
    /\ BetSpec
    /\ \A t \in Tasks : WF_betVars(Body(t)) /\ WF_betVars(Platform(t))
    /\ \A r \in Runs : WF_betVars(BetWorker(r))

-----------------------------------------------------------------------------
(***************************************************************************)
(* Properties                                                              *)
(***************************************************************************)

\* The script is one of the bodies Runtime allows for.
ImplementsRuntime == Spec

\* What a bet that returned has left in the tables: a row and an artifact for
\* each of the five agents, all of them linked to the workflow, the LLM call of
\* each charged to its own row and none to the Critic's, and one successful row
\* of the judge if the bet is sound (agents.py, workflow.py).
BetIsRecorded ==
    pc[Bet] = "returned" =>
        /\ status[Bet] = "succeeded"
        /\ \A r \in Outer :
              /\ status[r] = "succeeded" /\ link[r] = Bet /\ artifact[r] = Bet
              /\ charge[r] = IF r = Critic THEN NoCall ELSE <<r, 1>>
        /\ LET judges == {j \in JudgeRuns : status[j] = "succeeded"}
           IN  /\ Cardinality(judges) = IF Sound(bet) THEN 1 ELSE 0
               /\ \A j \in judges : link[j] = Bet /\ charge[j] = <<j, 1>> /\ artifact[j] = NoRun

\* What the Critic accepts has been found sound by the rules and accepted by a
\* judge whose row has succeeded: no retry, failure or cancellation lets a bet
\* through on half of the evaluation (agents.py:153-156, rules.py:46-66).
AcceptedIsEvaluated ==
    pc[Critic] = "returned" /\ report.accepted =>
        /\ Sound(bet)
        /\ report.by = "judge"
        /\ \E j \in Reports : status[j] = "succeeded" /\ link[j] = Bet

\* Whatever is cancelled or fails, an agent has a row only if those before it
\* have succeeded and their artifacts are stored.
StagesInOrder ==
    \A i, j \in DOMAIN Stages :
        i < j /\ status[Stages[j]] # "absent" =>
            status[Stages[i]] = "succeeded" /\ artifact[Stages[i]] = Bet

\* The retries of the Critic open at most one row of llm_judge each, and no
\* judge is called once there is a report (agents.py:150-156, retry.py:122-129).
JudgesBounded ==
    /\ Cardinality({j \in JudgeRuns : pc[j] # "unused"}) <= MaxRetries + 1
    /\ Cardinality(Reports) <= 1

\* PLAN.md, the retry table: an agent gives up on a timeout, a refused
\* connection, a 429 or a 5xx only after its last attempt.
TransientIsRetried ==
    [][\A t \in Tasks :
          GivesUp(t) /\ (\E f \in PlannedRetries : exc[cur[t]] = Raised(Provider, f))
          => attempt[cur[t]] = MaxRetries]_betVars

\* The bet returns or raises in the end.
BetEnds == pc[Bet] = "insert" ~> pc[Bet] \in Ended
=============================================================================
