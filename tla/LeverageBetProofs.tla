------------------------- MODULE LeverageBetProofs --------------------------
(***************************************************************************)
(* The scenario is a behaviour of Runtime, so what RuntimeProofs proves of *)
(* every program over the runtime holds of it.                             *)
(***************************************************************************)
EXTENDS LeverageBet, RuntimeProofs

\* What the scenario does is something a body of Runtime may do.
LEMMA BodyRefines == ASSUME NEW t \in Tasks, Body(t) PROVE BodyStep(t) \/ BodyEnds(t)
<1>1. Bet \in WorkflowRuns /\ JudgeRuns \subseteq AgentRuns
      /\ \A i \in DOMAIN Stages : Stages[i] \in AgentRuns
  BY ScenarioRuns
<1>2. CASE RunBet(t) \/ (\E i \in DOMAIN Stages : NextStage(t, i))
           \/ (\E j \in JudgeRuns : CallJudge(t, j)) \/ Invokes(t)
  BY <1>1, <1>2 DEF RunBet, NextStage, CallJudge, Invokes, BodyStep
<1>3. CASE BetReturns(t) \/ BetRaises(t) \/ LLMAgentReturns(t) \/ CriticReturns(t)
           \/ BacksOff(t) \/ GivesUp(t)
  BY <1>3 DEF BetReturns, BetRaises, LLMAgentReturns, CriticReturns, BacksOff, GivesUp, BodyEnds
<1> QED BY <1>2, <1>3 DEF Body

\* What the platform does in the scenario is what it does anywhere.
LEMMA PlatformRefines == ASSUME NEW t \in Tasks, Platform(t) PROVE Resume(t)
BY DEF Platform, Answered, LLMRaises, Retries, Proceeds, Ends, StoreRaises, Resume

\* A step of the scenario is a step of Runtime.
LEMMA BetStep == ASSUME [BetNext]_betVars PROVE [Next]_vars
<1>1. ASSUME NEW t \in Tasks, Body(t) \/ Platform(t) \/ BackoffCancelled(t) \/ Cancelled(t)
      PROVE  BodyStep(t) \/ BodyEnds(t) \/ Resume(t) \/ Cancel(t)
  BY <1>1, BodyRefines, PlatformRefines DEF BackoffCancelled, Cancelled, Cancel
<1>2. ASSUME NEW r \in Runs, BetWorker(r) PROVE Worker(r)
  BY <1>2 DEF BetWorker
<1>3. CASE UNCHANGED betVars
  BY <1>3 DEF betVars
<1> QED BY <1>1, <1>2, <1>3 DEF BetNext, Next

\* The scenario, with any number of stages and judges, implements Runtime.
THEOREM BetImplementsRuntime == BetSpec => ImplementsRuntime
<1>1. BetInit => Init
  BY DEF BetInit
<1>2. [BetNext]_betVars => [Next]_vars
  BY BetStep
<1> QED BY <1>1, <1>2, PTL DEF BetSpec, Spec, ImplementsRuntime

\* No row of a bet charges a call it did not make.
THEOREM BetCharging == ASSUME PrivateContexts PROVE BetSpec => []ChargesAreReal
BY BetImplementsRuntime, Charging, PTL DEF ImplementsRuntime

\* An agent of a bet that returned has left the record of what it did.
THEOREM BetReturning == ASSUME PrivateContexts PROVE BetSpec => []ReturnedIsRecorded
BY BetImplementsRuntime, Returning, PTL DEF ImplementsRuntime

\* The tables a bet fills are an audit trail, and what the cost ledger takes
\* them for, through whatever the bet, its retries and its failures do.
THEOREM BetWritesTrail == ASSUME PrivateContexts PROVE BetSpec => ImplementsTrail /\ FeedsLedger
BY BetImplementsRuntime, Refinement, LedgerIsFed, PTL DEF ImplementsRuntime

-----------------------------------------------------------------------------
(***************************************************************************)
(* The evaluation of a bet.                                                *)
(***************************************************************************)

\* The rules accept a bet exactly when it is sound (eval_config.py, rules.py).
THEOREM RulesAcceptTheSound ==
    ASSUME NEW b, b.weekly_plan \in Seq(STRING), b.first_48h_actions \in Nat
    PROVE  rule_eval(b).accepted <=> Sound(b)
<1>1. rule_eval(b).accepted <=> \A i \in 1..8 : Checks(b)[i]
  BY DEF rule_eval, Report
<1>2. 1..8 = {1, 2, 3, 4, 5, 6, 7, 8}
  BY SMT
<1>3. (\A i \in 1..8 : Checks(b)[i]) <=>
          /\ b.title # Blank
          /\ Len(b.weekly_plan) = 4
          /\ \A i \in DOMAIN b.weekly_plan : b.weekly_plan[i] # Blank
          /\ b.success_metric # Blank /\ b.failure_metric # Blank
          /\ b.success_metric # b.failure_metric
          /\ b.first_48h_actions >= 2
          /\ b.expected_asset_created # Blank
  <2> DEFINE C == Checks(b)
  <2>1. /\ C[1] = (b.title # Blank)
        /\ C[2] = (Len(b.weekly_plan) = 4)
        /\ C[3] = (\A i \in DOMAIN b.weekly_plan : b.weekly_plan[i] # Blank)
        /\ C[4] = (b.success_metric # Blank)
        /\ C[5] = (b.failure_metric # Blank)
        /\ C[6] = (b.success_metric # b.failure_metric)
        /\ C[7] = (b.first_48h_actions >= 2)
        /\ C[8] = (b.expected_asset_created # Blank)
    BY DEF Checks
  <2>2. (\A i \in 1..8 : C[i]) <=> C[1] /\ C[2] /\ C[3] /\ C[4] /\ C[5] /\ C[6] /\ C[7] /\ C[8]
    BY <1>2, Zenon
  <2> QED BY <2>1, <2>2, Zenon
<1>4. Len(b.weekly_plan) = 4 <=> DOMAIN b.weekly_plan = 1..4
  <2>1. DOMAIN b.weekly_plan = 1..Len(b.weekly_plan) /\ Len(b.weekly_plan) \in Nat
    OBVIOUS
  <2>2. \A n \in Nat : 1..n = 1..4 => n = 4
    <3>1. \A n \in Nat : n > 4 => 5 \in 1..n
      BY SMT
    <3>2. \A n \in Nat : n < 4 => 4 \notin 1..n
      BY SMT
    <3>3. 5 \notin 1..4 /\ 4 \in 1..4
      BY SMT
    <3>4. \A n \in Nat : n > 4 \/ n < 4 \/ n = 4
      BY SMT
    <3> QED BY <3>1, <3>2, <3>3, <3>4, Zenon
  <2> QED BY <2>1, <2>2
<1>5. b.first_48h_actions >= 2 <=> b.first_48h_actions > 1
  OBVIOUS
<1> QED BY <1>1, <1>3, <1>4, <1>5 DEF Sound
=============================================================================
