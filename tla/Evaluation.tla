----------------------------- MODULE Evaluation -----------------------------
(***************************************************************************)
(* rule_eval of eval/rules.py over the rules the scenario gives it in      *)
(* eval_config.py, and the report the judge may return instead.            *)
(*                                                                         *)
(* Every rule strips a text before it looks at it, so a text is what       *)
(* strip() leaves of it, and the actions of the first 48 hours, which no   *)
(* rule reads, are only counted.                                           *)
(***************************************************************************)
EXTENDS Naturals, Sequences

Blank == ""

\* THIRTY_DAY_BET_RULES, in the order of the list.
RuleNames == <<
    "has_title", "weekly_plan_has_four_items", "weekly_plan_items_non_empty",
    "success_metric_set", "failure_metric_set", "failure_metric_differs_from_success",
    "first_48h_at_least_two", "expected_asset_set" >>

\* Defect: a plan may have more than four weeks.
Checks_AtLeastFour(bet) == <<
    bet.title # Blank,
    Len(bet.weekly_plan) >= 4,
    \A i \in DOMAIN bet.weekly_plan : bet.weekly_plan[i] # Blank,
    bet.success_metric # Blank,
    bet.failure_metric # Blank,
    bet.success_metric # bet.failure_metric,
    bet.first_48h_actions >= 2,
    bet.expected_asset_created # Blank >>

\* What each of them says of a bet.
Checks(bet) == <<
    bet.title # Blank,
    Len(bet.weekly_plan) = 4,
    \A i \in DOMAIN bet.weekly_plan : bet.weekly_plan[i] # Blank,
    bet.success_metric # Blank,
    bet.failure_metric # Blank,
    bet.success_metric # bet.failure_metric,
    bet.first_48h_actions >= 2,
    bet.expected_asset_created # Blank >>

Report(by, criteria, accepted) == [by |-> by, criteria |-> criteria, accepted |-> accepted]

\* One criterion for each rule; accepted if there is no failure among them.
rule_eval(bet) ==
    LET criteria == [i \in 1..8 |-> [name |-> RuleNames[i], passed |-> Checks(bet)[i]]]
        failures == {i \in 1..8 : ~criteria[i].passed}
    IN  Report("rules", criteria, failures = {})

\* The judge's report is what the LLM says: nothing ties its verdict to its
\* criteria, which are left out here.
JudgeReports == {Report("judge", <<>>, verdict) : verdict \in BOOLEAN}

-----------------------------------------------------------------------------
\* What the rules are to make sure of: everything is filled in, the plan has a
\* line for each of four weeks, success and failure can be told apart, and
\* there is more than one thing to do at once.
Sound(bet) ==
    /\ Blank \notin {bet.title, bet.success_metric, bet.failure_metric, bet.expected_asset_created}
                        \cup {bet.weekly_plan[i] : i \in DOMAIN bet.weekly_plan}
    /\ DOMAIN bet.weekly_plan = 1..4
    /\ bet.success_metric # bet.failure_metric
    /\ bet.first_48h_actions > 1
=============================================================================
