---------------------------- MODULE MCCostLedger ----------------------------
(***************************************************************************)
(* Instances of CostLedger for TLC: two runs of one tenant, by different   *)
(* agents and one of them in a workflow, and a run of another tenant.  The *)
(* agents have the two names that the table cannot tell apart.             *)
(***************************************************************************)
EXTENDS CostLedger, TLC

CONSTANTS r1, r2, r3, acme, other, plan

Tenant   == (r1 :> acme) @@ (r2 :> acme) @@ (r3 :> other)
Agent    == (r1 :> "") @@ (r2 :> Dash) @@ (r3 :> "")
Workflow == (r1 :> None) @@ (r2 :> plan) @@ (r3 :> plan)

\* Models of both tables: an alias that begins with another alias, and dated
\* names, one of them cheaper than the alias it begins with.  The first two
\* runs cost 3.5 and 1.5 millionths of a dollar.
ListedModels ==
    (r1 :> Response("openai", <<"gpt-4.1", "nano">>, 35, 0))
    @@ (r2 :> Response("openai", <<"gpt-4o", "mini", "2024-07-18">>, 10, 0))
    @@ (r3 :> Response("anthropic", <<"claude-haiku-4-5", "20251001">>, 1, 1))

\* A variant that came out after the table was written.
NewVariant == [r \in Runs |-> Response("openai", <<"gpt-4o", "mini", "2025-04-14">>, 1, 1)]

\* A duration to look back, which ends in whatever fraction the clock shows.
UTCSince == {Ago(1)}

\* A datetime without an offset, on a whole second.
UTCUntil == {Naive(1, 0)}

\* A datetime in a zone one unit east of UTC.
Eastern == {ISO(1, 0, 1)}
=============================================================================
