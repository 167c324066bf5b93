--------------------------- MODULE MCLeverageBet ----------------------------
(***************************************************************************)
(* Instances of LeverageBet for TLC.                                       *)
(***************************************************************************)
EXTENDS BetInvariant

CONSTANTS profile, designer, critic

\* The profiler, the designer of the bet and the Critic.  The two agents between
\* the first and the second differ from the first in nothing the model tells.
ThreeStages == <<profile, designer, critic>>
TwoStages == <<profile, critic>>

\* A bet that is sound, one with a week too many, and one that cannot fail.
SoundBet ==
    [title |-> "t", weekly_plan |-> <<"a", "b", "c", "d">>, success_metric |-> "s",
     failure_metric |-> "f", first_48h_actions |-> 2, expected_asset_created |-> "e"]
ThreeBets ==
    {SoundBet, [SoundBet EXCEPT !.weekly_plan = Append(@, "e")],
     [SoundBet EXCEPT !.failure_metric = "s"]}

\* The one task runs on a context of its own.
OwnContext == [t \in Tasks |-> t]
=============================================================================
