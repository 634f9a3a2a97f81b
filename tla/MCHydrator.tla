----------------------------- MODULE MCHydrator -----------------------------
(***************************************************************************)
(* Hydrator on small instances: two groups of one dry repository share a   *)
(* hydrated branch.                                                        *)
(***************************************************************************)
EXTENDS Hydrator

TwoGroups == [env |-> <<"a", "b">>, tools |-> <<"c">>]
OneRepo == [k \in Keys |-> "repo"]

\* The second revision leaves b as it is, the third one a and c.
SomeManifests == [a |-> <<1, 2, 2>>, b |-> <<1, 1, 2>>, c |-> <<1, 2, 2>>]

Plan(keys, from, kinds, n) == [keys |-> keys, from |-> from, kinds |-> kinds, left |-> n]
Together == [k \in Keys |-> 1]
Apart == [env |-> 1, tools |-> 2]

\* One group and any fault; two groups that get in each other's way, at one dry
\* revision or at two.
MCPlans ==
    {Plan({"env"}, Together, {"commit", "crash", "patch", "lag", "list", "resolve", "cached", "ask",
                              "render", "git", "slow"}, 1),
     Plan(Keys, Together, {}, 0),
     Plan(Keys, Apart, {}, 0)}

\* The applications of a group cannot be listed once.
ListPlans == {Plan({"env"}, Together, {"commit", "list"}, 1)}
=============================================================================
