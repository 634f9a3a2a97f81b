------------------------- MODULE MCProgressiveSync -------------------------
(* Instances of ProgressiveSync. *)
EXTENDS ProgressiveSync

Unset == [type |-> "unset", val |-> 0]
AtMost(n) == [type |-> "int", val |-> n]
Percent(n) == [type |-> "percent", val |-> n]
Invalid == [type |-> "invalid", val |-> 0]
Step(as, m) == [apps |-> as, max |-> m]

ABC == <<"a", "b", "c">>
TwoSteps == <<Step({"a"}, Unset), Step({"b"}, Unset)>>
Base == [steps |-> TwoSteps, policy |-> "sync", desired |-> {"a", "b"}, start |-> "settled",
         broken |-> {}, commits |-> <<>>, templates |-> 0, drop |-> {}, restore |-> {}, delete |-> FALSE,
         lag |-> FALSE, automated |-> FALSE, faults |-> {}, left |-> 0]

OneStep(m) == <<Step({"a", "b"}, m)>>
Alone == [Base EXCEPT !.steps = <<Step({"a"}, Unset)>>, !.desired = {"a"}]
Down == [Base EXCEPT !.delete = TRUE, !.lag = TRUE]

\* One application, with everything that can cross a pass: a second commit or
\* a new template while the first change is on its way, and each fault.
AlonePlans ==
    {[Alone EXCEPT !.lag = TRUE, !.commits = <<{"a"}, {"a"}>>],
     [Alone EXCEPT !.lag = TRUE, !.commits = <<{"a"}>>, !.templates = 1],
     [Alone EXCEPT !.lag = TRUE, !.commits = <<{"a"}>>, !.left = 1,
                   !.faults = {"status", "write", "crash", "second", "sync"}],
     [Alone EXCEPT !.lag = TRUE, !.commits = <<{"a"}>>, !.automated = TRUE],
     [Alone EXCEPT !.steps = <<Step({"a"}, AtMost(1))>>, !.desired = {"a", "b"},
                   !.commits = <<{"a"}>>, !.faults = {"degrade"}, !.left = 1]}

\* Two steps, or one step with a limit.
StepPlans ==
    {[Base EXCEPT !.commits = <<{"a", "b"}>>],
     [Base EXCEPT !.start = "new"],
     [Base EXCEPT !.commits = <<{"a", "b"}>>, !.broken = {"a"}]}
        \cup {[Base EXCEPT !.steps = OneStep(m), !.commits = <<{"a", "b"}>>] :
                 m \in {AtMost(1), Percent(70), Invalid}}

\* The set is deleted, or an application leaves it, joins it or comes back.
DownPlans ==
    {[Down EXCEPT !.policy = p, !.commits = <<{"a"}>>] :
        p \in {"sync", "create-update"}}
        \cup {[Base EXCEPT !.policy = p, !.drop = {"a"}, !.lag = TRUE] :
                 p \in {"sync", "create-update"}}
        \cup {[Down EXCEPT !.steps = <<Step({"a"}, Unset)>>],
              [Down EXCEPT !.drop = {"b"}],
              [Down EXCEPT !.policy = "create-update", !.templates = 1,
                           !.faults = {"older"}, !.left = 1],
              [Alone EXCEPT !.drop = {"a"}, !.restore = {"a"}, !.templates = 1],
              [Base EXCEPT !.desired = {"a"}, !.restore = {"b"}, !.templates = 1]}

RolloutPlans == AlonePlans \cup StepPlans \cup DownPlans

\* A settled application and one change of the template.
TemplatePlans == {[Alone EXCEPT !.templates = 1]}
=============================================================================
