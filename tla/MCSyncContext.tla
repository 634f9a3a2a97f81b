--------------------------- MODULE MCSyncContext ---------------------------
(***************************************************************************)
(* SyncContext on small syncs.                                             *)
(***************************************************************************)
EXTENDS SyncContext

Hook(o, ph, policies) ==
    [obj |-> o, phase |-> ph, wave |-> 0, kind |-> "hook", policies |-> policies,
     last |-> FALSE, confirm |-> FALSE]
Resource(o, w) ==
    [obj |-> o, phase |-> "Sync", wave |-> w, kind |-> "resource", policies |-> {},
     last |-> FALSE, confirm |-> FALSE]
Namespace(o, w) == [Resource(o, w) EXCEPT !.kind = "namespace"]
Extra(o, w) == [Resource(o, w) EXCEPT !.kind = "prune"]
ExtraLast(o, w) == [Extra(o, w) EXCEPT !.last = TRUE]
ExtraConfirm(o, w) == [Extra(o, w) EXCEPT !.confirm = TRUE]

Plan(info, kinds, n) ==
    [info |-> info, bad |-> {}, inSync |-> {}, fresh |-> TRUE, attempts |-> 1,
     kinds |-> kinds, left |-> n, prune |-> {t \in DOMAIN info : info[t].kind = "prune"}]

\* A namespace, two waves of resources, prunes of three waves, and one that comes last.
WavesInfo ==
    [ns |-> Namespace("ns", 1), r0 |-> Resource("r0", 0), r1 |-> Resource("r1", 1),
     p0 |-> Extra("p0", 0), p1 |-> ExtraConfirm("p1", 1), p2 |-> Extra("p2", 2),
     pl |-> ExtraLast("pl", 0)]

\* One hook that is used before and after, a resource, a failure hook.
HooksInfo ==
    [pre |-> Hook("job", "PreSync", {"BeforeHookCreation"}),
     post |-> Hook("job", "PostSync", {"BeforeHookCreation", "HookFailed"}),
     r0 |-> Resource("r0", 0),
     fail |-> Hook("mail", "SyncFail", {"HookSucceeded", "HookFailed"})]

\* A hook that goes when the sync succeeds, a resource, a failure hook, and a
\* prune that needs approval.
MixedInfo ==
    [pre |-> Hook("job", "PreSync", {"HookSucceeded"}), r0 |-> Resource("r0", 0),
     fail |-> Hook("mail", "SyncFail", {"BeforeHookCreation", "HookFailed"}),
     p0 |-> ExtraConfirm("p0", 0)]

Without(info, t) == [u \in DOMAIN info \ {t} |-> info[u]]

SyncPlans ==
    {[Plan(WavesInfo, {"prune", "apply", "crash"}, 1) EXCEPT !.inSync = {"r0"}],
     [Plan(HooksInfo, {"apply", "terminate"}, 1) EXCEPT !.attempts = 2],
     [Plan(HooksInfo, {"apply", "crash", "userDelete"}, 2) EXCEPT !.attempts = 2],
     [Plan(Without(MixedInfo, "fail"), {"crash", "finalizer", "invalid"}, 1) EXCEPT !.fresh = FALSE],
     [Plan(Without(MixedInfo, "p0"), {"crash", "finalizer", "invalid"}, 1) EXCEPT !.fresh = FALSE],
     [Plan(MixedInfo, {"dryRun", "crash"}, 1) EXCEPT !.fresh = FALSE]}

\* Two waves of resources, the second with a manifest that is refused, and a
\* prune that needs approval with the second.
GuardedInfo ==
    [r0 |-> Resource("r0", 0), r1 |-> Resource("r1", 1), p0 |-> ExtraConfirm("p0", 1)]

GuardedPlans == {[Plan(GuardedInfo, {}, 0) EXCEPT !.bad = {"r1"}]}
=============================================================================
