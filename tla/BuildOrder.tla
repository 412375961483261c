----------------------------- MODULE BuildOrder -----------------------------
(***************************************************************************)
(* What the traversal of the target graph promises the builds: TargetBuild *)
(* assumes it of the order of its targets, TargetGraphProofs shows it of   *)
(* the targets compiler_build_target_graph builds.                         *)
(***************************************************************************)
LOCAL INSTANCE Naturals
LOCAL INSTANCE Sequences

\* Each target once, and after what it is linked with.
IsBuildOrder(order, linked) ==
  \A k \in DOMAIN order :
    /\ \A j \in DOMAIN order : order[j] = order[k] => j = k
    /\ linked[order[k]] \subseteq {order[j] : j \in 1 .. k - 1}
=============================================================================
