---------------------------- MODULE MCTargetBuild ----------------------------
(***************************************************************************)
(* Instances of TargetBuild for TLC: an application alone, and one that    *)
(* links a static library.                                                 *)
(***************************************************************************)
EXTENDS TargetBuild, TLC

CONSTANTS lib, app

NoArchives == [t \in Target |-> {}]

Alone(opts, ticks, faults) ==
  [order |-> <<app>>, archives |-> NoArchives, options |-> opts, ticks |-> ticks,
   faults |-> faults]

WithLibrary(ticks, faults) ==
  [order |-> <<lib, app>>, archives |-> (app :> {lib}) @@ NoArchives, options |-> {1},
   ticks |-> ticks, faults |-> faults]

\* Two configurations; a library, with faults or several builds in a second.
AllProjects == {Alone({1, 2}, 1, TRUE), WithLibrary(1, TRUE), WithLibrary(3, FALSE)}
=============================================================================
