---------------------------- MODULE MCProjectLock ----------------------------
(***************************************************************************)
(* Instances of ProjectLock for TLC: which command chains the invocations  *)
(* of one project are given, and which of them are nested in another.      *)
(***************************************************************************)
EXTENDS ProjectLock, TLC

CONSTANTS a, b, c, d, e

\* Every way to give each invocation one of its chains.
Cast(chains, host, deps, kills) ==
  {[chain |-> f, host |-> host, deps |-> deps, tests |-> 1, kills |-> kills] :
     f \in {g \in [Invocation -> UNION {chains[i] : i \in Invocation}] :
             \A i \in Invocation : g[i] \in chains[i]}}

TopLevel == [i \in Invocation |-> None]
NoDeps == [i \in Invocation |-> {}]

\* The chains the help text gives as examples (cli.c:1460), with the commands
\* that only build collapsed into "build", beside a plain build.
Documented ==
  Cast((c :> {<<"build">>}) @@
         [i \in Invocation |-> {<<"build">>, <<"build", "run">>, <<"build", "build", "test">>}],
       TopLevel, NoDeps, TRUE)

\* b is started by the program of a; c is independent.
Nesting ==
  Cast((b :> {<<"build">>, <<"test">>}) @@
         [i \in Invocation |-> {<<"run">>, <<"test">>, <<"build">>}],
       (b :> a) @@ TopLevel, NoDeps, FALSE)

\* Builds and chains that go on after `run` beside a watching invocation.
Watchers ==
  Cast((a :> {<<"watch">>}) @@ [i \in Invocation |-> {<<"build">>, <<"run", "build">>}],
       TopLevel, NoDeps, TRUE)

\* A test runs `c test`, a test of which builds.
Deep ==
  Cast((c :> {<<"build">>, <<"test">>}) @@ [i \in Invocation |-> {<<"test">>, <<"build", "test">>}],
       (b :> a) @@ (c :> b) @@ TopLevel, NoDeps, FALSE)

\* Commands with source dependencies: after one another, beside others, with
\* kills, and nested.
Dependencies ==
  LET builds == (a :> {<<"build", "build">>}) @@ [i \in Invocation |-> {<<"build">>}]
  IN       Cast(builds, TopLevel, (a :> {d, e}) @@ (b :> {d, e}) @@ NoDeps, FALSE)
      \cup Cast(builds, TopLevel, (a :> {d, e}) @@ NoDeps, TRUE)
      \cup Cast((a :> {<<"test">>, <<"run">>}) @@ builds, (b :> a) @@ TopLevel,
                [i \in Invocation |-> {d, e}], FALSE)

Sound == Documented \cup Nesting \cup Deep \cup Watchers \cup Dependencies
=============================================================================
