----------------------------- MODULE TargetGraph -----------------------------
(***************************************************************************)
(* One traversal of the target graph: compiler_build_target_graph of       *)
(* src/cli.c visits the targets a goal links, depth first, collects for    *)
(* each target the outputs it has to be linked with, and builds it.        *)
(* `c build` and `c run` have one goal, `c test` has every test target and *)
(* shares graph_state and graph_outputs between them.                      *)
(*                                                                         *)
(* The recursion is an explicit stack of frames; one step is one call of   *)
(* compiler_build_target_graph or compiler_append_target_link_closure, or  *)
(* one compiler_build_target, which is taken here to build or to die.      *)
(***************************************************************************)
EXTENDS Integers, Sequences, FiniteSets

CONSTANTS
  Target,           \* the targets of build.c
  Projects          \* for each project considered the target_deps and the kind
                    \* of each target, and the targets asked for, in order

Kind == {"static", "shared", "program"}
Distinct(s) == \A i, j \in DOMAIN s : s[i] = s[j] => i = j

ASSUME TargetAssumption == IsFiniteSet(Target)
\* c_link_target refuses a target linking itself or another one twice.
ASSUME ProjectsAssumption ==
  \A p \in Projects :
    /\ p.deps \in [Target -> Seq(Target)]
    /\ \A t \in Target : Distinct(p.deps[t]) /\ \A i \in DOMAIN p.deps[t] : p.deps[t][i] # t
    /\ p.kind \in [Target -> Kind]
    /\ p.goals \in Seq(Target)

VARIABLES
  deps,             \* t->target_deps
  kind,             \* t->kind
  goals,            \* the goals not visited yet
  stack,            \* active calls: the target and the index of its next dependency
  state,            \* graph_state: 0 unseen, 1 in progress, 2 built
  links,            \* outputs pushed to t->ldflags by the link closure
  todo,             \* calls of the link closure still to be made for the top of the stack
  phase,            \* of the top of the stack: "deps" or "link"
  built,            \* the targets built, in order; graph_outputs holds their outputs
  status            \* "run", "done", or how the build died

vars == <<deps, kind, goals, stack, state, links, todo, phase, built, status>>
input == <<deps, kind>>

Last == stack[Len(stack)]
Below == SubSeq(stack, 1, Len(stack) - 1)
Members(s) == {s[i] : i \in DOMAIN s}
Library == {t \in Target : kind[t] \in {"static", "shared"}}

-----------------------------------------------------------------------------
Init ==
  /\ \E p \in Projects : deps = p.deps /\ kind = p.kind /\ goals = p.goals
  /\ stack = <<>>
  /\ state = [t \in Target |-> 0]
  /\ links = [t \in Target |-> <<>>]
  /\ todo = <<>>
  /\ phase = "deps"
  /\ built = <<>>
  /\ status = "run"

Die(why) ==
  /\ status' = why
  /\ UNCHANGED <<input, goals, stack, state, links, todo, phase, built>>

\* A call of compiler_build_target_graph that returns at once or goes deeper.
Visit(t, callers) ==
  \/ /\ state[t] = 2
     /\ stack' = callers
     /\ UNCHANGED state
  \/ /\ state[t] = 0
     /\ state' = [state EXCEPT ![t] = 1]
     /\ stack' = Append(callers, [target |-> t, next |-> 1])

\* The next goal of the command; a cycle is impossible with no call active.
VisitGoal ==
  /\ status = "run" /\ stack = <<>> /\ goals # <<>>
  /\ Visit(Head(goals), stack)
  /\ goals' = Tail(goals)
  /\ phase' = "deps"
  /\ UNCHANGED <<input, links, todo, built, status>>

AllBuilt ==
  /\ status = "run" /\ stack = <<>> /\ goals = <<>>
  /\ Die("done")

\* The loop over t->target_deps.
InDeps == status = "run" /\ stack # <<>> /\ phase = "deps"
NextDep == deps[Last.target][Last.next]
MoreDeps == Last.next <= Len(deps[Last.target])

VisitDep ==
  /\ InDeps /\ MoreDeps
  /\ Visit(NextDep, Append(Below, [Last EXCEPT !.next = @ + 1]))
  /\ UNCHANGED <<input, goals, links, todo, phase, built, status>>

\* graph_state 1: the dependency is a caller of this very call.
Cycle == InDeps /\ MoreDeps /\ state[NextDep] = 1 /\ Die("cycle")

StartClosure ==
  /\ InDeps /\ ~MoreDeps
  /\ todo' = deps[Last.target]
  /\ phase' = "link"
  /\ UNCHANGED <<input, goals, stack, state, links, built, status>>

\* compiler_append_target_link_closure: `seen` is what has been pushed.
InLink == status = "run" /\ stack # <<>> /\ phase = "link"
Seen == Members(links[Last.target])

LinkSeen ==
  /\ InLink /\ todo # <<>> /\ Head(todo) \in Seen
  /\ todo' = Tail(todo)
  /\ UNCHANGED <<input, goals, stack, state, links, phase, built, status>>

NotLibrary ==
  /\ InLink /\ todo # <<>> /\ Head(todo) \notin Seen
  /\ Head(todo) \notin Library
  /\ Die("nonlibrary")

Pushed == [links EXCEPT ![Last.target] = Append(@, Head(todo))]

MutLinkPush ==
  /\ InLink /\ todo # <<>> /\ Head(todo) \notin Seen
  /\ Head(todo) \in Library
  /\ links' = Pushed
  /\ todo' = Tail(todo)
  /\ UNCHANGED <<input, goals, stack, state, phase, built, status>>

\* Without graph_outputs[idx] it is the "internal target graph error".
LinkPush ==
  /\ InLink /\ todo # <<>> /\ Head(todo) \notin Seen
  /\ Head(todo) \in Library
  /\ IF Head(todo) \in Members(built)
       THEN /\ links' = Pushed
            /\ todo' = deps[Head(todo)] \o Tail(todo)
            /\ UNCHANGED <<input, goals, stack, state, phase, built, status>>
       ELSE Die("internal")

MutBuildTarget ==
  /\ InLink /\ todo = <<>>
  /\ built' = Append(built, Last.target)
  /\ state' = [state EXCEPT ![Last.target] = 0]
  /\ stack' = Below
  /\ phase' = "deps"
  /\ UNCHANGED <<input, goals, links, todo, status>>

MutBuildTargetStuck ==
  /\ InLink /\ todo = <<>>
  /\ built' = Append(built, Last.target)
  /\ stack' = Below
  /\ phase' = "deps"
  /\ UNCHANGED <<input, goals, state, links, todo, status>>

\* compiler_build_target returned; so does this call, to the loop of its caller.
BuildTarget ==
  /\ InLink /\ todo = <<>>
  /\ built' = Append(built, Last.target)
  /\ state' = [state EXCEPT ![Last.target] = 2]
  /\ stack' = Below
  /\ phase' = "deps"
  /\ UNCHANGED <<input, goals, links, todo, status>>

BuildFails == InLink /\ todo = <<>> /\ Die("failed")

-----------------------------------------------------------------------------
Next ==
  \/ VisitGoal \/ AllBuilt
  \/ VisitDep \/ Cycle \/ StartClosure
  \/ LinkSeen \/ NotLibrary \/ LinkPush
  \/ BuildTarget \/ BuildFails

Spec == Init /\ [][Next]_vars

-----------------------------------------------------------------------------
(* Reference definitions.                                                  *)

\* Everything linked, directly or not, by a target of S: the least set that
\* holds the dependencies of S and of its own members.
Uses(S) == UNION {Members(deps[t]) : t \in S}
Reachable(S) ==
  {t \in Target : \A C \in SUBSET Target : Uses(S) \subseteq C /\ Uses(C) \subseteq C => t \in C}

Cyclic(t) == t \in Reachable({t})

-----------------------------------------------------------------------------
TypeOK ==
  /\ deps \in [Target -> Seq(Target)] /\ kind \in [Target -> Kind]
  /\ goals \in Seq(Target)
  /\ stack \in Seq([target : Target, next : Nat \ {0}])
  /\ Len(stack) <= Cardinality(Target)         \* the recursion is bounded
  /\ state \in [Target -> {0, 1, 2}]
  /\ links \in [Target -> Seq(Target)]
  /\ todo \in Seq(Target)
  /\ phase \in {"deps", "link"}
  /\ built \in Seq(Target)
  /\ status \in {"run", "done", "cycle", "nonlibrary", "internal", "failed"}

\* Every target is built at most once in a command, and only after each of the
\* targets it links (cli.c:1155-1171), so that none a link closure reaches lacks
\* its output (cli.c:1149).
DependenciesFirst ==
  \A k \in DOMAIN built :
    /\ \A i \in DOMAIN built : i # k => built[i] # built[k]
    /\ \A t \in Members(deps[built[k]]) : \E i \in 1 .. k - 1 : built[i] = t
    /\ status # "internal"

\* The build dies of a cycle only if a target in progress is on one, and a
\* command that succeeds has met none in what its goals link.  No target is in
\* progress twice, so the recursion ends on every graph.
CyclesFound ==
  /\ \A i, j \in DOMAIN stack : stack[i].target = stack[j].target => i = j
  /\ status = "cycle" => \E t \in Members(stack) : Cyclic(t.target)
  /\ \A t \in Members(built) : ~Cyclic(t)

\* A target is linked with every library below it, transitively, each once.
ClosureComplete ==
  \A t \in Members(built) :
    Members(links[t]) = Reachable({t}) /\ Distinct(links[t])

-----------------------------------------------------------------------------
(* The inductive strengthening of these, proved in TargetGraphProofs.      *)

\* The stack is a path in the graph, of the targets in progress.
PathInv ==
  /\ \A i, j \in 1 .. Len(stack) : stack[i].target = stack[j].target => i = j
  /\ \A t \in Target : state[t] = 1 <=> \E i \in 1 .. Len(stack) : stack[i].target = t
  /\ \A i, j \in 1 .. Len(stack) : i < j => stack[j].target \in Reachable({stack[i].target})

\* What a caller has passed in its loop is built, or is the call it waits for.
PassedInv ==
  /\ \A i \in 1 .. Len(stack) : \A m \in DOMAIN deps[stack[i].target] :
       m < stack[i].next =>
         \/ deps[stack[i].target][m] \in Members(built)
         \/ i < Len(stack) /\ deps[stack[i].target][m] = stack[i + 1].target
  /\ phase = "link" => stack # <<>> /\ ~MoreDeps

BuiltInv ==
  /\ \A t \in Target : state[t] = 2 <=> t \in Members(built)
  /\ phase = "link" => Members(todo) \subseteq Members(built)
  /\ DependenciesFirst

\* What is linked so far, with what is still to be looked at, is what a target
\* reaches: it holds the dependencies of each that is linked.
Linking ==
  LET t == Last.target
      found == Members(links[t]) \cup Members(todo)
  IN  /\ Distinct(links[t])
      /\ found \subseteq Reachable({t})
      /\ Uses({t} \cup Members(links[t])) \subseteq found

LinkInv ==
  /\ ClosureComplete
  /\ \A t \in Target :
       t \in Members(built) \/ (phase = "link" /\ t = Last.target) \/ links[t] = <<>>
  /\ phase = "link" => Linking

IInv == TypeOK /\ PathInv /\ PassedInv /\ BuiltInv /\ LinkInv /\ CyclesFound
=============================================================================
