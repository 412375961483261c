-------------------------- MODULE TargetGraphProofs --------------------------
(***************************************************************************)
(* Proofs about TargetGraph for any finite set of targets and any graph.   *)
(* PathInv says that the active calls form a path in the graph, so that   *)
(* a target met while it is in progress is on a cycle; BuiltInv that what  *)
(* a caller has passed is built; LinkInv that what a target is linked with *)
(* and has still to look at is closed under the links, so that nothing is  *)
(* missing when nothing is left to look at.                                *)
(***************************************************************************)
EXTENDS TargetGraph, BuildOrder, FiniteSetTheorems, SequenceTheorems, TLAPS

(* Sequences. *)

LEMMA MembersAppend ==
  ASSUME NEW S, NEW s \in Seq(S), NEW x \in S
  PROVE  /\ Members(Append(s, x)) = Members(s) \cup {x}
         /\ Distinct(s) /\ x \notin Members(s) => Distinct(Append(s, x))
  <1>1. /\ Len(Append(s, x)) = Len(s) + 1 /\ Append(s, x)[Len(s) + 1] = x
        /\ DOMAIN Append(s, x) = 1 .. Len(s) + 1 /\ DOMAIN s = 1 .. Len(s) /\ Len(s) \in Nat
        /\ \A i \in 1 .. Len(s) : Append(s, x)[i] = s[i]
    OBVIOUS
  <1>2. Members(Append(s, x)) = Members(s) \cup {x}
    BY <1>1 DEF Members
  <1>3. ASSUME Distinct(s), x \notin Members(s) PROVE Distinct(Append(s, x))
    BY <1>1, <1>3 DEF Members, Distinct
  <1>. QED  BY <1>2, <1>3

LEMMA MembersConcat ==
  ASSUME NEW S, NEW s \in Seq(S), NEW t \in Seq(S)
  PROVE  Members(s \o t) = Members(s) \cup Members(t)
  <1>1. /\ DOMAIN (s \o t) = 1 .. Len(s) + Len(t) /\ Len(s) \in Nat /\ Len(t) \in Nat
        /\ DOMAIN s = 1 .. Len(s) /\ DOMAIN t = 1 .. Len(t)
        /\ \A i \in 1 .. Len(s) : (s \o t)[i] = s[i]
        /\ \A i \in 1 .. Len(s) + Len(t) : i > Len(s) => (s \o t)[i] = t[i - Len(s)]
    OBVIOUS
  <1>2. \A j \in 1 .. Len(t) : (s \o t)[Len(s) + j] = t[j]
    BY <1>1
  <1>3. Members(s) \cup Members(t) \subseteq Members(s \o t)
    <2>1. \A i \in 1 .. Len(s) : i \in 1 .. Len(s) + Len(t)
      BY <1>1
    <2>2. Members(s) \subseteq Members(s \o t)
      BY <1>1, <2>1, Zenon DEF Members
    <2>3. \A j \in 1 .. Len(t) : Len(s) + j \in 1 .. Len(s) + Len(t)
      BY <1>1
    <2>4. Members(t) \subseteq Members(s \o t)
      <3>1. ASSUME NEW j \in 1 .. Len(t) PROVE t[j] \in Members(s \o t)
        BY <1>1, <1>2, <2>3, Zenon DEF Members
      <3>. QED  BY <1>1, <3>1, Zenon DEF Members
    <2>. QED  BY <2>2, <2>4
  <1>4. Members(s \o t) \subseteq Members(s) \cup Members(t)
    BY <1>1 DEF Members
  <1>. QED  BY <1>3, <1>4

LEMMA MembersTail ==
  ASSUME NEW S, NEW s \in Seq(S), s # <<>>
  PROVE  Tail(s) \in Seq(S) /\ Head(s) \in S /\ Members(s) = {Head(s)} \cup Members(Tail(s))
  <1>1. /\ Tail(s) \in Seq(S) /\ Head(s) \in S /\ Head(s) = s[1] /\ Len(s) \in Nat \ {0}
        /\ DOMAIN s = 1 .. Len(s) /\ DOMAIN Tail(s) = 1 .. Len(s) - 1
        /\ \A i \in 1 .. Len(s) - 1 : Tail(s)[i] = s[i + 1]
    OBVIOUS
  <1>2. Members(s) \subseteq {Head(s)} \cup Members(Tail(s))
    <2>1. ASSUME NEW i \in 1 .. Len(s), i # 1 PROVE s[i] \in Members(Tail(s))
      <3>1. i - 1 \in 1 .. Len(s) - 1 /\ Tail(s)[i - 1] = s[i]
        BY <1>1, <2>1
      <3>. QED  BY <1>1, <3>1 DEF Members
    <2>. QED  BY <1>1, <2>1 DEF Members
  <1>3. {Head(s)} \cup Members(Tail(s)) \subseteq Members(s)
    <2>1. ASSUME NEW i \in 1 .. Len(s) - 1 PROVE Tail(s)[i] \in Members(s)
      <3>1. i + 1 \in 1 .. Len(s) /\ Tail(s)[i] = s[i + 1]
        BY <1>1, <2>1
      <3>. QED  BY <1>1, <3>1 DEF Members
    <2>2. Head(s) \in Members(s)
      BY <1>1 DEF Members
    <2>. QED  BY <1>1, <2>1, <2>2 DEF Members
  <1>. QED  BY <1>1, <1>2, <1>3

LEMMA BelowIs ==
  ASSUME NEW S, stack \in Seq(S), stack # <<>>
  PROVE  /\ Below \in Seq(S) /\ Last \in S /\ Last = stack[Len(stack)]
         /\ Len(stack) \in Nat \ {0} /\ Len(Below) = Len(stack) - 1
         /\ \A i \in 1 .. Len(stack) - 1 : Below[i] = stack[i]
  <1>1. Len(stack) \in Nat /\ Len(stack) # 0 /\ \A i \in 1 .. Len(stack) : stack[i] \in S
    OBVIOUS
  <1>2. Len(stack) - 1 \in Int /\ \A i \in 1 .. Len(stack) - 1 : stack[i] \in S
    BY <1>1
  <1>3. /\ Below \in Seq(S)
        /\ Len(Below) = IF 1 <= Len(stack) - 1 THEN Len(stack) - 1 - 1 + 1 ELSE 0
        /\ \A i \in 1 .. Len(stack) - 1 - 1 + 1 : Below[i] = stack[1 + i - 1]
    BY <1>2, SubSeqProperties DEF Below
  <1>4. \A i \in 1 .. Len(stack) - 1 : i \in 1 .. Len(stack) - 1 - 1 + 1 /\ 1 + i - 1 = i
    BY <1>1
  <1>5. Len(Below) = Len(stack) - 1
    <2>1. CASE Len(stack) = 1
      BY <1>3, <2>1
    <2>2. CASE Len(stack) # 1
      <3>1. Len(stack) \in Nat /\ Len(stack) # 0 /\ Len(stack) # 1
        BY <1>1, <2>2
      <3>2. \A n \in Nat : n # 0 /\ n # 1 => 1 <= n - 1 /\ n - 1 - 1 + 1 = n - 1
        OBVIOUS
      <3>. QED  BY <1>3, <3>1, <3>2
    <2>. QED  BY <2>1, <2>2
  <1>. QED  BY <1>1, <1>3, <1>4, <1>5 DEF Last

Frame == [target : Target, next : Nat \ {0}]
\* The stack once the top of it has gone on to its next dependency.
Advanced == Append(Below, [Last EXCEPT !.next = @ + 1])

LEMMA AdvancedIs ==
  ASSUME stack \in Seq(Frame), stack # <<>>
  PROVE  /\ Advanced \in Seq(Frame) /\ Len(Advanced) = Len(stack) /\ Len(stack) \in Nat \ {0}
         /\ \A i \in 1 .. Len(stack) - 1 : Advanced[i] = stack[i]
         /\ Advanced[Len(stack)].target = Last.target
         /\ Advanced[Len(stack)].next = Last.next + 1 /\ Last.next \in Nat \ {0}
         /\ Last.target \in Target /\ Last = stack[Len(stack)]
  <1>0. Last \in Frame /\ Below \in Seq(Frame)
    BY BelowIs
  <1>1. [Last EXCEPT !.next = @ + 1] \in Frame
    <2>1. Last.next + 1 \in Nat \ {0}
      BY <1>0 DEF Frame
    <2>. QED  BY <1>0, <2>1 DEF Frame
  <1>2. /\ [Last EXCEPT !.next = @ + 1].target = Last.target
        /\ [Last EXCEPT !.next = @ + 1].next = Last.next + 1
    BY <1>0 DEF Frame
  <1>3. /\ Advanced \in Seq(Frame) /\ Len(Advanced) = Len(Below) + 1
        /\ \A i \in 1 .. Len(Below) : Advanced[i] = Below[i]
        /\ Advanced[Len(Below) + 1] = [Last EXCEPT !.next = @ + 1]
    BY <1>0, <1>1, AppendProperties DEF Advanced
  <1>4. /\ Len(stack) \in Nat \ {0} /\ Len(Below) = Len(stack) - 1 /\ Last = stack[Len(stack)]
        /\ \A i \in 1 .. Len(stack) - 1 : Below[i] = stack[i]
    BY BelowIs
  <1>5. Last.target \in Target /\ Last.next \in Nat \ {0}
    BY <1>0 DEF Frame
  <1>6. Len(Below) + 1 = Len(stack)
    BY <1>4
  <1>. QED  BY <1>2, <1>3, <1>4, <1>5, <1>6

\* Frames of different targets are no more than there are targets.
LEMMA Bounded ==
  ASSUME NEW s \in Seq(Frame), \A i, j \in DOMAIN s : s[i].target = s[j].target => i = j
  PROVE  Len(s) <= Cardinality(Target)
  <1>. DEFINE g == [i \in 1 .. Len(s) |-> s[i].target]
  <1>1. Len(s) \in Nat /\ DOMAIN s = 1 .. Len(s) /\ \A i \in 1 .. Len(s) : s[i].target \in Target
    <2>1. Len(s) \in Nat /\ DOMAIN s = 1 .. Len(s) /\ \A i \in 1 .. Len(s) : s[i] \in Frame
      OBVIOUS
    <2>. QED  BY <2>1 DEF Frame
  <1>2. g \in Injection(1 .. Len(s), Target)
    BY <1>1 DEF Injection, IsInjective
  <1>3. IsFiniteSet(1 .. Len(s)) /\ Cardinality(1 .. Len(s)) = Len(s)
    BY <1>1, FS_Interval
  <1>. QED  BY <1>2, <1>3, FS_Injection, TargetAssumption

(* The reference definitions. *)

LEMMA ReachableClosed ==
  ASSUME deps \in [Target -> Seq(Target)], NEW S \in SUBSET Target
  PROVE  /\ Uses(S) \subseteq Reachable(S) /\ Uses(Reachable(S)) \subseteq Reachable(S)
         /\ Reachable(S) \subseteq Target
  <1>0. \A t \in Target : Members(deps[t]) \subseteq Target
    BY DEF Members
  <1>1. Uses(S) \subseteq Reachable(S)
    BY <1>0 DEF Reachable, Uses
  <1>2. ASSUME NEW t \in Reachable(S), NEW d \in Members(deps[t]) PROVE d \in Reachable(S)
    <2>1. ASSUME NEW C \in SUBSET Target, Uses(S) \subseteq C, Uses(C) \subseteq C PROVE d \in C
      <3>1. t \in C
        BY <2>1 DEF Reachable
      <3>. QED  BY <2>1, <3>1 DEF Uses
    <2>2. d \in Target
      BY <1>0 DEF Reachable
    <2>. QED  BY <2>1, <2>2 DEF Reachable
  <1>3. Uses(Reachable(S)) \subseteq Reachable(S)
    BY <1>2 DEF Uses
  <1>. QED  BY <1>1, <1>3 DEF Reachable

LEMMA ReachableLeast ==
  ASSUME NEW S, NEW C \in SUBSET Target, Uses(S) \subseteq C, Uses(C) \subseteq C
  PROVE  Reachable(S) \subseteq C
  BY DEF Reachable

LEMMA ReachableTransitive ==
  ASSUME deps \in [Target -> Seq(Target)], NEW t \in Target, NEW u \in Reachable({t})
  PROVE  Reachable({u}) \subseteq Reachable({t}) /\ Members(deps[u]) \subseteq Reachable({t})
  <1>1. /\ Uses(Reachable({t})) \subseteq Reachable({t}) /\ Reachable({t}) \in SUBSET Target
    BY ReachableClosed
  <1>2. Uses({u}) = Members(deps[u]) /\ Members(deps[u]) \subseteq Uses(Reachable({t}))
    BY DEF Uses
  <1>3. Uses({u}) \subseteq Reachable({t})
    BY <1>1, <1>2
  <1>. QED  BY <1>1, <1>2, <1>3, ReachableLeast

LEMMA ReachableDirect ==
  ASSUME deps \in [Target -> Seq(Target)], NEW t \in Target
  PROVE  Members(deps[t]) \subseteq Reachable({t}) /\ Reachable({t}) \subseteq Target
  <1>1. Uses({t}) = Members(deps[t])
    BY DEF Uses
  <1>. QED  BY <1>1, ReachableClosed

-----------------------------------------------------------------------------
(* What the steps do to the stack. *)

Typed == 
  /\ deps \in [Target -> Seq(Target)] /\ kind \in [Target -> Kind]
  /\ goals \in Seq(Target) /\ stack \in Seq(Frame)
  /\ state \in [Target -> {0, 1, 2}] /\ links \in [Target -> Seq(Target)]
  /\ todo \in Seq(Target) /\ phase \in {"deps", "link"} /\ built \in Seq(Target)
  /\ status \in {"run", "done", "cycle", "nonlibrary", "internal", "failed"}

LEMMA TypedIs == TypeOK <=> Typed /\ Len(stack) <= Cardinality(Target)
  BY DEF TypeOK, Typed, Frame

\* A call that returns at once, or goes deeper.
Returns(t, callers) == state[t] = 2 /\ stack' = callers /\ UNCHANGED state
Enters(t, callers) ==
  /\ state[t] = 0 /\ state' = [state EXCEPT ![t] = 1]
  /\ stack' = Append(callers, [target |-> t, next |-> 1])

Stays == UNCHANGED <<deps, kind, stack, state, built, links>>

LEMMA Actions ==
  ASSUME [Next]_vars
  PROVE  \/ VisitGoal
         \/ VisitDep /\ InDeps /\ MoreDeps /\ (Returns(NextDep, Advanced) \/ Enters(NextDep, Advanced))
         \/ LinkPush /\ Head(todo) \in Members(built)
         \/ BuildTarget
         \/ Stays /\ \/ StartClosure \/ LinkSeen \/ Cycle
                     \/ /\ UNCHANGED <<phase, todo, goals>>
                        /\ status' \in {status, "done", "nonlibrary", "internal", "failed"}
                        /\ \/ status' # "internal" \/ status = "internal"
                           \/ phase = "link" /\ todo # <<>> /\ Head(todo) \notin Members(built)
  <1>. USE DEF Visit, Returns, Enters, Stays, Advanced
  <1>1. CASE VisitGoal
    BY <1>1 DEF VisitGoal
  <1>2. CASE VisitDep
    BY <1>2 DEF VisitDep
  <1>3. CASE StartClosure \/ LinkSeen \/ Cycle
    BY <1>3 DEF StartClosure, LinkSeen, Cycle, Die, input
  <1>4. CASE AllBuilt \/ NotLibrary \/ BuildFails
    BY <1>4 DEF AllBuilt, NotLibrary, BuildFails, Die, input
  <1>5. CASE LinkPush
    BY <1>5 DEF LinkPush, Die, input, InLink
  <1>6. CASE UNCHANGED vars
    BY <1>6 DEF vars, input
  <1>. QED  BY <1>1, <1>2, <1>3, <1>4, <1>5, <1>6 DEF Next

-----------------------------------------------------------------------------
LEMMA InitIInv == Init => IInv
  <1>. SUFFICES ASSUME Init PROVE IInv
    OBVIOUS
  <1>1. Typed
    BY ProjectsAssumption DEF Init, Typed
  <1>2. /\ DOMAIN stack = {} /\ Len(stack) = 0 /\ DOMAIN built = {} /\ Members(stack) = {}
        /\ Members(built) = {} /\ phase = "deps" /\ status = "run"
        /\ \A t \in Target : state[t] = 0 /\ links[t] = <<>>
    BY DEF Init, Members
  <1>3. TypeOK
    BY <1>1, <1>2, TypedIs, FS_CardinalityType, TargetAssumption
  <1>4. PathInv /\ PassedInv /\ BuiltInv /\ LinkInv /\ CyclesFound
    BY <1>2 DEF PathInv, PassedInv, BuiltInv, DependenciesFirst, LinkInv, ClosureComplete, CyclesFound
  <1>. QED  BY <1>3, <1>4 DEF IInv

LEMMA NextTyped == IInv /\ [Next]_vars => Typed'
  <1>. SUFFICES ASSUME IInv, [Next]_vars PROVE Typed'
    OBVIOUS
  <1>0. Typed
    BY TypedIs DEF IInv
  <1>. USE <1>0 DEF Typed, input
  <1>1. ASSUME NEW t \in Target, NEW callers \in Seq(Frame), Visit(t, callers)
        PROVE  stack' \in Seq(Frame) /\ state' \in [Target -> {0, 1, 2}]
    <2>1. [target |-> t, next |-> 1] \in Frame
      BY DEF Frame
    <2>2. Append(callers, [target |-> t, next |-> 1]) \in Seq(Frame)
      BY <2>1, AppendProperties
    <2>3. CASE state[t] = 2
      BY <1>1, <2>3 DEF Visit
    <2>4. CASE state[t] = 0
      BY <1>1, <2>2, <2>4 DEF Visit
    <2>. QED  BY <1>1, <2>3, <2>4 DEF Visit
  <1>2. CASE VisitGoal
    <2>1. Head(goals) \in Target /\ Tail(goals) \in Seq(Target)
      BY <1>2, MembersTail DEF VisitGoal
    <2>. QED  BY <1>1, <1>2, <2>1 DEF VisitGoal
  <1>3. CASE VisitDep
    <2>1. /\ Advanced \in Seq(Frame) /\ Last.target \in Target /\ Last.next \in Nat \ {0}
      BY <1>3, AdvancedIs DEF VisitDep, InDeps
    <2>2. NextDep \in Target
      BY <1>3, <2>1 DEF VisitDep, MoreDeps, NextDep
    <2>. QED  BY <1>1, <1>3, <2>1, <2>2 DEF VisitDep, Advanced
  <1>4. CASE StartClosure
    <2>1. Last.target \in Target
      BY <1>4, AdvancedIs DEF StartClosure, InDeps
    <2>. QED  BY <1>4, <2>1 DEF StartClosure
  <1>5. CASE LinkSeen
    BY <1>5, MembersTail DEF LinkSeen
  <1>6. CASE LinkPush
    <2>1. Last.target \in Target /\ Head(todo) \in Target /\ Tail(todo) \in Seq(Target)
      BY <1>6, AdvancedIs, MembersTail DEF LinkPush, InLink
    <2>2. Pushed \in [Target -> Seq(Target)]
      BY <2>1, AppendProperties DEF Pushed
    <2>3. deps[Head(todo)] \o Tail(todo) \in Seq(Target)
      BY <2>1, ConcatProperties
    <2>. QED  BY <1>6, <2>2, <2>3 DEF LinkPush, Die
  <1>7. CASE BuildTarget
    <2>1. Last.target \in Target /\ Below \in Seq(Frame)
      BY <1>7, AdvancedIs, BelowIs DEF BuildTarget, InLink
    <2>. QED  BY <1>7, <2>1, AppendProperties DEF BuildTarget
  <1>8. CASE AllBuilt \/ Cycle \/ NotLibrary \/ BuildFails
    BY <1>8 DEF AllBuilt, Cycle, NotLibrary, BuildFails, Die
  <1>9. CASE UNCHANGED vars
    BY <1>9 DEF vars
  <1>. QED  BY <1>2, <1>3, <1>4, <1>5, <1>6, <1>7, <1>8, <1>9 DEF Next

-----------------------------------------------------------------------------
(* The stack. *)

LEMMA ReachableKept == UNCHANGED deps => \A S : Reachable(S)' = Reachable(S)
  BY DEF Reachable, Uses

LEMMA FrameType ==
  ASSUME Typed, NEW i \in 1 .. Len(stack)
  PROVE  /\ stack[i].target \in Target /\ stack[i].next \in Nat \ {0}
         /\ deps[stack[i].target] \in Seq(Target)
         /\ DOMAIN deps[stack[i].target] \subseteq Nat
  <1>1. stack[i] \in Frame
    BY DEF Typed
  <1>2. stack[i].target \in Target /\ stack[i].next \in Nat \ {0}
    BY <1>1 DEF Frame
  <1>3. deps[stack[i].target] \in Seq(Target)
    BY <1>2 DEF Typed
  <1>4. DOMAIN deps[stack[i].target] = 1 .. Len(deps[stack[i].target])
    BY <1>3
  <1>. QED  BY <1>2, <1>3, <1>4

\* In the loop over the dependencies.
LEMMA DepIs ==
  ASSUME IInv, InDeps, MoreDeps
  PROVE  /\ Typed /\ PathInv /\ PassedInv /\ Last.target \in Target
         /\ NextDep \in Members(deps[Last.target]) /\ NextDep \in Target
         /\ \A i \in 1 .. Len(stack) : NextDep \in Reachable({stack[i].target})
  <1>1. /\ Typed /\ PathInv /\ PassedInv /\ stack # <<>>
    BY TypedIs DEF IInv, InDeps
  <1>2. /\ Len(stack) \in Nat \ {0} /\ Last = stack[Len(stack)] /\ Last.target \in Target
        /\ Last.next \in Nat \ {0}
    BY <1>1, AdvancedIs DEF Typed
  <1>3. Last.next \in DOMAIN deps[Last.target] /\ deps[Last.target] \in Seq(Target)
    BY <1>1, <1>2 DEF Typed, MoreDeps
  <1>4. NextDep \in Members(deps[Last.target]) /\ NextDep \in Target
    BY <1>3 DEF NextDep, Members
  <1>5. ASSUME NEW i \in 1 .. Len(stack) PROVE NextDep \in Reachable({stack[i].target})
    <2>1. stack[i].target \in Target
      BY <1>1, <1>5, FrameType
    <2>2. CASE i = Len(stack)
      BY <1>1, <1>2, <1>4, <2>2, ReachableDirect DEF Typed
    <2>3. CASE i # Len(stack)
      <3>1. i < Len(stack) /\ Len(stack) \in 1 .. Len(stack)
        BY <1>2, <2>3
      <3>2. Last.target \in Reachable({stack[i].target})
        BY <1>1, <1>2, <3>1 DEF PathInv
      <3>. QED  BY <1>1, <1>4, <2>1, <3>2, ReachableTransitive DEF Typed
    <2>. QED  BY <2>2, <2>3
  <1>. QED  BY <1>1, <1>2, <1>4, <1>5

\* The frame on top has gone on, to a call that has returned.
LEMMA ReturnsPath ==
  ASSUME IInv, InDeps, MoreDeps, Returns(NextDep, Advanced), UNCHANGED <<deps, built, phase>>
  PROVE  PathInv' /\ PassedInv'
  <1>. DEFINE n == Len(stack)
  <1>0. /\ Typed /\ PathInv /\ PassedInv /\ NextDep \in Members(built)
    <2>1. Typed /\ NextDep \in Target /\ state[NextDep] = 2 /\ PathInv /\ PassedInv
      BY DepIs DEF Returns
    <2>. QED  BY <2>1 DEF IInv, BuiltInv
  <1>1. /\ Len(stack') = n /\ n \in Nat \ {0}
        /\ \A i \in 1 .. n - 1 : stack'[i] = stack[i]
        /\ stack'[n].target = stack[n].target /\ stack'[n].next = stack[n].next + 1
        /\ stack[n].next \in Nat \ {0} /\ Last = stack[n]
    BY <1>0, AdvancedIs DEF Returns, InDeps, Typed
  <1>. HIDE DEF n
  <1>2. \A i \in 1 .. n : stack'[i].target = stack[i].target
    BY <1>1
  <1>3. PathInv'
    <2>1. Len(stack') = n /\ state' = state /\ deps' = deps
      BY <1>1 DEF Returns
    <2>2. \A t \in Target : state'[t] = 1 <=> \E i \in 1 .. n : stack'[i].target = t
      BY <1>0, <1>2, <2>1 DEF PathInv, n
    <2>3. \A i, j \in 1 .. n : stack'[i].target = stack'[j].target => i = j
      BY <1>0, <1>2 DEF PathInv, n
    <2>4. \A i, j \in 1 .. n : i < j => stack'[j].target \in Reachable({stack'[i].target})
      BY <1>0, <1>2 DEF PathInv, n
    <2>. QED  BY <2>1, <2>2, <2>3, <2>4, ReachableKept DEF PathInv
  <1>4. ASSUME NEW i \in 1 .. n, NEW m \in DOMAIN deps[stack[i].target], m < stack'[i].next
        PROVE  \/ deps[stack[i].target][m] \in Members(built)
               \/ i < n /\ deps[stack[i].target][m] = stack'[i + 1].target
    <2>0. m \in Nat
      BY <1>0, <1>4, FrameType DEF n
    <2>1. CASE i < n
      <3>1. i \in 1 .. n - 1 /\ i + 1 \in 1 .. n
        BY <1>1, <2>1
      <3>. QED  BY <1>0, <1>1, <1>2, <1>4, <2>1, <3>1 DEF PassedInv, n
    <2>2. CASE i = n
      <3>1. m < stack[n].next \/ m = stack[n].next
        BY <1>1, <1>4, <2>0, <2>2
      <3>2. CASE m = stack[n].next
        BY <1>0, <1>1, <2>2, <3>2 DEF NextDep
      <3>3. CASE m < stack[n].next
        BY <1>0, <1>1, <1>4, <2>2, <3>3 DEF PassedInv, n
      <3>. QED  BY <3>1, <3>2, <3>3
    <2>. QED  BY <1>1, <2>1, <2>2
  <1>5. PassedInv'
    BY <1>1, <1>2, <1>4 DEF PassedInv, Returns, Members, InDeps
  <1>. QED  BY <1>3, <1>5

LEMMA EntersPath ==
  ASSUME IInv, InDeps, MoreDeps, Enters(NextDep, Advanced), UNCHANGED <<deps, built, phase>>
  PROVE  PathInv' /\ PassedInv'
  <1>. DEFINE n == Len(stack)
  <1>0. /\ Typed /\ PathInv /\ PassedInv /\ NextDep \in Target /\ state[NextDep] = 0
        /\ \A i \in 1 .. n : NextDep \in Reachable({stack[i].target})
    BY DepIs DEF Enters
  <1>1. /\ Advanced \in Seq(Frame) /\ Len(Advanced) = n /\ n \in Nat \ {0}
        /\ \A i \in 1 .. n - 1 : Advanced[i] = stack[i]
        /\ Advanced[n].target = stack[n].target /\ Advanced[n].next = stack[n].next + 1
        /\ stack[n].next \in Nat \ {0} /\ Last = stack[n]
    BY <1>0, AdvancedIs DEF InDeps, Typed
  <1>2. /\ [target |-> NextDep, next |-> 1] \in Frame
        /\ [target |-> NextDep, next |-> 1].target = NextDep
        /\ [target |-> NextDep, next |-> 1].next = 1
    BY <1>0 DEF Frame
  <1>3. /\ Len(stack') = n + 1
        /\ \A i \in 1 .. n : stack'[i] = Advanced[i]
        /\ stack'[n + 1].target = NextDep /\ stack'[n + 1].next = 1
    <2>. HIDE DEF n, NextDep
    <2>. QED  BY <1>1, <1>2, AppendProperties DEF Enters
  <1>. HIDE DEF n
  <1>4. /\ \A i \in 1 .. n : stack'[i].target = stack[i].target /\ stack[i].target # NextDep
        /\ \A i \in 1 .. n + 1 : i \in 1 .. n \/ i = n + 1
    <2>1. \A i \in 1 .. n : stack[i].target # NextDep
      BY <1>0 DEF PathInv, n
    <2>. QED  BY <1>1, <1>3, <2>1
  <1>5. PathInv'
    <2>1. \A i, j \in 1 .. n + 1 : stack'[i].target = stack'[j].target => i = j
      BY <1>0, <1>3, <1>4 DEF PathInv, n
    <2>2. \A t \in Target : state'[t] = 1 <=> \E i \in 1 .. n + 1 : stack'[i].target = t
      <3>1. ASSUME NEW t \in Target, t # NextDep
            PROVE  state'[t] = 1 <=> \E i \in 1 .. n + 1 : stack'[i].target = t
        <4>1. state'[t] = state[t]
          BY <3>1 DEF Enters
        <4>2. state[t] = 1 <=> \E i \in 1 .. n : stack[i].target = t
          BY <1>0 DEF PathInv, n
        <4>3. 1 .. n \subseteq 1 .. n + 1
          BY <1>1
        <4>. QED  BY <1>3, <1>4, <3>1, <4>1, <4>2, <4>3
      <3>2. state'[NextDep] = 1 /\ n + 1 \in 1 .. n + 1
        BY <1>0, <1>1 DEF Enters, Typed
      <3>. QED  BY <1>3, <3>1, <3>2
    <2>3. ASSUME NEW i \in 1 .. n + 1, NEW j \in 1 .. n + 1, i < j
          PROVE  stack'[j].target \in Reachable({stack'[i].target})
      <3>1. i \in 1 .. n
        BY <1>1, <2>3
      <3>2. CASE j = n + 1
        BY <1>0, <1>3, <1>4, <3>1, <3>2
      <3>3. CASE j \in 1 .. n
        BY <1>0, <1>4, <2>3, <3>1, <3>3 DEF PathInv, n
      <3>. QED  BY <1>4, <3>2, <3>3
    <2>. QED  BY <1>3, <2>1, <2>2, <2>3, ReachableKept DEF PathInv
  <1>6. ASSUME NEW i \in 1 .. n + 1, NEW m \in DOMAIN deps[stack'[i].target], m < stack'[i].next
        PROVE  \/ deps[stack'[i].target][m] \in Members(built)
               \/ i < n + 1 /\ deps[stack'[i].target][m] = stack'[i + 1].target
    <2>1. CASE i \in 1 .. n - 1
      <3>1. i \in 1 .. n /\ i + 1 \in 1 .. n /\ i < n /\ i < n + 1
        BY <1>1, <2>1
      <3>. QED  BY <1>0, <1>1, <1>3, <1>4, <1>6, <2>1, <3>1 DEF PassedInv, n
    <2>2. CASE i = n
      <3>0. n \in 1 .. n /\ n < n + 1 /\ ~(n < n)
        BY <1>1
      <3>4. m \in Nat /\ m < stack[n].next + 1
        BY <1>0, <1>1, <1>3, <1>4, <1>6, <2>2, <3>0, FrameType DEF n
      <3>1. m < stack[n].next \/ m = stack[n].next
        BY <1>1, <3>4
      <3>2. CASE m = stack[n].next
        BY <1>1, <1>3, <1>4, <2>2, <3>0, <3>2 DEF NextDep
      <3>3. CASE m < stack[n].next
        BY <1>0, <1>1, <1>3, <1>4, <1>6, <2>2, <3>0, <3>3 DEF PassedInv, n
      <3>. QED  BY <3>1, <3>2, <3>3
    <2>3. CASE i = n + 1
      <3>1. m < 1 /\ m \in DOMAIN deps[NextDep] /\ deps[NextDep] \in Seq(Target)
        BY <1>0, <1>3, <1>6, <2>3 DEF Typed
      <3>. QED  BY <3>1
    <2>. QED  BY <1>1, <2>1, <2>2, <2>3
  <1>7. PassedInv'
    BY <1>3, <1>6 DEF PassedInv, Members, InDeps
  <1>. QED  BY <1>5, <1>7

\* The top of the stack when its dependencies are built.
LEMMA LinkIs ==
  ASSUME IInv, stack # <<>>, ~MoreDeps
  PROVE  /\ Typed /\ PathInv /\ PassedInv /\ Last.target \in Target
         /\ Len(stack) \in Nat \ {0} /\ Last = stack[Len(stack)]
         /\ Last.target \notin Members(built)
         /\ deps[Last.target] \in Seq(Target) /\ Members(deps[Last.target]) \subseteq Members(built)
  <1>1. Typed /\ PathInv /\ PassedInv
    BY TypedIs DEF IInv
  <1>2. /\ Last.target \in Target /\ Len(stack) \in Nat \ {0} /\ Last = stack[Len(stack)]
        /\ Len(stack) \in 1 .. Len(stack) /\ Last.next \in Nat \ {0}
    BY <1>1, AdvancedIs DEF Typed
  <1>3. state[Last.target] = 1
    BY <1>1, <1>2 DEF PathInv
  <1>4. Last.target \notin Members(built)
    BY <1>2, <1>3 DEF IInv, BuiltInv
  <1>5. ASSUME NEW m \in DOMAIN deps[Last.target] PROVE deps[Last.target][m] \in Members(built)
    <2>1. m < Last.next
      <3>1. DOMAIN deps[Last.target] = 1 .. Len(deps[Last.target]) /\ Len(deps[Last.target]) \in Nat
        BY <1>1, <1>2 DEF Typed
      <3>. QED  BY <1>2, <1>5, <3>1 DEF MoreDeps
    <2>. QED  BY <1>1, <1>2, <1>5, <2>1 DEF PassedInv
  <1>6. deps[Last.target] \in Seq(Target)
    BY <1>1, <1>2 DEF Typed
  <1>. QED  BY <1>1, <1>2, <1>4, <1>5, <1>6 DEF Members

\* In the link closure.
LEMMA InLinkIs ==
  ASSUME IInv, phase = "link"
  PROVE  stack # <<>> /\ ~MoreDeps /\ Typed
  BY TypedIs DEF IInv, PassedInv

LEMMA BuildsPath ==
  ASSUME IInv, BuildTarget
  PROVE  /\ PathInv' /\ PassedInv' /\ Members(built') = Members(built) \cup {Last.target}
  <1>. DEFINE n == Len(stack)
  <1>0. /\ Typed /\ PathInv /\ PassedInv /\ Last.target \in Target /\ n \in Nat \ {0}
        /\ Last = stack[n] /\ UNCHANGED deps
    BY InLinkIs, LinkIs DEF BuildTarget, InLink, input
  <1>1. Len(stack') = n - 1 /\ \A i \in 1 .. n - 1 : stack'[i] = stack[i]
    BY <1>0, BelowIs DEF BuildTarget, InLink, Typed
  <1>2. Members(built') = Members(built) \cup {Last.target}
    BY <1>0, MembersAppend DEF BuildTarget, Typed
  <1>. HIDE DEF n
  <1>3. n \in 1 .. n /\ \A i \in 1 .. n - 1 : i \in 1 .. n /\ i < n /\ i # n /\ i + 1 \in 1 .. n
    BY <1>0
  <1>4. PathInv'
    <2>1. ASSUME NEW t \in Target PROVE state'[t] = 1 <=> \E i \in 1 .. n - 1 : stack'[i].target = t
      <3>1. CASE t = Last.target
        <4>1. state'[t] = 2
          BY <1>0, <3>1 DEF BuildTarget, Typed
        <4>. QED  BY <1>0, <1>1, <1>3, <3>1, <4>1 DEF PathInv, n
      <3>2. CASE t # Last.target
        <4>1. state'[t] = state[t]
          BY <3>2 DEF BuildTarget
        <4>2. state[t] = 1 <=> \E i \in 1 .. n : stack[i].target = t
          BY <1>0 DEF PathInv, n
        <4>3. \A i \in 1 .. n : i = n \/ i \in 1 .. n - 1
          BY <1>0
        <4>. QED  BY <1>0, <1>1, <1>3, <3>2, <4>1, <4>2, <4>3
      <3>. QED  BY <3>1, <3>2
    <2>2. Len(stack') = n - 1 /\ 1 .. n - 1 \subseteq 1 .. n
      BY <1>1, <1>3
    <2>3. \A i, j \in 1 .. n - 1 : stack'[i].target = stack'[j].target => i = j
      BY <1>0, <1>1, <2>2 DEF PathInv, n
    <2>4. \A i, j \in 1 .. n - 1 : i < j => stack'[j].target \in Reachable({stack'[i].target})
      BY <1>0, <1>1, <2>2 DEF PathInv, n
    <2>. QED  BY <1>0, <2>1, <2>2, <2>3, <2>4, ReachableKept DEF PathInv
  <1>5. ASSUME NEW i \in 1 .. n - 1, NEW m \in DOMAIN deps[stack[i].target], m < stack[i].next
        PROVE  \/ deps[stack[i].target][m] \in Members(built')
               \/ i < n - 1 /\ deps[stack[i].target][m] = stack'[i + 1].target
    <2>1. \/ deps[stack[i].target][m] \in Members(built)
          \/ deps[stack[i].target][m] = stack[i + 1].target
      BY <1>0, <1>3, <1>5 DEF PassedInv, n
    <2>2. i + 1 = n \/ (i < n - 1 /\ i + 1 \in 1 .. n - 1)
      BY <1>0, <1>5
    <2>. QED  BY <1>0, <1>1, <1>2, <2>1, <2>2
  <1>6. PassedInv'
    <2>1. phase' = "deps" /\ 1 .. Len(stack') = 1 .. n - 1 /\ Members(built)' = Members(built')
      BY <1>1 DEF BuildTarget, Members
    <2>. QED  BY <1>0, <1>1, <1>5, <2>1 DEF PassedInv
  <1>. QED  BY <1>2, <1>4, <1>6

\* The first call for a goal.
LEMMA GoalPath ==
  ASSUME IInv, VisitGoal
  PROVE  PathInv' /\ PassedInv'
  <1>0. Typed /\ PathInv /\ UNCHANGED <<deps, built>> /\ Len(stack) = 0 /\ phase' = "deps"
    BY TypedIs DEF IInv, VisitGoal, input
  <1>1. CASE UNCHANGED <<stack, state>>
    BY <1>0, <1>1 DEF PathInv, PassedInv
  <1>2. CASE Enters(Head(goals), stack)
    <2>0. Head(goals) \in Target /\ stack = <<>>
      BY <1>0, MembersTail DEF VisitGoal, Typed
    <2>1. stack' = <<[target |-> Head(goals), next |-> 1]>>
      BY <1>2, <2>0 DEF Enters
    <2>2. Len(stack') = 1 /\ stack'[1].target = Head(goals) /\ stack'[1].next = 1
      BY <2>1
    <2>3. PathInv'
      <3>1. \A t \in Target : state'[t] = 1 <=> t = Head(goals)
        BY <1>0, <1>2, <2>0 DEF PathInv, Enters, Typed
      <3>2. 1 .. Len(stack') = {1}
        BY <2>2
      <3>. QED  BY <2>2, <3>1, <3>2 DEF PathInv
    <2>4. PassedInv'
      <3>1. \A i \in 1 .. Len(stack') : i = 1
        BY <2>2
      <3>2. deps[Head(goals)] \in Seq(Target)
        BY <1>0, <2>0 DEF Typed
      <3>3. \A m \in DOMAIN deps[Head(goals)] : ~(m < 1)
        BY <3>2
      <3>. QED  BY <1>0, <2>2, <3>1, <3>3 DEF PassedInv
    <2>. QED  BY <2>3, <2>4
  <1>. QED  BY <1>1, <1>2 DEF VisitGoal, Visit, Enters

LEMMA NextStack == IInv /\ [Next]_vars => PathInv' /\ PassedInv'
  <1>. SUFFICES ASSUME IInv, [Next]_vars PROVE PathInv' /\ PassedInv'
    OBVIOUS
  <1>1. CASE VisitGoal
    BY <1>1, GoalPath
  <1>2. CASE VisitDep /\ InDeps /\ MoreDeps /\ (Returns(NextDep, Advanced) \/ Enters(NextDep, Advanced))
    BY <1>2, ReturnsPath, EntersPath DEF VisitDep, input
  <1>3. CASE BuildTarget
    BY <1>3, BuildsPath
  <1>4. CASE LinkPush /\ Head(todo) \in Members(built)
    <2>1. UNCHANGED <<deps, stack, state, built, phase>>
      BY <1>4 DEF LinkPush, input
    <2>. QED  BY <2>1, ReachableKept DEF IInv, PathInv, PassedInv, MoreDeps, Last, Members
  <1>5. CASE Stays
    <2>1. UNCHANGED <<deps, stack, state, built>>
      BY <1>5 DEF Stays
    <2>2. phase' = phase \/ (stack # <<>> /\ ~MoreDeps) \/ phase' = "deps"
      BY <1>5 DEF Next, VisitGoal, AllBuilt, VisitDep, Cycle, StartClosure, LinkSeen, NotLibrary,
         LinkPush, BuildTarget, BuildFails, Die, InDeps, vars
    <2>. QED  BY <2>1, <2>2, ReachableKept DEF IInv, PathInv, PassedInv, MoreDeps, Last, Members
  <1>. QED  BY <1>1, <1>2, <1>3, <1>4, <1>5, Actions

-----------------------------------------------------------------------------
(* What is built. *)

\* A step that builds nothing.
LEMMA BuiltSame ==
  ASSUME BuiltInv, UNCHANGED <<deps, built>>,
         \A t \in Target : state'[t] = 2 <=> state[t] = 2,
         phase' = "link" => Members(todo') \subseteq Members(built),
         status' = "internal" => status = "internal"
  PROVE  BuiltInv'
  BY DEF BuiltInv, DependenciesFirst

\* Of two targets that are built the one linked was first.
LEMMA BuiltClosed ==
  ASSUME Typed, DependenciesFirst
  PROVE  /\ \A t \in Members(built) : Members(deps[t]) \subseteq Members(built)
         /\ Members(built) \subseteq Target
  <1>0. DOMAIN built = 1 .. Len(built) /\ Len(built) \in Nat /\ Members(built) \subseteq Target
    BY DEF Typed, Members
  <1>1. ASSUME NEW k \in 1 .. Len(built), NEW d \in Members(deps[built[k]])
        PROVE  d \in Members(built)
    <2>1. PICK i \in 1 .. k - 1 : built[i] = d
      BY <1>0, <1>1 DEF DependenciesFirst
    <2>2. i \in 1 .. Len(built)
      BY <1>0, <2>1
    <2>. QED  BY <1>0, <2>1, <2>2 DEF Members
  <1>2. \A t \in Members(built) : \E k \in 1 .. Len(built) : built[k] = t
    BY <1>0 DEF Members
  <1>. QED  BY <1>0, <1>1, <1>2

LEMMA NextBuiltInv == IInv /\ [Next]_vars => BuiltInv'
  <1>. SUFFICES ASSUME IInv, [Next]_vars PROVE BuiltInv'
    OBVIOUS
  <1>0. /\ Typed /\ BuiltInv /\ DependenciesFirst /\ UNCHANGED deps
        /\ DOMAIN built = 1 .. Len(built) /\ Len(built) \in Nat
    <2>1. UNCHANGED deps
      BY DEF Next, VisitGoal, AllBuilt, VisitDep, Cycle, StartClosure, LinkSeen, NotLibrary,
         LinkPush, BuildTarget, BuildFails, Die, vars, input
    <2>. QED  BY <2>1, TypedIs DEF IInv, BuiltInv, Typed
  <1>1. ASSUME NEW t \in Target, NEW callers, Returns(t, callers) \/ Enters(t, callers),
               UNCHANGED <<built, status>>, phase' # "link"
        PROVE  BuiltInv'
    <2>1. \A u \in Target : state'[u] = 2 <=> state[u] = 2
      BY <1>0, <1>1 DEF Returns, Enters, Typed
    <2>. QED  BY <1>0, <1>1, <2>1, BuiltSame
  <1>2. CASE VisitGoal
    <2>1. Head(goals) \in Target
      BY <1>0, <1>2, MembersTail DEF VisitGoal, Typed
    <2>. QED  BY <1>1, <1>2, <2>1 DEF VisitGoal, Visit, Returns, Enters
  <1>3. CASE VisitDep /\ InDeps /\ MoreDeps /\ (Returns(NextDep, Advanced) \/ Enters(NextDep, Advanced))
    BY <1>1, <1>3, DepIs DEF VisitDep, InDeps
  <1>4. \A t \in Members(built) : Members(deps[t]) \subseteq Members(built)
    BY <1>0, BuiltClosed
  <1>5. CASE LinkPush /\ Head(todo) \in Members(built)
    <2>1. /\ phase = "link" /\ todo # <<>> /\ todo' = deps[Head(todo)] \o Tail(todo)
          /\ UNCHANGED <<state, phase, built, status>>
      BY <1>5 DEF LinkPush, InLink
    <2>2. /\ Tail(todo) \in Seq(Target) /\ Members(Tail(todo)) \subseteq Members(todo)
          /\ deps[Head(todo)] \in Seq(Target)
      BY <1>0, <2>1, MembersTail DEF Typed
    <2>3. Members(todo') \subseteq Members(built)
      <3>1. Members(todo') = Members(deps[Head(todo)]) \cup Members(Tail(todo))
        BY <2>1, <2>2, MembersConcat
      <3>2. Members(todo) \subseteq Members(built)
        BY <1>0, <2>1 DEF BuiltInv
      <3>. QED  BY <1>4, <1>5, <2>2, <3>1, <3>2
    <2>. QED  BY <1>0, <2>1, <2>3, BuiltSame
  <1>6. CASE BuildTarget
    <2>1. /\ Last.target \in Target /\ Last.target \notin Members(built)
          /\ Members(deps[Last.target]) \subseteq Members(built)
          /\ phase' = "deps" /\ UNCHANGED status /\ status = "run"
      BY <1>6, InLinkIs, LinkIs DEF BuildTarget, InLink
    <2>2. /\ built' = Append(built, Last.target) /\ Members(built') = Members(built) \cup {Last.target}
          /\ state' = [state EXCEPT ![Last.target] = 2]
      BY <1>6, BuildsPath DEF BuildTarget
    <2>3. \A u \in Target : state'[u] = 2 <=> u \in Members(built')
      BY <1>0, <2>1, <2>2 DEF BuiltInv, Typed
    <2>4. /\ DOMAIN built' = 1 .. Len(built) + 1 /\ built'[Len(built) + 1] = Last.target
          /\ \A i \in 1 .. Len(built) : built'[i] = built[i]
      BY <1>0, <2>1, <2>2, AppendProperties DEF Typed
    <2>5. ASSUME NEW k \in 1 .. Len(built) + 1
          PROVE  /\ \A i \in 1 .. Len(built) + 1 : i # k => built'[i] # built'[k]
                 /\ \A t \in Members(deps[built'[k]]) : \E i \in 1 .. k - 1 : built'[i] = t
      <3>1. CASE k = Len(built) + 1
        <4>1. \A i \in 1 .. Len(built) : built[i] # Last.target
          BY <1>0, <2>1 DEF Members
        <4>2. \A t \in Members(built) : \E i \in 1 .. Len(built) : built[i] = t
          BY <1>0 DEF Members
        <4>3. k - 1 = Len(built) /\ \A i \in 1 .. Len(built) + 1 : i # k => i \in 1 .. Len(built)
          BY <1>0, <3>1
        <4>. QED  BY <2>1, <2>4, <3>1, <4>1, <4>2, <4>3
      <3>2. CASE k \in 1 .. Len(built)
        <4>1. /\ \A i \in 1 .. Len(built) : i # k => built[i] # built[k]
              /\ \A t \in Members(deps[built[k]]) : \E i \in 1 .. k - 1 : built[i] = t
          BY <1>0, <3>2 DEF DependenciesFirst
        <4>2. \A i \in 1 .. k - 1 : i \in 1 .. Len(built)
          BY <1>0, <3>2
        <4>3. built'[k] = built[k] /\ built[k] \in Members(built)
          BY <1>0, <2>4, <3>2 DEF Members
        <4>4. \A i \in 1 .. Len(built) + 1 : i \in 1 .. Len(built) \/ i = Len(built) + 1
          BY <1>0
        <4>. QED  BY <2>1, <2>4, <4>1, <4>2, <4>3, <4>4
      <3>3. k = Len(built) + 1 \/ k \in 1 .. Len(built)
        BY <1>0, <2>5
      <3>. QED  BY <3>1, <3>2, <3>3
    <2>6. DependenciesFirst'
      BY <1>0, <2>1, <2>4, <2>5 DEF DependenciesFirst
    <2>. QED  BY <2>1, <2>3, <2>6 DEF BuiltInv
  <1>7. CASE Stays
    <2>0. UNCHANGED <<stack, state, built>>
      BY <1>7 DEF Stays
    <2>1. status' = "internal" => status = "internal"
      <3>1. phase = "link" /\ todo # <<>> => Head(todo) \in Members(built)
        BY <1>0, MembersTail DEF BuiltInv, Typed
      <3>. QED
        BY <3>1 DEF Next, VisitGoal, AllBuilt, VisitDep, Cycle, StartClosure, LinkSeen, NotLibrary,
           LinkPush, BuildTarget, BuildFails, Die, InLink, vars
    <2>2. phase' = "link" => Members(todo') \subseteq Members(built)
      <3>1. CASE StartClosure
        BY <3>1, LinkIs DEF StartClosure, InDeps
      <3>2. CASE LinkSeen
        BY <1>0, <3>2, MembersTail DEF LinkSeen, InLink, BuiltInv, Typed
      <3>3. CASE UNCHANGED <<phase, todo>>
        BY <1>0, <3>3 DEF BuiltInv
      <3>4. phase' # "link" \/ StartClosure \/ LinkSeen \/ UNCHANGED <<phase, todo>> \/ (LinkPush /\ Head(todo) \in Members(built))
        BY DEF Next, VisitGoal, AllBuilt, VisitDep, Cycle, NotLibrary, LinkPush, BuildTarget,
           BuildFails, Die, vars
      <3>5. CASE LinkPush /\ Head(todo) \in Members(built)
        BY <1>5, <2>0, <3>5 DEF BuiltInv
      <3>. QED  BY <3>1, <3>2, <3>3, <3>4, <3>5
    <2>. QED  BY <1>0, <2>0, <2>1, <2>2, BuiltSame
  <1>. QED  BY <1>2, <1>3, <1>5, <1>6, <1>7, Actions


-----------------------------------------------------------------------------
(* What is linked. *)

\* A step that links nothing to a target that is built.
LEMMA ClosureKept ==
  ASSUME ClosureComplete, UNCHANGED <<deps, built>>,
         \A t \in Members(built) : links'[t] = links[t]
  PROVE  ClosureComplete'
  <1>1. Members(built)' = Members(built) /\ \A t \in Members(built) :
          Members(links[t])' = Members(links[t]) /\ (Distinct(links[t]))' = Distinct(links[t])
    BY DEF Members, Distinct
  <1>. QED  BY <1>1, ReachableKept DEF ClosureComplete

\* A step outside of the link closure.
LEMMA LinkSame ==
  ASSUME LinkInv, UNCHANGED <<deps, built, links>>, phase # "link", phase' # "link"
  PROVE  LinkInv'
  <1>1. ClosureComplete'
    BY ClosureKept DEF LinkInv
  <1>. QED  BY <1>1 DEF LinkInv, Members

LEMMA StartsLinking ==
  ASSUME IInv, StartClosure
  PROVE  LinkInv'
  <1>. DEFINE t == Last.target
  <1>0. /\ Typed /\ LinkInv /\ t \in Target /\ t \notin Members(built)
        /\ UNCHANGED <<deps, built, links, stack>> /\ phase = "deps" /\ phase' = "link"
        /\ todo' = deps[t]
    BY LinkIs DEF IInv, StartClosure, InDeps, input
  <1>1. links[t] = <<>>
    BY <1>0 DEF LinkInv
  <1>2. ClosureComplete'
    BY <1>0, ClosureKept DEF LinkInv
  <1>3. Members(<<>>) = {} /\ Distinct(<<>>)
    BY DEF Members, Distinct
  <1>4. Members(deps[t]) \subseteq Reachable({t}) /\ Uses({t}) = Members(deps[t])
    BY <1>0, ReachableDirect DEF Typed, Uses
  <1>5. Linking'
    <2>1. /\ Last' = Last /\ links'[t] = <<>> /\ todo' = deps[t] /\ Reachable({t})' = Reachable({t})
          /\ Uses({t})' = Uses({t})
      BY <1>0, <1>1, ReachableKept DEF Last, Uses
    <2>2. /\ Members(links[Last.target])' = {} /\ Members(todo)' = Members(deps[t])
          /\ Distinct(links[Last.target])'
      BY <1>3, <2>1 DEF Members, Distinct
    <2>. QED  BY <1>4, <2>1, <2>2 DEF Linking
  <1>. QED  BY <1>0, <1>2, <1>5 DEF LinkInv, Members, Last

\* A call of the link closure: what it has found so far is given by `linked`,
\* the outputs the target has now, and `left`, the calls still to be made.
LEMMA GoesOnLinking ==
  ASSUME LinkInv, Typed, NEW t \in Target, t = Last.target, t \notin Members(built),
         UNCHANGED <<deps, built, stack>>, phase' = "link",
         links'[t] \in Seq(Target), Distinct(links'[t]),
         \A u \in Target \ {t} : links'[u] = links[u], phase = "link",
         Members(links'[t]) \cup Members(todo') \subseteq Reachable({t}),
         Uses({t} \cup Members(links'[t])) \subseteq Members(links'[t]) \cup Members(todo')
  PROVE  LinkInv'
  <1>1. Members(built) \subseteq Target
    BY DEF Typed, Members
  <1>2. ClosureComplete'
    BY <1>1, ClosureKept DEF LinkInv
  <1>3. /\ Last' = Last /\ Reachable({t})' = Reachable({t})
        /\ Uses({t} \cup Members(links[t]))' = Uses({t} \cup Members(links'[t]))
        /\ Members(links[t])' = Members(links'[t]) /\ Members(todo)' = Members(todo')
        /\ Distinct(links[t])' = Distinct(links'[t]) /\ Members(built)' = Members(built)
    BY ReachableKept DEF Last, Uses, Members, Distinct
  <1>4. Linking'
    <2>1. Last'.target = t
      BY <1>3
    <2>2. Distinct(links[Last.target])'
      BY <2>1 DEF Distinct
    <2>3. (Members(links[Last.target]) \cup Members(todo))' = Members(links'[t]) \cup Members(todo')
      BY <2>1 DEF Members
    <2>4. /\ Uses({Last.target} \cup Members(links[Last.target]))' = Uses({t} \cup Members(links'[t]))
          /\ Reachable({Last.target})' = Reachable({t})
      BY <2>1, ReachableKept DEF Uses, Members
    <2>. QED  BY <2>2, <2>3, <2>4 DEF Linking
  <1>. QED  BY <1>2, <1>3, <1>4 DEF LinkInv

LEMMA SeenKeeps ==
  ASSUME IInv, LinkSeen
  PROVE  LinkInv'
  <1>. DEFINE t == Last.target
  <1>0. /\ Typed /\ LinkInv /\ Linking /\ t \in Target /\ t \notin Members(built)
        /\ UNCHANGED <<deps, built, links, stack>> /\ phase = "link" /\ phase' = "link"
    BY InLinkIs, LinkIs DEF IInv, LinkInv, LinkSeen, InLink, input
  <1>1. /\ todo' = Tail(todo) /\ Head(todo) \in Members(links[t])
        /\ Members(todo) = {Head(todo)} \cup Members(todo')
    BY <1>0, MembersTail DEF LinkSeen, Seen, Typed
  <1>2. Members(links[t]) \cup Members(todo) = Members(links[t]) \cup Members(todo')
    BY <1>1
  <1>. HIDE DEF t
  <1>3. /\ Distinct(links[t]) /\ Members(links[t]) \cup Members(todo) \subseteq Reachable({t})
        /\ Uses({t} \cup Members(links[t])) \subseteq Members(links[t]) \cup Members(todo)
    BY <1>0 DEF Linking, t
  <1>4. links'[t] = links[t] /\ links[t] \in Seq(Target)
    BY <1>0 DEF Typed
  <1>. QED  BY <1>0, <1>2, <1>3, <1>4, GoesOnLinking DEF t

LEMMA PushKeeps ==
  ASSUME IInv, LinkPush, Head(todo) \in Members(built)
  PROVE  LinkInv'
  <1>. DEFINE t == Last.target
              h == Head(todo)
  <1>0. /\ Typed /\ LinkInv /\ Linking /\ t \in Target /\ t \notin Members(built)
        /\ UNCHANGED <<deps, built, stack>> /\ phase = "link" /\ phase' = "link"
    BY InLinkIs, LinkIs DEF IInv, LinkInv, LinkPush, InLink, input
  <1>1. /\ links' = Pushed /\ h \notin Members(links[t]) /\ todo # <<>>
        /\ todo' = deps[h] \o Tail(todo)
    BY DEF LinkPush, Seen
  <1>2. /\ h \in Target /\ Tail(todo) \in Seq(Target) /\ deps[h] \in Seq(Target)
        /\ Members(todo) = {h} \cup Members(Tail(todo)) /\ links[t] \in Seq(Target)
    BY <1>0, <1>1, MembersTail DEF Typed
  <1>3. links'[t] = Append(links[t], h) /\ \A u \in Target \ {t} : links'[u] = links[u]
    BY <1>0, <1>1 DEF Pushed, Typed
  <1>. HIDE DEF t, h
  <1>4. /\ Distinct(links[t]) /\ Members(links[t]) \cup Members(todo) \subseteq Reachable({t})
        /\ Uses({t} \cup Members(links[t])) \subseteq Members(links[t]) \cup Members(todo)
    BY <1>0 DEF Linking, t
  <1>5. /\ links'[t] \in Seq(Target) /\ Distinct(links'[t])
        /\ Members(links'[t]) = Members(links[t]) \cup {h}
    BY <1>1, <1>2, <1>3, <1>4, MembersAppend, AppendProperties
  <1>6. Members(todo') = Members(deps[h]) \cup Members(Tail(todo))
    <2>1. \A s, r \in Seq(Target) : Members(s \o r) = Members(s) \cup Members(r)
      BY MembersConcat
    <2>. QED  BY <1>1, <1>2, <2>1, Zenon
  <1>7. Members(deps[h]) \subseteq Reachable({t})
    BY <1>0, <1>2, <1>4, ReachableTransitive DEF Typed
  <1>8. Members(links'[t]) \cup Members(todo') \subseteq Reachable({t})
    BY <1>2, <1>4, <1>5, <1>6, <1>7
  <1>9. Uses({t} \cup Members(links'[t])) = Uses({t} \cup Members(links[t])) \cup Members(deps[h])
    BY <1>5 DEF Uses
  <1>10. Uses({t} \cup Members(links'[t])) \subseteq Members(links'[t]) \cup Members(todo')
    BY <1>2, <1>4, <1>5, <1>6, <1>9
  <1>. QED  BY <1>0, <1>3, <1>5, <1>8, <1>10, GoesOnLinking DEF t

LEMMA BuildKeeps ==
  ASSUME IInv, BuildTarget
  PROVE  LinkInv'
  <1>. DEFINE t == Last.target
  <1>0. /\ Typed /\ LinkInv /\ Linking /\ t \in Target
        /\ UNCHANGED <<deps, links>> /\ phase' = "deps" /\ todo = <<>>
    BY InLinkIs, LinkIs DEF IInv, LinkInv, BuildTarget, InLink, input
  <1>1. Members(built)' = Members(built) \cup {t}
    BY BuildsPath DEF Members
  <1>2. Members(todo) = {}
    BY <1>0 DEF Members
  <1>. HIDE DEF t
  <1>3. /\ Distinct(links[t]) /\ Members(links[t]) \subseteq Reachable({t})
        /\ Uses({t} \cup Members(links[t])) \subseteq Members(links[t])
    BY <1>0, <1>2 DEF Linking, t
  <1>4. Members(links[t]) \in SUBSET Target
    BY <1>0, <1>3, ReachableDirect DEF Typed
  <1>5. /\ Uses({t}) \subseteq Members(links[t])
        /\ Uses(Members(links[t])) \subseteq Members(links[t])
    BY <1>3 DEF Uses
  <1>6. Members(links[t]) = Reachable({t})
    BY <1>3, <1>4, <1>5, ReachableLeast
  <1>7. \A u : Members(links[u])' = Members(links[u]) /\ Distinct(links[u])' = Distinct(links[u])
    BY <1>0 DEF Members, Distinct
  <1>8. ClosureComplete'
    BY <1>0, <1>1, <1>3, <1>6, <1>7, ReachableKept DEF LinkInv, ClosureComplete
  <1>9. \A u \in Target : u \in Members(built)' \/ links'[u] = <<>>
    BY <1>0, <1>1 DEF LinkInv, t
  <1>. QED  BY <1>0, <1>8, <1>9 DEF LinkInv

LEMMA NextLinkInv == IInv /\ [Next]_vars => LinkInv'
  <1>. SUFFICES ASSUME IInv, [Next]_vars PROVE LinkInv'
    OBVIOUS
  <1>0. LinkInv /\ phase \in {"deps", "link"}
    BY DEF IInv, TypeOK
  <1>1. CASE VisitGoal
    <2>1. phase # "link"
      BY <1>1 DEF VisitGoal, IInv, PassedInv
    <2>. QED  BY <1>0, <1>1, <2>1, LinkSame DEF VisitGoal, input
  <1>2. CASE VisitDep
    BY <1>0, <1>2, LinkSame DEF VisitDep, InDeps, input
  <1>3. CASE StartClosure
    BY <1>3, StartsLinking
  <1>4. CASE LinkSeen
    BY <1>4, SeenKeeps
  <1>5. CASE LinkPush /\ Head(todo) \in Members(built)
    BY <1>5, PushKeeps
  <1>6. CASE BuildTarget
    BY <1>6, BuildKeeps
  <1>7. CASE UNCHANGED <<deps, stack, built, links, todo, phase>>
    <2>1. CASE phase # "link"
      BY <1>0, <1>7, <2>1, LinkSame
    <2>2. CASE phase = "link"
      <3>. DEFINE t == Last.target
      <3>1. /\ Typed /\ Linking /\ t \in Target /\ t \notin Members(built)
        BY <1>0, <2>2, InLinkIs, LinkIs DEF LinkInv
      <3>. HIDE DEF t
      <3>2. /\ Distinct(links[t]) /\ Members(links[t]) \cup Members(todo) \subseteq Reachable({t})
            /\ Uses({t} \cup Members(links[t])) \subseteq Members(links[t]) \cup Members(todo)
        BY <3>1 DEF Linking, t
      <3>3. links'[t] = links[t] /\ links[t] \in Seq(Target) /\ todo' = todo
        BY <1>7, <3>1 DEF Typed
      <3>. QED  BY <1>0, <1>7, <2>2, <3>1, <3>2, <3>3, GoesOnLinking DEF t
    <2>. QED  BY <2>1, <2>2
  <1>8. CASE Cycle
    BY <1>7, <1>8 DEF Cycle, Die, input
  <1>9. CASE Stays /\ UNCHANGED <<phase, todo>>
    BY <1>7, <1>9 DEF Stays
  <1>. QED  BY <1>1, <1>2, <1>3, <1>4, <1>5, <1>6, <1>8, <1>9, Actions

-----------------------------------------------------------------------------
(* What is a cycle. *)

\* The targets built are closed under the links, and a target that is about to
\* be built is none of them although all that it links are: it reaches itself
\* by nothing.
LEMMA BuildsAcyclic ==
  ASSUME IInv, BuildTarget
  PROVE  ~Cyclic(Last.target)
  <1>. DEFINE t == Last.target
              C == Members(built)
  <1>1. /\ Typed /\ t \notin C /\ Members(deps[t]) \subseteq C /\ DependenciesFirst
    BY InLinkIs, LinkIs DEF IInv, BuiltInv, BuildTarget, InLink
  <1>2. C \in SUBSET Target /\ \A u \in C : Members(deps[u]) \subseteq C
    BY <1>1, BuiltClosed
  <1>. HIDE DEF t, C
  <1>3. Uses({t}) \subseteq C /\ Uses(C) \subseteq C
    BY <1>1, <1>2 DEF Uses
  <1>4. Reachable({t}) \subseteq C
    BY <1>2, <1>3, ReachableLeast
  <1>. QED  BY <1>1, <1>4 DEF Cyclic, t

\* A dependency that is in progress is the target of a caller, and is reached
\* from it.
LEMMA CycleIsReal ==
  ASSUME IInv, Cycle
  PROVE  \E t \in Members(stack) : Cyclic(t.target)
  <1>1. /\ Typed /\ PathInv /\ NextDep \in Target /\ state[NextDep] = 1
        /\ \A i \in 1 .. Len(stack) : NextDep \in Reachable({stack[i].target})
    BY DepIs DEF Cycle
  <1>2. PICK k \in 1 .. Len(stack) : stack[k].target = NextDep
    BY <1>1 DEF PathInv
  <1>3. stack[k] \in Members(stack)
    BY <1>1 DEF Typed, Members
  <1>4. Cyclic(stack[k].target)
    BY <1>1, <1>2 DEF Cyclic
  <1>. QED  BY <1>3, <1>4

LEMMA NextCyclesFound == IInv /\ [Next]_vars => CyclesFound'
  <1>. SUFFICES ASSUME IInv, [Next]_vars PROVE CyclesFound'
    OBVIOUS
  <1>0. UNCHANGED deps /\ CyclesFound
    BY DEF Next, VisitGoal, AllBuilt, VisitDep, Cycle, StartClosure, LinkSeen, NotLibrary,
       LinkPush, BuildTarget, BuildFails, Die, vars, input, IInv
  <1>1. \A i, j \in DOMAIN stack' : stack'[i].target = stack'[j].target => i = j
    <2>1. DOMAIN stack' = 1 .. Len(stack')
      BY NextTyped DEF Typed
    <2>. QED  BY <2>1, NextStack DEF PathInv
  <1>2. \A t : Cyclic(t)' = Cyclic(t)
    BY <1>0, ReachableKept DEF Cyclic
  <1>3. status' = "cycle" => \E t \in Members(stack)' : Cyclic(t.target)
    <2>1. CASE Cycle
      <3>1. Members(stack)' = Members(stack)
        BY <2>1 DEF Cycle, Die, Members
      <3>. QED  BY <2>1, <3>1, CycleIsReal
    <2>2. CASE status' = "cycle" /\ ~Cycle
      <3>1. status = "cycle" /\ Members(stack)' = Members(stack)
        BY <2>2 DEF Next, VisitGoal, AllBuilt, VisitDep, StartClosure, LinkSeen, NotLibrary,
           LinkPush, BuildTarget, BuildFails, Die, vars, InDeps, InLink, Members
      <3>. QED  BY <1>0, <3>1 DEF CyclesFound
    <2>. QED  BY <2>1, <2>2
  <1>4. \A t \in Members(built)' : ~Cyclic(t)
    <2>1. CASE BuildTarget
      <3>1. Members(built)' = Members(built) \cup {Last.target}
        BY <2>1, BuildsPath DEF Members
      <3>. QED  BY <1>0, <2>1, <3>1, BuildsAcyclic DEF CyclesFound
    <2>2. CASE ~BuildTarget
      <3>1. Members(built)' = Members(built)
        BY <2>2 DEF Next, VisitGoal, AllBuilt, VisitDep, Cycle, StartClosure, LinkSeen, NotLibrary,
           LinkPush, BuildFails, Die, vars, Members
      <3>. QED  BY <1>0, <3>1 DEF CyclesFound
    <2>. QED  BY <2>1, <2>2
  <1>. QED  BY <1>1, <1>2, <1>3, <1>4 DEF CyclesFound

-----------------------------------------------------------------------------
LEMMA NextTypeOK == IInv /\ [Next]_vars => TypeOK'
  <1>. SUFFICES ASSUME IInv, [Next]_vars PROVE TypeOK'
    OBVIOUS
  <1>1. Typed' /\ PathInv'
    BY NextTyped, NextStack
  <1>2. Len(stack') <= Cardinality(Target)
    <2>1. stack' \in Seq(Frame) /\ DOMAIN stack' = 1 .. Len(stack')
      BY <1>1 DEF Typed
    <2>. QED  BY <1>1, <2>1, Bounded DEF PathInv
  <1>. QED  BY <1>1, <1>2 DEF Typed, TypeOK, Frame

LEMMA Invariance == Spec => []IInv
  <1>1. IInv /\ [Next]_vars => IInv'
    BY NextTypeOK, NextStack, NextBuiltInv, NextLinkInv, NextCyclesFound DEF IInv
  <1>. QED  BY InitIInv, <1>1, PTL DEF Spec

\* On every graph of finitely many targets, with or without cycles, no more
\* calls of compiler_build_target_graph are active than there are targets.
THEOREM TypeCorrect == Spec => []TypeOK
  <1>1. IInv => TypeOK
    BY DEF IInv
  <1>. QED  BY <1>1, Invariance, PTL

\* No target is built twice in a command, whatever its goals share, or before
\* what it links, and a link closure meets no target without an output
\* (cli.c:1149-1171).
THEOREM DependenciesFirstHolds == Spec => []DependenciesFirst
  <1>1. IInv => DependenciesFirst
    BY DEF IInv, BuiltInv
  <1>. QED  BY <1>1, Invariance, PTL

\* A command that dies of a cycle has a target in progress that is on one, and
\* no target that was built is on one: graph_state finds every cycle below the
\* goals and nothing else (cli.c:1158-1159).
THEOREM CyclesFoundHolds == Spec => []CyclesFound
  <1>1. IInv => CyclesFound
    BY DEF IInv
  <1>. QED  BY <1>1, Invariance, PTL

\* What compiler_append_target_link_closure pushes for a target is what the
\* target reaches in the graph, each library once (cli.c:1142-1153).
THEOREM ClosureCompleteHolds == Spec => []ClosureComplete
  <1>1. IInv => ClosureComplete
    BY DEF IInv, LinkInv
  <1>. QED  BY <1>1, Invariance, PTL

-----------------------------------------------------------------------------
(* The order TargetBuild builds in.                                        *)

\* The static libraries a target is linked with: TargetBuild's archives.
Archives == [t \in Target |-> {l \in Members(links[t]) : kind[l] = "static"}]

\* What was built before a target is closed under the links, so it holds what
\* the target reaches.
LEMMA ReachedEarlier ==
  ASSUME IInv, NEW k \in DOMAIN built
  PROVE  Reachable({built[k]}) \subseteq {built[j] : j \in 1 .. k - 1}
  <1> DEFINE C == {built[j] : j \in 1 .. k - 1}
  <1>1. /\ built \in Seq(Target) /\ deps \in [Target -> Seq(Target)]
        /\ DependenciesFirst
    BY DEF IInv, TypeOK, BuiltInv
  <1>2. DOMAIN built = 1 .. Len(built) /\ Len(built) \in Nat
    BY <1>1
  <1>3. C \in SUBSET Target
    BY <1>1, <1>2
  <1>4. ASSUME NEW h \in 1 .. k PROVE Members(deps[built[h]]) \subseteq C
    <2>1. h \in DOMAIN built
      BY <1>2
    <2>2. \A t \in Members(deps[built[h]]) : \E i \in 1 .. h - 1 : built[i] = t
      BY <1>1, <2>1 DEF DependenciesFirst
    <2>3. 1 .. h - 1 \subseteq 1 .. k - 1
      BY <1>2
    <2>. QED  BY <2>2, <2>3
  <1>5. Uses({built[k]}) \subseteq C /\ Uses(C) \subseteq C
    <2>1. k \in 1 .. k /\ 1 .. k - 1 \subseteq 1 .. k
      BY <1>2
    <2>. QED  BY <1>4, <2>1 DEF Uses
  <1>. HIDE DEF C
  <1>6. Reachable({built[k]}) \subseteq C
    BY <1>3, <1>5, ReachableLeast
  <1>. QED  BY <1>6 DEF C

\* The targets of a command are built in an order TargetBuild may assume: each
\* once, and after every archive its link closure pushed for it, the ones it
\* reaches through other libraries included (cli.c:1142-1171).
THEOREM BuildsInOrder == Spec => []IsBuildOrder(built, Archives)
  <1>1. ASSUME IInv PROVE IsBuildOrder(built, Archives)
    <2>1. /\ built \in Seq(Target) /\ DependenciesFirst /\ ClosureComplete
      BY <1>1 DEF IInv, TypeOK, BuiltInv, LinkInv
    <2>2. ASSUME NEW k \in DOMAIN built
          PROVE  Archives[built[k]] \subseteq {built[j] : j \in 1 .. k - 1}
      <3>1. built[k] \in Target /\ built[k] \in Members(built)
        BY <2>1 DEF Members
      <3>2. Archives[built[k]] \subseteq Reachable({built[k]})
        BY <2>1, <3>1 DEF Archives, ClosureComplete
      <3>. QED  BY <1>1, <3>2, ReachedEarlier
    <2>3. ASSUME NEW k \in DOMAIN built, NEW j \in DOMAIN built, built[j] = built[k]
          PROVE  j = k
      BY <2>1, <2>3 DEF DependenciesFirst
    <2>. QED  BY <2>2, <2>3 DEF IsBuildOrder
  <1>. QED  BY <1>1, Invariance, PTL
=============================================================================
