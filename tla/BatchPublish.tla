---------------------------- MODULE BatchPublish ----------------------------
(***************************************************************************)
(* What one batch of compile tasks promises to later builds: the ready     *)
(* marker of an object is published only once every object of the batch    *)
(* has been built, and never after the batch was given up.  The markers    *)
(* are what a later `c build` trusts, so a batch is all or nothing up to   *)
(* the point where it commits.  TaskPool is shown to implement this.       *)
(***************************************************************************)
CONSTANT Task       \* the tasks of the batch

VARIABLES
  decision,         \* "open" while compiling, then "commit" or "abort"
  built,            \* tasks whose compiler is known to have succeeded
  ready             \* tasks whose object carries its ready marker

batchVars == <<decision, built, ready>>

Init ==
  /\ decision = "open"
  /\ built = {}
  /\ ready = {}

\* A compiler succeeded; the batch commits with the last one, and may be
\* given up while an earlier success is being recorded.
Build(i) ==
  /\ i \notin built
  /\ built' = built \cup {i}
  /\ decision' \in IF decision # "open" THEN {decision}
                   ELSE IF built' = Task THEN {"commit"} ELSE {"open", "abort"}
  /\ decision = "abort" => built' # Task
  /\ UNCHANGED ready

Publish(i) ==
  /\ decision = "commit"
  /\ ready' = ready \cup {i}
  /\ UNCHANGED <<decision, built>>

Abort ==
  /\ decision = "open"
  /\ decision' = "abort"
  /\ UNCHANGED <<built, ready>>

Next ==
  \/ \E i \in Task : Build(i) \/ Publish(i)
  \/ Abort

Spec == Init /\ [][Next]_batchVars
=============================================================================
