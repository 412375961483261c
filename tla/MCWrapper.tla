------------------------------ MODULE MCWrapper ------------------------------
(***************************************************************************)
(* Instances of Wrapper for TLC.                                           *)
(***************************************************************************)
EXTENDS Wrapper, TLC

Terminals == Permutations(Process)

\* Every command is given the same compiler.
Line(verb, type, force, file) ==
  [verb |-> verb, type |-> type, cc |-> "clang", force |-> force, file |-> file, valid |-> TRUE]

\* One configuration of each kind that make or cmake finds by itself, and a
\* makefile it does not find.
Files == {"CMakeLists.txt", "Makefile", "build.mk"}

Commands ==
  {Line("build", type, FALSE, "") : type \in Type}
  \cup {Line(verb, "debug", FALSE, "") : verb \in {"test", "clean", "run"}}
  \cup {Line("convert", "debug", force, "") : force \in BOOLEAN}
  \cup {Line("convert", "debug", FALSE, "build.mk")}
  \cup {[Line("build", "debug", FALSE, "") EXCEPT !.valid = FALSE]}
=============================================================================
