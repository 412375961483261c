---------------------------- MODULE MCLockUpdate ----------------------------
(***************************************************************************)
(* Instances of LockUpdate for TLC: what build.c may declare.              *)
(***************************************************************************)
EXTENDS LockUpdate, TLC

CONSTANTS lib, art, u1, v1, v2

Decl(n, u, r, a) == [name |-> n, url |-> u, ref |-> r, assets |-> a]

\* A dependency that changes its ref and, with it, exposes listed paths or the
\* whole repository, and a second one that exposes files; c.lock may hold three
\* pins, of which the cleanup reads two.
Moving ==
  {Decl(lib, u1, v1, "listed"), Decl(lib, u1, v2, "repo"), Decl(art, u1, v1, "files")}

Apart == [n \in Name |-> {n}]
=============================================================================
