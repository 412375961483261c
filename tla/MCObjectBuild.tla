--------------------------- MODULE MCObjectBuild ---------------------------
(***************************************************************************)
(* Instances of ObjectBuild for TLC.                                       *)
(***************************************************************************)
EXTENDS ObjectBuild, TLC

CONSTANTS s, h

\* The source includes the header in its second content only.
SecondIncludes == (1 :> {}) @@ (2 :> {h})

Mode(cached, editing, kills, orphans, edits) ==
  [cache |-> cached, editing |-> editing, kills |-> kills, orphans |-> orphans,
   edits |-> edits]

KilledNoCache == Mode(FALSE, FALSE, TRUE, FALSE, 4)
QuietCache == Mode(TRUE, FALSE, FALSE, FALSE, 5)
Edited == Mode(TRUE, TRUE, TRUE, FALSE, 3)
Everything == Mode(TRUE, TRUE, TRUE, TRUE, 2)

AllModes == {KilledNoCache, QuietCache, Edited, Everything}
=============================================================================
