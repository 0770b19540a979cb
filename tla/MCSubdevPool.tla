---------------------------- MODULE MCSubdevPool ----------------------------
(***************************************************************************)
(* Instances of the subdev pool for TLC.                                   *)
(***************************************************************************)
EXTENDS SubdevPoolProps

CONSTANTS c1, c2, root, leaf

\* Two threads of the root driver, whose references share one kref.
MCSameHolder == (c1 :> root) @@ (c2 :> root)

\* The root driver and a leaf.
MCTwoHolders == (c1 :> root) @@ (c2 :> leaf)
=============================================================================
