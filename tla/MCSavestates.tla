---------------------------- MODULE MCSavestates ----------------------------
(***************************************************************************)
(* Savestates on small instances.  What the chunks hold is only compared,  *)
(* so the contents are interchangeable.                                    *)
(***************************************************************************)
EXTENDS Savestates, TLC

Contents == Permutations(Content)

=============================================================================
