------------------------------ MODULE MCUnwind ------------------------------
(***************************************************************************)
(* Stacks of up to MaxFrames frames, and two tags, so that a throw passes  *)
(* CATCHes of the other tag, and stops at the innermost of its own.        *)
(***************************************************************************)
EXTENDS Unwind

TwoTags == {"inner", "outer"}
=============================================================================
