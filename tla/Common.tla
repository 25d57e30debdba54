------------------------------- MODULE Common -------------------------------
(* What the components have in common. *)

CONSTANT None   \* no value: a null pointer, an absent entry, nothing under way
=============================================================================
