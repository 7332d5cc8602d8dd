------------------------------ MODULE MCBuddy ------------------------------
(* The page allocator on a dozen pages, blocks of up to four. *)
EXTENDS Buddy
=============================================================================
