------------------------------- MODULE MCMerge -------------------------------
(* MergeTransaction with the scopes and the files of its configuration.     *)
EXTENDS MergeTransaction

(* The "paths" argument is omitted.                                         *)
Whole == {Paths}

(* Files the child has changed or deleted; the parent edits them, before    *)
(* the first call as well, or writes a deleted one again.  A file the child *)
(* has added takes the steps of a changed one that only conflicts.          *)
Changed == [Plain EXCEPT !.child = 1]
ChildsFiles == [base : {Plain}, child : {Absent, Changed}, main : {Plain}]
=============================================================================
