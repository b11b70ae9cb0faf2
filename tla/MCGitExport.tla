---------------------------- MODULE MCGitExport ----------------------------
(* Instances of GitExport for TLC: inventory invA pushes to main, inventory invB *)
(* opens merge requests from its branch fb.                                *)
EXTENDS GitExport, TLC

CONSTANTS invA, invB, p, q, main, fb

MCPushBranch == invA :> main @@ invB :> fb

\* Two edits and one disturbance (a failure, a lost answer, a dirty mirror, a push or a
\* merge by others), or two disturbances; or one edit and one disturbance.
MCBudget == ((0..2) \X (0..1)) \cup {<<0, 2>>}
MCOneFailure == {<<1, 0>>, <<1, 1>>}
=============================================================================
