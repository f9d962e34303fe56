----------------------------- MODULE MCAgentRun ------------------------------
(***************************************************************************)
(* Two files, two contents, two attempts, two runs.  The policies: one     *)
(* that allows everything, for each gate of authorize() one that closes    *)
(* it, one of a repository whose checks write a file, and one that lets a  *)
(* fix change one file only.                                               *)
(***************************************************************************)
EXTENDS AgentRun

CONSTANTS f1, f2, committed, edited

MCFile == {f1, f2}

MCContent == {committed, edited}

Open == [mayModify |-> TRUE, allowed |-> {"mechanical", "behavioral"}, writable |-> TRUE,
         isolated |-> TRUE, checks |-> 2, artifacts |-> {}, maxChangedFiles |-> 2]

MCPolicy ==
    {Open, [Open EXCEPT !.mayModify = FALSE], [Open EXCEPT !.allowed = {"mechanical"}],
     [Open EXCEPT !.writable = FALSE], [Open EXCEPT !.isolated = FALSE],
     [Open EXCEPT !.checks = 0], [Open EXCEPT !.artifacts = {f2}],
     [Open EXCEPT !.maxChangedFiles = 1]}

=============================================================================
