---------------------------- MODULE MC_AsyncGit ----------------------------
(* AsyncGit on two files and two actors.                                   *)
EXTENDS AsyncGit
=============================================================================
