--------------------------- MODULE MC_RefactorTx ---------------------------
(* RefactorTx on a page and one page that links to it.                     *)
EXTENDS RefactorTx
=============================================================================
