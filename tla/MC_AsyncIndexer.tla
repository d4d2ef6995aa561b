-------------------------- MODULE MC_AsyncIndexer --------------------------
(* AsyncIndexer on one page, which is what the order of changes is about,  *)
(* with a channel and a batch small enough to fill up.                     *)
EXTENDS AsyncIndexer
=============================================================================
