----------------------------- MODULE MC_BulkWrite -----------------------------
(* Bulk writes of up to two pages with and without the AsyncIndexer.       *)
EXTENDS BulkWrite
=============================================================================
