----------------------------- MODULE PageTables -----------------------------
(***************************************************************************)
(* What the search database (internal/search/sqlite.go, links.go) has of   *)
(* one page: its row in doc_paths, without which no search lists it; the   *)
(* contents its words in docs are from; and the contents its links and     *)
(* its metadata are from.  docs is a contentless full text table: it is    *)
(* only ever inserted into, so the words of former contents stay, while    *)
(* links and metadata are replaced.                                        *)
(***************************************************************************)

CONSTANT Absent   \* the content of a page that is not there

Calls == {"search", "links", "meta"}   \* Searcher.Index, IndexLinks, IndexMeta

Tables(contents) == [row : BOOLEAN, words : SUBSET contents, links : contents, meta : contents]

(* A page that was indexed once.                                           *)
Initially(c) == [row |-> c # Absent, words |-> {c} \ {Absent}, links |-> c, meta |-> c]

(* The page is indexed with content c, or removed; the calls in lost fail  *)
(* or are not made.                                                        *)
Reindexed(e, c, lost) ==
  [row   |-> IF "search" \in lost THEN e.row ELSE c # Absent,
   words |-> IF "search" \in lost THEN e.words ELSE e.words \union ({c} \ {Absent}),
   links |-> IF "links" \in lost THEN e.links ELSE c,
   meta  |-> IF "meta" \in lost THEN e.meta ELSE c]

(* Search lists the page if there is one and finds it by its words; its    *)
(* links and metadata are its own.                                         *)
Found(e, c) == (e.row <=> c # Absent) /\ (c # Absent => c \in e.words)
Shows(e, c) == Found(e, c) /\ e.links = c /\ e.meta = c
=============================================================================
