------------------------------- MODULE Storage -------------------------------
(***************************************************************************)
(* Which store the server keeps its data in: main opens PostgreSQL, or, in *)
(* development only, falls back to maps in memory.  The two differ in what *)
(* is atomic, in what can fail and in what an upsert overwrites.           *)
(***************************************************************************)
VARIABLE pg    \* the data is in PostgreSQL

\* The choice is made once, before the first request.
StorageInit == pg \in BOOLEAN
=============================================================================
