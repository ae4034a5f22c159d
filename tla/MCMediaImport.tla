--------------------------- MODULE MCMediaImport ---------------------------
(***************************************************************************)
(* MediaImport on small instances: a film in a Letterboxd diary, a second  *)
(* entry of it within the same fingerprint, and the report of the film by  *)
(* Trakt.  The diary is an RSS feed, fetched from the watermark on without *)
(* a rewind; Trakt's history is fetched as a whole on every run.           *)
(***************************************************************************)
EXTENDS MediaImport

CONSTANTS letterboxd, trakt, f

MCOwner == [e \in Event |-> IF e = 2 THEN trakt ELSE letterboxd]
MCPrints == [e \in Event |-> {f}]
MCRewind == [i \in Importer |-> IF i = trakt THEN 3 ELSE 0]
=============================================================================
