----------------------------- MODULE MCCatalog ------------------------------
(* One build, and clients that change its catalog, for TLC. *)
EXTENDS CatalogProperties

(* A bbox without features, one file, or two. *)
MCBuilt == {{}, {{1, 2}}, {{1}, {2}}}
MCFirst == [id |-> 1, column |-> 1]
=============================================================================
