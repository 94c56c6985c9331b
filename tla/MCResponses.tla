---------------------------- MODULE MCResponses -----------------------------
(* Requests for one small collection, for TLC. *)
EXTENDS Responses

Feature(source, content) == [source |-> source, content |-> content]
MCFeatures == [source : {1, 2}, content : {"old", "new"}]

(* A feature goes away; one stays and one changes. *)
MCDatasets ==
  {<<{Feature(1, "old"), Feature(2, "old")}, {Feature(2, "old")}>>,
   <<{Feature(1, "old"), Feature(2, "old")}, {Feature(1, "old"), Feature(2, "new")}>>}

Range(specific, q) == [specific |-> specific, q |-> q]
Header(accept, encodings, sources) ==
  [accept |-> accept, encodings |-> encodings, sources |-> sources]

MCHeaders ==
  {Header(None, {}, {1}),
   Header(None, {}, {1, 2}),
   Header(<<Range(0, 100), Range(1, 50), Range(1, 0)>>, {0, 50}, {1}),
   Header(<<Range(0, 100), Range(2, 0)>>, {0}, None),
   Header(<<>>, {}, Malformed)}

Url(kind, sources) ==
  [kind |-> kind, collection |-> "known", wellFormed |-> TRUE, sources |-> sources,
   feature |-> 1, z |-> 1, x |-> 1, y |-> 0]

MCUrls ==
  {Url("collection", None), Url("items", None), Url("item", None), Url("tile", {1}),
   Url("items", Malformed),
   [Url("tile", None) EXCEPT !.x = 2], [Url("tile", None) EXCEPT !.z = 31],
   [Url("item", None) EXCEPT !.collection = "unknown"],
   [Url("item", None) EXCEPT !.collection = "invalid"],
   [Url("items", None) EXCEPT !.wellFormed = FALSE]}
=============================================================================
