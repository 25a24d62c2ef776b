-------------------------------- MODULE Vectors --------------------------------
(***************************************************************************)
(* What EmbedBatch returns when it does not fail.  A vector is identified  *)
(* with the text it was computed from.                                     *)
(***************************************************************************)
EXTENDS Naturals, Sequences

(* As many vectors as the API listed, each at the place of its text; nil   *)
(* where the API gave none, or gave it an index past the end of its list.  *)
(* An API that keeps its promise returns texts itself.                     *)
VectorsOf(texts, nil) ==
  {v \in UNION {[1..m -> {texts[i] : i \in 1..m} \cup {nil}] : m \in 0..Len(texts)} :
     \A i \in DOMAIN v : v[i] \in {texts[i], nil}}
=============================================================================
