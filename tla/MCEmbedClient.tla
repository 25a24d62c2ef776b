---------------------------- MODULE MCEmbedClient -----------------------------
(* Instances of EmbedClient for TLC. *)
EXTENDS EmbedClient

CONSTANTS x1, x2

(* Two different texts, whose vectors can be confused. *)
TwoTexts == {<<x1, x2>>}
=============================================================================
