------------------------------ MODULE WritePath -------------------------------
(***************************************************************************)
(* What the write path does to the documents table, as the read path sees  *)
(* it: documents are posted and removed, and workers write the vector of a *)
(* text that they have read from a row some time before.  Handlers, queue, *)
(* leases and retries are in IngestPipeline, which implements this.        *)
(***************************************************************************)
EXTENDS Documents

CONSTANTS
  Uploads,      \* what clients may post: a text, under an id, for a tenant
  Workers,      \* places where a text is embedded
  EmbedModel    \* cfg.EmbedModel

Reading == [doc : Docs, text : Texts]

ASSUME WritePathConstants ==
  /\ Uploads \subseteq [doc : Docs, tenant : Tenants, text : Texts]
  /\ EmbedModel \in Models
  /\ NULL \notin Reading

VARIABLES
  table,    \* the documents table
  reading   \* the document and the text that a worker embeds, NULL for none

pathVars == <<table, reading>>

PathInit ==
  /\ table = [d \in Docs |-> NULL]
  /\ reading = [w \in Workers |-> NULL]

(* Clients choose the ids: one id may be posted for several tenants, and   *)
(* its row then stays with the first of them.                              *)
Post(u) ==
  /\ table' = UpsertDocument(table, u.doc, u.tenant, u.text)
  /\ UNCHANGED reading

Remove(d, tenant) ==
  /\ table' = DeleteDocument(table, d, tenant)
  /\ UNCHANGED reading

Read(w, d) ==
  /\ reading[w] = NULL /\ table[d] # NULL
  /\ reading' = [reading EXCEPT ![w] = [doc |-> d, text |-> table[d].text]]
  /\ UNCHANGED table

(* The row may have another text by now, or be gone. *)
Write(w) ==
  /\ reading[w] # NULL
  /\ table' = SetEmbedding(table, reading[w].doc, reading[w].text, EmbedModel)
  /\ reading' = [reading EXCEPT ![w] = NULL]

(* A call fails, or a pod ends with all that its workers had read. *)
Forget(ws) ==
  /\ reading' = [w \in Workers |-> IF w \in ws THEN NULL ELSE reading[w]]
  /\ UNCHANGED table

Statement ==
  \/ \E u \in Uploads : Post(u)
  \/ \E d \in Docs, tenant \in Tenants : Remove(d, tenant)
  \/ \E w \in Workers : Write(w)

WorkerStep ==
  \/ \E w \in Workers, d \in Docs : Read(w, d)
  \/ \E ws \in SUBSET Workers : Forget(ws)

PathNext == Statement \/ WorkerStep

PathSpec == PathInit /\ [][PathNext]_pathVars

-----------------------------------------------------------------------------
PathTypeOK ==
  /\ table \in [Docs -> Row \cup {NULL}]
  /\ reading \in [Workers -> Reading \cup {NULL}]

(* Whatever is posted, embedded late or removed: a row belongs to a tenant *)
(* that posts under its id and has a text that is posted under it, perhaps *)
(* for another tenant; and it has a vector exactly when it is marked       *)
(* indexed, so that the similarity query never meets a row without one.    *)
RowsCoherent ==
  \A d \in Docs : table[d] # NULL =>
    /\ \E u \in Uploads : u.doc = d /\ u.tenant = table[d].tenant
    /\ \E u \in Uploads : u.doc = d /\ u.text = table[d].text
    /\ table[d].status = "indexed" <=> table[d].embedding # NULL
=============================================================================
