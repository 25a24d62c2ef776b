------------------------------ MODULE Documents ------------------------------
(***************************************************************************)
(* The documents table of internal/db/db.go.  A table maps every document  *)
(* id to its row, or to NULL when there is none; each operator below is    *)
(* one SQL statement, which Postgres executes atomically.                  *)
(*                                                                         *)
(* A vector is identified with the text it was computed from: the          *)
(* properties ask whether a row's vector is that of its own text.          *)
(* metadata and the timestamps are left out, no property depends on them.  *)
(***************************************************************************)
CONSTANTS
  Docs,      \* document ids, the primary key of the table
  Tenants,   \* tenant ids
  Texts,     \* document texts accepted by the validation of IngestDocument
  Models,    \* names of embedding models
  NULL       \* SQL NULL, "no row", "no message"

Status == {"pending", "indexed", "failed"}

Row == [tenant    : Tenants,
        text      : Texts,
        status    : Status,
        embedding : Texts \cup {NULL},
        model     : Models \cup {NULL}]

ASSUME NullIsNoValue == NULL \notin Row \cup Docs \cup Texts \cup Models

(* INSERT ... ON CONFLICT (id) DO UPDATE: an existing row keeps its tenant *)
(* and its model, loses its vector and is pending again.                   *)
UpsertDocument(table, d, tenant, text) ==
  [table EXCEPT ![d] =
     IF @ = NULL
       THEN [tenant |-> tenant, text |-> text, status |-> "pending",
             embedding |-> NULL, model |-> NULL]
       ELSE [@ EXCEPT !.text = text, !.status = "pending", !.embedding = NULL]]

(* UPDATE ... WHERE id = $1: no row, no effect and no error. *)
SetEmbedding(table, d, vec, model) ==
  [table EXCEPT ![d] =
     IF @ = NULL THEN NULL
       ELSE [@ EXCEPT !.embedding = vec, !.model = model, !.status = "indexed"]]

(* DELETE ... WHERE id = $1 AND tenant_id = $2. *)
DeleteDocument(table, d, tenant) ==
  [table EXCEPT ![d] = IF @ # NULL /\ @.tenant = tenant THEN NULL ELSE @]
=============================================================================
