--------------------------- MODULE Documents_proofs ---------------------------
(* What the statements on the documents table return, for any table.       *)
EXTENDS Documents, TLAPS

USE NullIsNoValue

(* An upsert writes one row, which is then pending and has no vector; an   *)
(* existing row keeps its tenant.                                          *)
LEMMA UpsertLemma ==
  ASSUME NEW T \in [Docs -> Row \cup {NULL}], NEW d \in Docs,
         NEW tenant \in Tenants, NEW text \in Texts
  PROVE  LET U == UpsertDocument(T, d, tenant, text)
         IN /\ U \in [Docs -> Row \cup {NULL}]
            /\ \A e \in Docs : e # d => U[e] = T[e]
            /\ U[d].status = "pending" /\ U[d].embedding = NULL /\ U[d].text = text
            /\ U[d].tenant = (IF T[d] = NULL THEN tenant ELSE T[d].tenant)
<1> DEFINE old == [T[d] EXCEPT !.text = text, !.status = "pending", !.embedding = NULL]
           new == [tenant |-> tenant, text |-> text, status |-> "pending",
                   embedding |-> NULL, model |-> NULL]
<1>1. T[d] # NULL => /\ old \in Row /\ old.tenant = T[d].tenant
                     /\ old.status = "pending" /\ old.embedding = NULL /\ old.text = text
  BY DEF Row, Status
<1>2. /\ new \in Row /\ new.tenant = tenant
      /\ new.status = "pending" /\ new.embedding = NULL /\ new.text = text
  BY DEF Row, Status
<1>3. UpsertDocument(T, d, tenant, text) = [T EXCEPT ![d] = IF T[d] = NULL THEN new ELSE old]
  BY DEF UpsertDocument
<1> HIDE DEF old, new
<1> QED BY <1>1, <1>2, <1>3

(* SetEmbedding indexes one row and keeps its text and its tenant; it      *)
(* creates none.                                                           *)
LEMMA SetEmbeddingLemma ==
  ASSUME NEW T \in [Docs -> Row \cup {NULL}], NEW d \in Docs,
         NEW vec \in Texts, NEW model \in Models
  PROVE  LET U == SetEmbedding(T, d, vec, model)
         IN /\ U \in [Docs -> Row \cup {NULL}]
            /\ \A e \in Docs : e # d => U[e] = T[e]
            /\ U[d] = NULL <=> T[d] = NULL
            /\ T[d] # NULL => /\ U[d].text = T[d].text /\ U[d].tenant = T[d].tenant
                              /\ U[d].embedding = vec /\ U[d].status = "indexed"
<1> DEFINE row == [T[d] EXCEPT !.embedding = vec, !.model = model, !.status = "indexed"]
<1>1. T[d] # NULL => /\ row \in Row /\ row.text = T[d].text /\ row.tenant = T[d].tenant
                     /\ row.embedding = vec /\ row.status = "indexed"
  BY DEF Row, Status
<1>2. SetEmbedding(T, d, vec, model) = [T EXCEPT ![d] = IF T[d] = NULL THEN NULL ELSE row]
  BY DEF SetEmbedding
<1> HIDE DEF row
<1> QED BY <1>1, <1>2

(* A delete only removes rows.                                             *)
LEMMA DeleteLemma ==
  ASSUME NEW T \in [Docs -> Row \cup {NULL}], NEW d \in Docs, NEW tenant \in Tenants
  PROVE  LET U == DeleteDocument(T, d, tenant)
         IN /\ U \in [Docs -> Row \cup {NULL}]
            /\ \A e \in Docs : U[e] \in {T[e], NULL}
BY DEF DeleteDocument
=============================================================================
