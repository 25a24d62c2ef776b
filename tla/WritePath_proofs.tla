--------------------------- MODULE WritePath_proofs ---------------------------
(* Theorems about WritePath, for any documents, tenants and workers.       *)
EXTENDS WritePath, Documents_proofs

USE WritePathConstants

(* The empty table and idle workers are coherent. *)
LEMMA PathInitTypes == PathInit => PathTypeOK /\ RowsCoherent
BY DEF PathInit, PathTypeOK, RowsCoherent

(* A statement of the write path keeps the rows coherent. *)
LEMMA StatementKeeps ==
  ASSUME PathTypeOK, RowsCoherent, Statement
  PROVE  PathTypeOK' /\ RowsCoherent'
<1>0. table \in [Docs -> Row \cup {NULL}] /\ reading \in [Workers -> Reading \cup {NULL}]
  BY DEF PathTypeOK
<1>1. ASSUME NEW u \in Uploads, Post(u)
      PROVE  PathTypeOK' /\ RowsCoherent'
  <2> DEFINE d == u.doc
  <2>1. /\ d \in Docs /\ u.tenant \in Tenants /\ u.text \in Texts
        /\ table' = UpsertDocument(table, d, u.tenant, u.text) /\ reading' = reading
    BY <1>1 DEF Post
  <2>2. /\ table' \in [Docs -> Row \cup {NULL}]
        /\ \A e \in Docs : e # d => table'[e] = table[e]
        /\ table'[d].status = "pending" /\ table'[d].embedding = NULL
        /\ table'[d].text = u.text
        /\ table'[d].tenant = (IF table[d] = NULL THEN u.tenant ELSE table[d].tenant)
    BY <1>0, <2>1, UpsertLemma
  <2>3. /\ \E v \in Uploads : v.doc = d /\ v.tenant = table'[d].tenant
        /\ \E v \in Uploads : v.doc = d /\ v.text = table'[d].text
    BY <2>1, <2>2 DEF RowsCoherent
  <2>4. RowsCoherent'
    BY <2>1, <2>2, <2>3 DEF RowsCoherent
  <2> QED BY <1>0, <2>1, <2>2, <2>4 DEF PathTypeOK
<1>2. ASSUME NEW d \in Docs, NEW tenant \in Tenants, Remove(d, tenant)
      PROVE  PathTypeOK' /\ RowsCoherent'
  <2>1. table' = DeleteDocument(table, d, tenant) /\ reading' = reading
    BY <1>2 DEF Remove
  <2>2. /\ table' \in [Docs -> Row \cup {NULL}]
        /\ \A e \in Docs : table'[e] = table[e] \/ table'[e] = NULL
    BY <1>0, <2>1, DeleteLemma
  <2>3. RowsCoherent'
    BY <2>2 DEF RowsCoherent
  <2> QED BY <1>0, <2>1, <2>2, <2>3 DEF PathTypeOK
<1>3. ASSUME NEW w \in Workers, Write(w)
      PROVE  PathTypeOK' /\ RowsCoherent'
  <2> DEFINE d == reading[w].doc
             text == reading[w].text
  <2>1. d \in Docs /\ text \in Texts /\ table' = SetEmbedding(table, d, text, EmbedModel)
    BY <1>0, <1>3 DEF Write, Reading
  <2>2. reading' = [reading EXCEPT ![w] = NULL]
    BY <1>3 DEF Write
  <2> HIDE DEF d, text
  <2>3. /\ table' \in [Docs -> Row \cup {NULL}]
        /\ \A e \in Docs : e # d => table'[e] = table[e]
        /\ table'[d] = NULL <=> table[d] = NULL
        /\ table[d] # NULL => /\ table'[d].tenant = table[d].tenant
                              /\ table'[d].text = table[d].text
                              /\ table'[d].embedding = text /\ table'[d].status = "indexed"
    BY <1>0, <2>1, SetEmbeddingLemma
  <2>4. PathTypeOK'
    BY <1>0, <2>2, <2>3 DEF PathTypeOK
  <2>5. text # NULL
    BY <2>1, NullIsNoValue
  <2>6. ASSUME NEW e \in Docs, table'[e] # NULL
        PROVE  /\ \E u \in Uploads : u.doc = e /\ u.tenant = table'[e].tenant
               /\ \E u \in Uploads : u.doc = e /\ u.text = table'[e].text
               /\ table'[e].status = "indexed" <=> table'[e].embedding # NULL
    BY <2>1, <2>3, <2>5, <2>6 DEF RowsCoherent
  <2> QED BY <2>4, <2>6 DEF RowsCoherent
<1> QED BY <1>1, <1>2, <1>3 DEF Statement

(* What a worker reads is a document and a text of it. *)
LEMMA WorkerKeeps ==
  ASSUME PathTypeOK, RowsCoherent, WorkerStep
  PROVE  PathTypeOK' /\ RowsCoherent'
<1>1. ASSUME NEW w \in Workers, NEW d \in Docs, Read(w, d)
      PROVE  PathTypeOK' /\ RowsCoherent'
  <2>1. table[d].text \in Texts
    BY <1>1 DEF Read, PathTypeOK, Row
  <2>2. [doc |-> d, text |-> table[d].text] \in Reading
    BY <2>1 DEF Reading
  <2> QED BY <1>1, <2>2 DEF Read, PathTypeOK, RowsCoherent
<1>2. ASSUME NEW ws \in SUBSET Workers, Forget(ws)
      PROVE  PathTypeOK' /\ RowsCoherent'
  BY <1>2 DEF Forget, PathTypeOK, RowsCoherent
<1> QED BY <1>1, <1>2 DEF WorkerStep

(* The two are inductive together. *)
LEMMA PathStepKeeps ==
  PathTypeOK /\ RowsCoherent /\ [PathNext]_pathVars => PathTypeOK' /\ RowsCoherent'
<1>1. CASE UNCHANGED pathVars
  BY <1>1 DEF pathVars, PathTypeOK, RowsCoherent
<1> QED BY <1>1, StatementKeeps, WorkerKeeps DEF PathNext

(* However late a vector is written, and whoever posts under an id: a row  *)
(* has a tenant and a text that are posted under its id, and is marked     *)
(* indexed exactly when it has a vector.                                   *)
THEOREM RowsStayCoherent == PathSpec => [](PathTypeOK /\ RowsCoherent)
BY PathInitTypes, PathStepKeeps, PTL DEF PathSpec
=============================================================================
