---------------------------- MODULE Search_proofs -----------------------------
(* Theorems about Search, for any documents, tenants, queries and limits,  *)
(* and for any workers that write vectors however late.                    *)
EXTENDS Search, WritePath_proofs, FiniteSetTheorems

USE SearchConstants

(* The results may be shown to the tenant and were right as a whole at one *)
(* of the moments.                                                         *)
Sound(moments, tenant, rs) ==
  /\ Shown(tenant, rs)
  /\ \E rows \in moments : Right(rows, tenant, rs)

(* A searcher has found nothing yet, or what it has is sound. *)
SearchersSound ==
  \A s \in Searchers :
    /\ pc[s] \in {"idle", "lookup", "query"} => results[s] = {}
    /\ pc[s] \in {"store", "reply"} => Sound(past, call[s].tenant, results[s])

(* What is cached is sound. *)
CacheSound ==
  \A tenant \in Tenants, query \in Queries :
    cache[<<tenant, query>>] # NULL => Sound(past, tenant, cache[<<tenant, query>>])

IInv ==
  /\ TypeOK
  /\ RowsCoherent
  /\ Indexed(table) \in past
  /\ SearchersSound
  /\ CacheSound

-----------------------------------------------------------------------------
(* The limit in force is a positive one within the maximum. *)
LEMMA LimitLemma == \A asked \in Limits : Limit(asked) \in 1..MaxLimit
BY DEF Limit

(* Results are as many as the documents they are of.                       *)
LEMMA ResultsCount ==
  ASSUME NEW ds \in SUBSET Docs
  PROVE  IsFiniteSet(ResultsOf(ds)) /\ Cardinality(ResultsOf(ds)) <= Cardinality(ds)
<1> DEFINE f == [d \in ds |-> [doc |-> d, text |-> table[d].text]]
<1>1. IsFiniteSet(ds)
  BY FS_Subset
<1>2. f \in Surjection(ds, ResultsOf(ds))
  BY DEF Surjection, ResultsOf
<1> HIDE DEF f
<1> QED BY <1>1, <1>2, FS_Surjection

(* The similarity query answers with texts of indexed rows of the tenant.  *)
LEMMA AnswerIsRight ==
  ASSUME TypeOK, RowsCoherent, NEW c \in Call, NEW ds \in SUBSET Docs, Nearest(c, ds)
  PROVE  /\ ResultsOf(ds) \subseteq Result
         /\ Shown(c.tenant, ResultsOf(ds))
         /\ Right(Indexed(table), c.tenant, ResultsOf(ds))
<1> DEFINE rows == Indexed(table)
           rs == ResultsOf(ds)
<1>1. /\ ds \subseteq Candidates(c.tenant)
      /\ Cardinality(ds) <= c.limit /\ c.limit \in 1..MaxLimit
  BY DEF Nearest, Call
<1>2. Cardinality(rs) <= MaxLimit
  <2>1. Cardinality(rs) \in Nat /\ Cardinality(rs) <= Cardinality(ds)
    BY ResultsCount, FS_CardinalityType
  <2>2. Cardinality(ds) \in Nat
    BY FS_Subset, FS_CardinalityType
  <2> QED BY <1>1, <2>1, <2>2
<1>3. ASSUME NEW d \in ds
      PROVE  LET r == [doc |-> d, text |-> table[d].text]
             IN /\ r \in Result /\ r.doc = d /\ r.text = table[d].text
                /\ rows[d] = table[d] /\ table[d] # NULL /\ table[d].tenant = c.tenant
                /\ \E u \in Uploads : u.doc = d /\ u.tenant = c.tenant
                /\ \E u \in Uploads : u.doc = d /\ u.text = table[d].text
  <2>1. /\ d \in Docs /\ table[d] # NULL /\ table[d].tenant = c.tenant
        /\ table[d].status = "indexed"
    BY <1>1 DEF Candidates
  <2>2. table[d] \in Row /\ table[d].text \in Texts
    BY <2>1 DEF TypeOK, PathTypeOK, Row
  <2>3. rows[d] = table[d]
    BY <2>1 DEF Indexed
  <2> HIDE DEF rows
  <2> QED BY <2>1, <2>2, <2>3 DEF Result, RowsCoherent
<1>4. \A r \in rs : /\ r \in Result /\ rows[r.doc] # NULL /\ rows[r.doc].tenant = c.tenant
                    /\ rows[r.doc].text = r.text
                    /\ \E u \in Uploads : u.doc = r.doc /\ u.tenant = c.tenant
                    /\ \E u \in Uploads : u.doc = r.doc /\ u.text = r.text
  <2> HIDE DEF rows
  <2> QED BY <1>3 DEF ResultsOf
<1> HIDE DEF rows, rs
<1>5. Shown(c.tenant, rs)
  BY <1>4 DEF Shown
<1>6. Right(rows, c.tenant, rs)
  BY <1>2, <1>4 DEF Right
<1> QED BY <1>4, <1>5, <1>6 DEF rows, rs

-----------------------------------------------------------------------------
(* IInv holds at first. *)
LEMMA InitIInv == Init => IInv
<1> SUFFICES ASSUME Init PROVE IInv
  OBVIOUS
<1>1. PathTypeOK /\ RowsCoherent
  BY PathInitTypes DEF Init
<1>2. Indexed(table) \in [Docs -> Row \cup {NULL}]
  BY <1>1 DEF Indexed, PathTypeOK
<1>3. TypeOK
  BY <1>1, <1>2 DEF Init, TypeOK
<1> QED BY <1>1, <1>3 DEF Init, IInv, SearchersSound, CacheSound, Keys

(* A step of one searcher keeps IInv when what it then has is sound, and   *)
(* when what it puts into the cache is that.                               *)
LEMMA OneSearcher ==
  ASSUME IInv, NEW s \in Searchers, UNCHANGED <<pathVars, past, changes>>,
         NEW to \in {"idle", "lookup", "query", "store", "reply"}, Goto(s, to),
         NEW c \in Call \cup {NULL}, call' = [call EXCEPT ![s] = c],
         NEW rs \in SUBSET Result, results' = [results EXCEPT ![s] = rs],
         to # "idle" => c \in Call,
         to \in {"idle", "lookup", "query"} => rs = {},
         to \in {"store", "reply"} => Sound(past, c.tenant, rs),
         \/ cache' = cache
         \/ /\ to = "reply"
            /\ cache' = [cache EXCEPT ![<<c.tenant, c.query>>] = rs]
  PROVE  IInv'
<1>0. TypeOK /\ RowsCoherent /\ Indexed(table) \in past /\ SearchersSound /\ CacheSound
  BY DEF IInv
<1>1. /\ table' = table /\ reading' = reading /\ past' = past /\ changes' = changes
      /\ pc' = [pc EXCEPT ![s] = to]
  BY DEF pathVars, Goto
<1>3. to = "reply" => <<c.tenant, c.query>> \in Keys
  BY DEF Call, Keys
<1>4. TypeOK'
  BY <1>0, <1>1, <1>3 DEF TypeOK, PathTypeOK
<1>5. RowsCoherent' /\ Indexed(table)' \in past'
  BY <1>0, <1>1 DEF RowsCoherent, Indexed
<1>6. SearchersSound'
  <2>2. \A t \in Searchers : t # s =>
          /\ pc'[t] = pc[t] /\ call'[t] = call[t] /\ results'[t] = results[t]
    BY <1>0, <1>1 DEF TypeOK
  <2>3. pc'[s] = to /\ call'[s] = c /\ results'[s] = rs
    BY <1>0, <1>1 DEF TypeOK
  <2>4. ASSUME NEW t \in Searchers
        PROVE  /\ pc'[t] \in {"idle", "lookup", "query"} => results'[t] = {}
               /\ pc'[t] \in {"store", "reply"} =>
                    Sound(past', call'[t].tenant, results'[t])
    <3>1. CASE t = s
      BY <1>1, <2>3, <3>1
    <3>2. CASE t # s
      BY <1>0, <1>1, <2>2, <3>2 DEF SearchersSound
    <3> QED BY <3>1, <3>2
  <2> QED BY <2>4 DEF SearchersSound
<1>7. CacheSound'
  <2> SUFFICES ASSUME NEW tenant \in Tenants, NEW query \in Queries,
                      cache'[<<tenant, query>>] # NULL
               PROVE  Sound(past', tenant, cache'[<<tenant, query>>])
    BY DEF CacheSound
  <2>1. <<tenant, query>> \in Keys /\ cache \in [Keys -> (SUBSET Result) \cup {NULL}]
    BY <1>0 DEF Keys, TypeOK
  <2>2. CASE cache'[<<tenant, query>>] = cache[<<tenant, query>>]
    BY <1>0, <1>1, <2>2 DEF CacheSound
  <2>3. CASE cache'[<<tenant, query>>] # cache[<<tenant, query>>]
    <3>1. /\ to = "reply" /\ <<tenant, query>> = <<c.tenant, c.query>>
          /\ cache'[<<tenant, query>>] = rs
      BY <2>1, <2>3, <1>3
    <3> QED BY <1>1, <3>1
  <2> QED BY <2>2, <2>3
<1> QED BY <1>4, <1>5, <1>6, <1>7 DEF IInv

(* The steps of a search. *)
LEMMA SearcherStep ==
  ASSUME IInv, NEW s \in Searchers,
         \/ SearchStep(s)
         \/ \E tenant \in Tenants, query \in Queries, asked \in Limits :
              Start(s, tenant, query, asked)
  PROVE  IInv'
<1>0. TypeOK /\ RowsCoherent /\ Indexed(table) \in past /\ SearchersSound /\ CacheSound
  BY DEF IInv
<1>1. /\ call \in [Searchers -> Call \cup {NULL}]
      /\ results \in [Searchers -> SUBSET Result]
      /\ call = [call EXCEPT ![s] = call[s]]
      /\ results = [results EXCEPT ![s] = results[s]]
  BY <1>0 DEF TypeOK
<1>2. ASSUME pc[s] # "idle"
      PROVE  /\ call[s] \in Call /\ CacheKey(call[s]) = <<call[s].tenant, call[s].query>>
             /\ call[s].tenant \in Tenants /\ call[s].query \in Queries
  BY <1>0, <1>2 DEF TypeOK, CacheKey, Call
<1>3. ASSUME NEW tenant \in Tenants, NEW query \in Queries, NEW asked \in Limits,
             Start(s, tenant, query, asked)
      PROVE  IInv'
  <2> DEFINE c == [tenant |-> tenant, query |-> query, limit |-> Limit(asked)]
  <2>1. c \in Call
    BY LimitLemma DEF Call
  <2>2. /\ UNCHANGED <<pathVars, cache, past, changes>> /\ Goto(s, "lookup")
        /\ call' = [call EXCEPT ![s] = c] /\ results' = [results EXCEPT ![s] = results[s]]
    BY <1>1, <1>3 DEF Start
  <2>3. results[s] = {}
    BY <1>0, <1>3 DEF Start, SearchersSound
  <2> HIDE DEF c
  <2> QED BY <1>1, <2>1, <2>2, <2>3, OneSearcher
<1>4. ASSUME Return(s) PROVE IInv'
  <2>1. /\ UNCHANGED <<pathVars, cache, past, changes>> /\ Goto(s, "idle")
        /\ call' = [call EXCEPT ![s] = NULL] /\ results' = [results EXCEPT ![s] = {}]
    BY <1>4 DEF Return
  <2> DEFINE c == NULL
             rs == {}
  <2>2. c \in Call \cup {NULL} /\ rs \in SUBSET Result /\ rs = {}
    OBVIOUS
  <2>3. call' = [call EXCEPT ![s] = c] /\ results' = [results EXCEPT ![s] = rs]
    BY <2>1
  <2> HIDE DEF c, rs
  <2> QED BY <2>1, <2>2, <2>3, OneSearcher
<1>5. ASSUME Hit(s) PROVE IInv'
  <2> DEFINE rs == cache[CacheKey(call[s])]
  <2>1. /\ pc[s] = "lookup" /\ UNCHANGED <<pathVars, cache, past, changes>> /\ Goto(s, "reply")
        /\ call' = [call EXCEPT ![s] = call[s]] /\ results' = [results EXCEPT ![s] = rs]
        /\ rs # NULL
    BY <1>1, <1>5 DEF Hit, AfterHit
  <2>2. call[s] \in Call /\ Sound(past, call[s].tenant, rs)
    BY <1>0, <1>2, <2>1 DEF CacheSound
  <2>3. rs \in SUBSET Result
    BY <1>0, <1>2, <2>1 DEF TypeOK, Keys
  <2> HIDE DEF rs
  <2> QED BY <2>1, <2>2, <2>3, OneSearcher
<1>6. ASSUME Miss(s) PROVE IInv'
  <2>1. /\ pc[s] = "lookup" /\ UNCHANGED <<pathVars, cache, past, changes>> /\ Goto(s, "query")
        /\ call' = [call EXCEPT ![s] = call[s]] /\ results' = [results EXCEPT ![s] = results[s]]
    BY <1>1, <1>6 DEF Miss
  <2>2. call[s] \in Call /\ results[s] \in SUBSET Result /\ results[s] = {}
    BY <1>0, <1>1, <1>2, <2>1 DEF SearchersSound
  <2> QED BY <2>1, <2>2, OneSearcher
<1>7. ASSUME SearchSimilar(s) PROVE IInv'
  <2>1. PICK ds \in SUBSET Docs : /\ Nearest(call[s], ds)
                                  /\ results' = [results EXCEPT ![s] = ResultsOf(ds)]
    BY <1>7 DEF SearchSimilar
  <2>2. /\ pc[s] = "query" /\ UNCHANGED <<pathVars, cache, past, changes>> /\ Goto(s, "store")
        /\ call' = [call EXCEPT ![s] = call[s]]
    BY <1>1, <1>7 DEF SearchSimilar
  <2>3. call[s] \in Call
    BY <1>2, <2>2
  <2>4. ResultsOf(ds) \in SUBSET Result /\ Sound(past, call[s].tenant, ResultsOf(ds))
    BY <1>0, <2>1, <2>3, AnswerIsRight DEF Sound
  <2> QED BY <2>1, <2>2, <2>3, <2>4, OneSearcher
<1>8. ASSUME SetResults(s) PROVE IInv'
  <2>1. /\ pc[s] = "store" /\ UNCHANGED <<pathVars, past, changes>> /\ Goto(s, "reply")
        /\ call' = [call EXCEPT ![s] = call[s]] /\ results' = [results EXCEPT ![s] = results[s]]
        /\ \/ cache' = cache
           \/ cache' = [cache EXCEPT ![CacheKey(call[s])] = results[s]]
    BY <1>1, <1>8 DEF SetResults
  <2>2. /\ call[s] \in Call /\ CacheKey(call[s]) = <<call[s].tenant, call[s].query>>
        /\ results[s] \in SUBSET Result
        /\ Sound(past, call[s].tenant, results[s])
    BY <1>0, <1>1, <1>2, <2>1 DEF SearchersSound
  <2> QED BY <2>1, <2>2, OneSearcher
<1> QED BY <1>3, <1>4, <1>5, <1>6, <1>7, <1>8 DEF SearchStep, SearchFails, Reply

(* What was right stays so when more moments are on record.                *)
LEMMA SoundStays ==
  ASSUME IInv, past \subseteq past', UNCHANGED <<cache, pc, call, results>>
  PROVE  SearchersSound' /\ CacheSound'
<1>1. SearchersSound /\ CacheSound
  BY DEF IInv
<1>2. \A tenant, rs : Sound(past, tenant, rs) => Sound(past', tenant, rs)
  BY DEF Sound
<1> QED BY <1>1, <1>2 DEF SearchersSound, CacheSound

(* IInv is inductive. *)
LEMMA StepIInv == IInv /\ [Next]_vars => IInv'
<1> SUFFICES ASSUME IInv, [Next]_vars PROVE IInv'
  OBVIOUS
<1>0. /\ TypeOK /\ RowsCoherent /\ Indexed(table) \in past /\ SearchersSound /\ CacheSound
      /\ PathTypeOK
  BY DEF IInv, TypeOK
<1>1. ASSUME NEW k \in Keys, Expire(k) PROVE IInv'
  <2>1. /\ table' = table /\ reading' = reading /\ past' = past /\ changes' = changes
        /\ UNCHANGED <<pc, call, results>> /\ cache' = [cache EXCEPT ![k] = NULL]
    BY <1>1 DEF Expire, pathVars
  <2>2. TypeOK' /\ RowsCoherent' /\ Indexed(table)' \in past'
    BY <1>0, <2>1 DEF TypeOK, PathTypeOK, RowsCoherent, Indexed
  <2>3. \A e \in Keys : cache'[e] = NULL \/ cache'[e] = cache[e]
    BY <1>0, <2>1 DEF TypeOK
  <2>4. \A tenant \in Tenants, query \in Queries : <<tenant, query>> \in Keys
    BY DEF Keys
  <2>6. SearchersSound' /\ CacheSound'
    BY <1>0, <2>1, <2>3, <2>4 DEF SearchersSound, CacheSound
  <2> QED BY <2>2, <2>6 DEF IInv
<1>2. CASE ChangeTable
  <2>1. /\ Statement /\ past' = past \cup {Indexed(table')}
        /\ UNCHANGED <<cache, pc, call, results>>
    BY <1>2 DEF ChangeTable
  <2>2. PathTypeOK' /\ RowsCoherent'
    BY <1>0, <2>1, StatementKeeps
  <2>3. Indexed(table') \in [Docs -> Row \cup {NULL}]
    BY <2>2 DEF Indexed, PathTypeOK
  <2>4. changes' \in 0..MaxChanges
    BY <1>0, <1>2 DEF ChangeTable, TypeOK
  <2>5. TypeOK'
    BY <1>0, <2>1, <2>2, <2>3, <2>4 DEF TypeOK
  <2>6. SearchersSound' /\ CacheSound'
    BY <2>1, SoundStays
  <2> QED BY <2>1, <2>2, <2>5, <2>6 DEF IInv, Indexed
<1>3. CASE Embed
  <2>1. WorkerStep /\ UNCHANGED <<cache, pc, call, results, past, changes>> /\ table' = table
    BY <1>3 DEF Embed, WorkerStep, Read, Forget
  <2>2. PathTypeOK' /\ RowsCoherent'
    BY <1>0, <2>1, WorkerKeeps
  <2>3. TypeOK' /\ Indexed(table)' \in past'
    BY <1>0, <2>1, <2>2 DEF TypeOK, Indexed
  <2>4. SearchersSound' /\ CacheSound'
    BY <2>1, SoundStays
  <2> QED BY <2>2, <2>3, <2>4 DEF IInv
<1>4. CASE Crash
  <2>1. /\ table' = table /\ reading' = reading /\ UNCHANGED <<cache, past, changes>>
        /\ pc' = [s \in Searchers |-> "idle"] /\ call' = [s \in Searchers |-> NULL]
        /\ results' = [s \in Searchers |-> {}]
    BY <1>4 DEF Crash, pathVars
  <2>2. TypeOK' /\ RowsCoherent' /\ Indexed(table)' \in past' /\ SearchersSound'
    BY <1>0, <2>1 DEF TypeOK, PathTypeOK, RowsCoherent, Indexed, SearchersSound
  <2>3. CacheSound'
    BY <1>0, <2>1 DEF CacheSound, Sound
  <2> QED BY <2>2, <2>3 DEF IInv
<1>5. CASE UNCHANGED vars
  <2>1. /\ table' = table /\ reading' = reading
        /\ UNCHANGED <<cache, pc, call, results, past, changes>>
    BY <1>5 DEF vars, pathVars
  <2>2. TypeOK' /\ RowsCoherent' /\ Indexed(table)' \in past'
    BY <1>0, <2>1 DEF TypeOK, PathTypeOK, RowsCoherent, Indexed
  <2>3. SearchersSound' /\ CacheSound'
    BY <2>1, SoundStays
  <2> QED BY <2>2, <2>3 DEF IInv
<1> QED BY <1>1, <1>2, <1>3, <1>4, <1>5, SearcherStep DEF Next

-----------------------------------------------------------------------------
(* IInv is inductive: what is found and what is cached is sound.           *)
THEOREM Inductive == Spec => []IInv
BY InitIInv, StepIInv, PTL DEF Spec

(* The state of the read path stays within its types; the limit in force   *)
(* stays within the maximum.                                               *)
THEOREM TypeCorrect == Spec => []TypeOK
<1>1. IInv => TypeOK
  BY DEF IInv
<1> QED BY <1>1, Inductive, PTL

(* What a search shows to a tenant, from the table or from the cache, is   *)
(* under ids of that tenant, with texts posted under them.                 *)
THEOREM TenantsAreIsolated == Spec => []TenantIsolation
<1>1. IInv => TenantIsolation
  <2> SUFFICES ASSUME IInv PROVE TenantIsolation
    OBVIOUS
  <2>1. TypeOK /\ SearchersSound /\ CacheSound
    BY DEF IInv
  <2>2. ASSUME NEW s \in Searchers, pc[s] # "idle" PROVE Shown(call[s].tenant, results[s])
    <3>1. CASE pc[s] \in {"store", "reply"}
      BY <2>1, <3>1 DEF SearchersSound, Sound
    <3>2. CASE pc[s] \notin {"store", "reply"}
      <4>1. results[s] = {}
        BY <2>1, <2>2, <3>2 DEF TypeOK, SearchersSound
      <4> QED BY <4>1 DEF Shown
    <3> QED BY <3>1, <3>2
  <2> QED BY <2>1, <2>2 DEF TenantIsolation, CacheSound, Sound
<1> QED BY <1>1, Inductive, PTL

(* As long as no id is posted for two tenants, leakage is impossible as    *)
(* the code says: whatever the cache holds and whenever vectors are        *)
(* written, a search shows only what its tenant posts.  The run of        *)
(* SearchLeak.cfg shows that the assumption is needed.                     *)
THEOREM OnlySharedIdsLeak ==
  ASSUME \A u, v \in Uploads : u.doc = v.doc => u.tenant = v.tenant
  PROVE  Spec => []NoLeakage
<1>1. TypeOK /\ TenantIsolation => NoLeakage
  <2> SUFFICES ASSUME TypeOK, TenantIsolation,
                      NEW s \in Searchers, pc[s] = "reply", NEW r \in results[s]
               PROVE  [doc |-> r.doc, tenant |-> call[s].tenant, text |-> r.text] \in Uploads
    BY DEF NoLeakage
  <2>1. Shown(call[s].tenant, results[s])
    BY DEF TenantIsolation
  <2>2. PICK u \in Uploads : u.doc = r.doc /\ u.tenant = call[s].tenant
    BY <2>1 DEF Shown
  <2>3. PICK v \in Uploads : v.doc = r.doc /\ v.text = r.text
    BY <2>1 DEF Shown
  <2>4. v.tenant = call[s].tenant
    BY <2>2, <2>3
  <2>5. v = [doc |-> v.doc, tenant |-> v.tenant, text |-> v.text]
    BY WritePathConstants
  <2> QED BY <2>3, <2>4, <2>5
<1> QED BY <1>1, TypeCorrect, TenantsAreIsolated, PTL

(* Every answer, from the table or from the cache, was right as a whole at *)
(* one moment: indexed rows of its tenant, with the texts they had then.   *)
THEOREM AnswersWereRight == Spec => []OnceRight
<1>1. IInv => OnceRight
  BY DEF IInv, SearchersSound, CacheSound, Sound, OnceRight
<1> QED BY <1>1, Inductive, PTL
=============================================================================
