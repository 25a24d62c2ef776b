-------------------------------- MODULE Search --------------------------------
(***************************************************************************)
(* The read path: Search of cmd/search, the result cache of internal/cache *)
(* and SearchSimilar of internal/db, while the write path changes the      *)
(* documents table as WritePath says.                                      *)
(*                                                                         *)
(* A query is identified with its vector.  The age of a cache entry is     *)
(* abstract: its TTL may end at any moment after it was set.  Which rows   *)
(* are nearest is not modelled: the index is an approximate one, so that   *)
(* any choice of them is a possible answer.                                *)
(***************************************************************************)
EXTENDS Naturals, FiniteSets, WritePath

CONSTANTS
  Searchers,     \* concurrent Search calls
  Queries,       \* query vectors
  Limits,        \* limits that clients ask for, 0 when they ask for none
  DefaultLimit,  \* 10
  MaxLimit,      \* 100
  MaxChanges     \* bound: statements of the write path

ASSUME SearchConstants ==
  /\ IsFiniteSet(Docs)
  /\ Limits \subseteq Nat
  /\ DefaultLimit \in Nat \ {0} /\ MaxLimit \in Nat /\ DefaultLimit <= MaxLimit
  /\ MaxChanges \in Nat

VARIABLES
  cache,     \* Redis: results by key, NULL for none
  pc, call,  \* where each searcher is, and what it was asked
  results,   \* what it has found
  past,      \* ghost: the indexed rows, at every moment so far
  changes

vars == <<pathVars, cache, pc, call, results, past, changes>>

Result == [doc : Docs, text : Texts]
Call == [tenant : Tenants, query : Queries, limit : 1..MaxLimit]
Keys == Tenants \X Queries

Indexed(tb) ==
  [d \in Docs |-> IF tb[d] # NULL /\ tb[d].status = "indexed" THEN tb[d] ELSE NULL]

(* Type correctness of the whole state. *)
TypeOK ==
  /\ PathTypeOK
  /\ cache \in [Keys -> (SUBSET Result) \cup {NULL}]
  /\ pc \in [Searchers -> {"idle", "lookup", "query", "store", "reply"}]
  /\ call \in [Searchers -> Call \cup {NULL}]
  /\ \A s \in Searchers : pc[s] # "idle" => call[s] \in Call
  /\ results \in [Searchers -> SUBSET Result]
  /\ past \subseteq [Docs -> Row \cup {NULL}]
  /\ changes \in 0..MaxChanges

Init ==
  /\ PathInit
  /\ cache = [k \in Keys |-> NULL]
  /\ pc = [s \in Searchers |-> "idle"]
  /\ call = [s \in Searchers |-> NULL]
  /\ results = [s \in Searchers |-> {}]
  /\ past = {Indexed(table)}
  /\ changes = 0

-----------------------------------------------------------------------------
(* Mutant: no upper bound. *)
LimitUnbounded(asked) == IF asked = 0 THEN DefaultLimit ELSE asked

(* The limit of a request: none asked for, or too many. *)
Limit(asked) == IF asked = 0 THEN DefaultLimit
                  ELSE IF asked > MaxLimit THEN MaxLimit ELSE asked

(* Mutant: the key is the hash of the vector alone. *)
CacheKeySharedByTenants(c) == <<CHOOSE t \in Tenants : TRUE, c.query>>

(* The limit is not part of the key. *)
CacheKey(c) == <<c.tenant, c.query>>

(* Mutant: a row keeps being found while it waits for its new vector. *)
CandidatesPendingToo(tenant) ==
  {d \in Docs : table[d] # NULL /\ table[d].tenant = tenant}

(* WHERE tenant_id = $2 AND status = 'indexed'. *)
Candidates(tenant) ==
  {d \in Docs : /\ table[d] # NULL
                /\ table[d].tenant = tenant
                /\ table[d].status = "indexed"}

(* ORDER BY embedding <=> $1 LIMIT $3: the index finds some neighbours,    *)
(* not always the nearest, and fewer than there are when its candidates    *)
(* are rows of other tenants.  (The order of the answer is left out.)      *)
Nearest(c, ds) == ds \subseteq Candidates(c.tenant) /\ Cardinality(ds) <= c.limit

ResultsOf(ds) == {[doc |-> d, text |-> table[d].text] : d \in ds}

-----------------------------------------------------------------------------
Goto(s, to) == pc' = [pc EXCEPT ![s] = to]

(* The call returns. *)
Return(s) ==
  /\ Goto(s, "idle")
  /\ call' = [call EXCEPT ![s] = NULL]
  /\ results' = [results EXCEPT ![s] = {}]
  /\ UNCHANGED <<pathVars, cache, past, changes>>

(* A Search call whose query has been embedded; one whose embedding fails  *)
(* returns an error and has touched nothing.                               *)
Start(s, tenant, query, asked) ==
  /\ pc[s] = "idle"
  /\ Goto(s, "lookup")
  /\ call' = [call EXCEPT ![s] = [tenant |-> tenant, query |-> query, limit |-> Limit(asked)]]
  /\ UNCHANGED <<pathVars, cache, results, past, changes>>

(* Mutant: the entry is set again, its TTL starts over. *)
AfterHitStore == "store"

(* A cached answer is not stored again. *)
AfterHit == "reply"

Hit(s) ==
  /\ pc[s] = "lookup"
  /\ cache[CacheKey(call[s])] # NULL
  /\ results' = [results EXCEPT ![s] = cache[CacheKey(call[s])]]
  /\ Goto(s, AfterHit)
  /\ UNCHANGED <<pathVars, cache, call, past, changes>>

(* There is no entry, Redis does not answer, or the entry does not         *)
(* unmarshal: all are misses.                                              *)
Miss(s) ==
  /\ pc[s] = "lookup"
  /\ Goto(s, "query")
  /\ UNCHANGED <<pathVars, cache, call, results, past, changes>>

SearchSimilar(s) ==
  /\ pc[s] = "query"
  /\ \E ds \in SUBSET Docs :
       /\ Nearest(call[s], ds)
       /\ results' = [results EXCEPT ![s] = ResultsOf(ds)]
  /\ Goto(s, "store")
  /\ UNCHANGED <<pathVars, cache, call, past, changes>>

(* Postgres fails: the call returns an error. *)
SearchFails(s) ==
  /\ pc[s] = "query"
  /\ Return(s)

(* SET with the TTL; when Redis fails, the call goes on. *)
SetResults(s) ==
  /\ pc[s] = "store"
  /\ \E stored \in BOOLEAN :
       cache' = IF stored THEN [cache EXCEPT ![CacheKey(call[s])] = results[s]] ELSE cache
  /\ Goto(s, "reply")
  /\ UNCHANGED <<pathVars, call, results, past, changes>>

Reply(s) ==
  /\ pc[s] = "reply"
  /\ Return(s)

(* The pod ends, perhaps in a panic: Embed takes the first of the vectors, *)
(* and the API may have listed none.  Redis keeps what was stored.         *)
Crash ==
  /\ pc' = [s \in Searchers |-> "idle"]
  /\ call' = [s \in Searchers |-> NULL]
  /\ results' = [s \in Searchers |-> {}]
  /\ UNCHANGED <<pathVars, cache, past, changes>>

(* The TTL of an entry ends, or Redis evicts it. *)
Expire(k) ==
  /\ cache[k] # NULL
  /\ cache' = [cache EXCEPT ![k] = NULL]
  /\ UNCHANGED <<pathVars, pc, call, results, past, changes>>

-----------------------------------------------------------------------------
(* The write path; no statement of it touches the cache. *)
ChangeTable ==
  /\ Statement
  /\ past' = past \cup {Indexed(table')}
  /\ changes' = IF table' = table THEN changes ELSE changes + 1
  /\ changes' <= MaxChanges
  /\ UNCHANGED <<cache, pc, call, results>>

Embed ==
  /\ WorkerStep
  /\ UNCHANGED <<cache, pc, call, results, past, changes>>

-----------------------------------------------------------------------------
SearchStep(s) ==
  Hit(s) \/ Miss(s) \/ SearchSimilar(s) \/ SearchFails(s) \/ SetResults(s) \/ Reply(s)

Next ==
  \/ \E s \in Searchers :
       \/ \E tenant \in Tenants, query \in Queries, asked \in Limits :
            Start(s, tenant, query, asked)
       \/ SearchStep(s)
  \/ Crash
  \/ \E k \in Keys : Expire(k)
  \/ ChangeTable \/ Embed

Spec == Init /\ [][Next]_vars

(* A call ends, and so does a TTL. *)
Fairness ==
  /\ \A s \in Searchers : WF_vars(SearchStep(s))
  /\ \A k \in Keys : WF_vars(Expire(k))

FairSpec == Spec /\ Fairness

-----------------------------------------------------------------------------
(* What a search of a tenant finds, in the table or in the cache, is only  *)
(* under ids that the tenant itself posts, and with texts posted under     *)
(* them: an id that one tenant uses is never shown to another.             *)
Shown(tenant, rs) ==
  \A r \in rs : /\ \E u \in Uploads : u.doc = r.doc /\ u.tenant = tenant
                /\ \E u \in Uploads : u.doc = r.doc /\ u.text = r.text

TenantIsolation ==
  /\ \A s \in Searchers : pc[s] # "idle" => Shown(call[s].tenant, results[s])
  /\ \A tenant \in Tenants, query \in Queries :
       cache[<<tenant, query>>] # NULL => Shown(tenant, cache[<<tenant, query>>])

(* With these indexed rows, rs is right for a search of the tenant: texts  *)
(* that rows of the tenant have, and at most the maximum of them.          *)
Right(rows, tenant, rs) ==
  /\ Cardinality(rs) <= MaxLimit
  /\ \A r \in rs : /\ rows[r.doc] # NULL /\ rows[r.doc].tenant = tenant
                   /\ rows[r.doc].text = r.text

(* Every answer, from the table or from the cache, was right as a whole at *)
(* one moment: never a mixture of two, never a row that waits for its      *)
(* vector.                                                                 *)
OnceRight ==
  /\ \A s \in Searchers : pc[s] \in {"store", "reply"} =>
       \E rows \in past : Right(rows, call[s].tenant, results[s])
  /\ \A tenant \in Tenants, query \in Queries :
       cache[<<tenant, query>>] # NULL =>
         \E rows \in past : Right(rows, tenant, cache[<<tenant, query>>])

(* Nothing invalidates an entry, and a search that read the table before a *)
(* change may set one after it.  All the same, once the table no longer    *)
(* changes the cache ends up with present texts and keeps none but such.   *)
EventuallyFresh ==
  <>[](\A tenant \in Tenants, query \in Queries :
         cache[<<tenant, query>>] # NULL =>
           Right(Indexed(table), tenant, cache[<<tenant, query>>]))

-----------------------------------------------------------------------------
(* What the repository says of itself.                                     *)

(* SearchSimilar: with the filter on the tenant, cross-tenant leakage is   *)
(* impossible: what a search shows is what its tenant posts.               *)
NoLeakage ==
  \A s \in Searchers : pc[s] = "reply" =>
    \A r \in results[s] :
      [doc |-> r.doc, tenant |-> call[s].tenant, text |-> r.text] \in Uploads
=============================================================================
