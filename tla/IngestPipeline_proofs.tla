------------------------ MODULE IngestPipeline_proofs -------------------------
(* Theorems about IngestPipeline, for any documents, tenants, workers and  *)
(* bounds.                                                                 *)
EXTENDS IngestPipeline, Documents_proofs

USE NullIsNoValue, PipelineConstants

-----------------------------------------------------------------------------
(* Type correctness.                                                       *)

(* One slot moves: what it holds afterwards. *)
LEMMA GotoLemma ==
  ASSUME TypeOK, NEW s \in Slots, NEW to \in {"fetch", "embed", "delete"}, Goto(s, to)
  PROVE  /\ slot' \in [Slots -> Slot]
         /\ slot'[s].pc = to /\ slot'[s].msg = slot[s].msg
         /\ slot'[s].text = slot[s].text /\ slot'[s].current = slot[s].current
         /\ \A t \in Slots : t # s => slot'[t] = slot[t]
<1>1. LET r == [slot[s] EXCEPT !.pc = to]
      IN /\ r \in Slot /\ r.pc = to /\ r.msg = slot[s].msg
         /\ r.text = slot[s].text /\ r.current = slot[s].current
  BY DEF TypeOK, Slot
<1>2. slot' = [slot EXCEPT ![s] = [slot[s] EXCEPT !.pc = to]] /\ slot \in [Slots -> Slot]
  BY DEF Goto, TypeOK
<1> QED BY <1>1, <1>2

(* A slot that is released is idle, the others stay.                       *)
LEMMA ReleaseLemma ==
  ASSUME TypeOK, NEW s \in Slots, Release(s)
  PROVE  /\ slot' \in [Slots -> Slot]
         /\ slot'[s].pc = "idle"
         /\ \A t \in Slots : t # s => slot'[t] = slot[t]
<1>1. Idle \in Slot /\ Idle.pc = "idle"
  BY DEF Idle, Slot
<1> QED BY <1>1 DEF Release, TypeOK

(* A fetch leads to an embedding of the text the row has now.              *)
LEMMA FetchLemma ==
  ASSUME TypeOK, NEW s \in Slots, FetchText(s)
  PROVE  /\ slot[s].msg \in Message /\ slot[s].msg.doc \in Docs
         /\ table[slot[s].msg.doc] \in Row
         /\ slot' \in [Slots -> Slot]
         /\ slot'[s].pc = "embed" /\ slot'[s].msg = slot[s].msg
         /\ slot'[s].text = table[slot[s].msg.doc].text
         /\ slot'[s].text \in Texts /\ slot'[s].current = slot[s].current
         /\ \A t \in Slots : t # s => slot'[t] = slot[t]
<1>1. slot[s] \in Slot /\ slot[s].msg \in Message
  BY DEF TypeOK, FetchText
<1>2. /\ slot[s].msg.doc \in Docs
      /\ RowOf(slot[s].msg) = table[slot[s].msg.doc]
      /\ table[slot[s].msg.doc] \in Row
  BY <1>1 DEF FetchText, RowOf, Message, TypeOK
<1>3. table[slot[s].msg.doc].text \in Texts
  BY <1>2 DEF Row
<1> DEFINE r == [slot[s] EXCEPT !.pc = "embed", !.text = table[slot[s].msg.doc].text]
<1>4. /\ r \in Slot /\ r.pc = "embed" /\ r.msg = slot[s].msg
      /\ r.text = table[slot[s].msg.doc].text /\ r.current = slot[s].current
  BY <1>1, <1>3 DEF Slot
<1>5. slot' = [slot EXCEPT ![s] = r] /\ slot \in [Slots -> Slot]
  BY <1>2 DEF FetchText, TypeOK
<1> HIDE DEF r
<1> QED BY <1>1, <1>2, <1>3, <1>4, <1>5

(* A received message is in one new slot, under a lease of its own. *)
LEMMA ReceiveLemma ==
  ASSUME TypeOK, NEW p \in Pods, NEW batch, Receive(p, batch)
  PROVE  /\ batch \subseteq messages /\ inflight' = inflight \cup batch
         /\ \A m \in batch : \A n \in inflight : n.group # m.group
         /\ slot' \in [Slots -> Slot]
         /\ \A s \in Slots :
              \/ slot'[s] = slot[s]
              \/ /\ slot[s].pc = "idle" /\ slot'[s].pc = "fetch"
                 /\ slot'[s].msg \in batch /\ slot'[s].current = TRUE
         /\ \A s, t \in Slots :
              slot'[s] # slot[s] /\ slot'[t] # slot[t] /\ slot'[s].msg = slot'[t].msg => s = t
<1> DEFINE idle == {s \in Slots : PodOf[s] = p /\ slot[s].pc = "idle"}
<1>1. PICK place \in Injection(batch, idle) :
        slot' = [s \in Slots |->
                   IF \E m \in batch : place[m] = s
                     THEN [pc |-> "fetch", msg |-> CHOOSE m \in batch : place[m] = s,
                           text |-> NULL, current |-> TRUE]
                     ELSE slot[s]]
  BY DEF Receive, MessageAt
<1>2. /\ batch \subseteq messages /\ inflight' = inflight \cup batch
      /\ \A m \in batch : \A n \in inflight : n.group # m.group
  BY DEF Receive, Receivable
<1>3. place \in [batch -> idle]
  BY <1>1 DEF Injection
<1>4. ASSUME NEW s \in Slots, \E m \in batch : place[m] = s
      PROVE  /\ slot'[s].msg \in batch /\ place[slot'[s].msg] = s /\ s \in idle
             /\ slot'[s].pc = "fetch" /\ slot'[s].current = TRUE
             /\ slot'[s] \in Slot
  <2> DEFINE n == CHOOSE m \in batch : place[m] = s
  <2>1. n \in batch /\ place[n] = s /\ s \in idle
    BY <1>3, <1>4
  <2>2. slot'[s] = [pc |-> "fetch", msg |-> n, text |-> NULL, current |-> TRUE]
    BY <1>1, <1>4
  <2>3. n \in Message
    BY <1>2, <2>1 DEF TypeOK, QueueTypeOK
  <2> HIDE DEF n, idle
  <2> QED BY <2>1, <2>2, <2>3 DEF Slot
<1>5. \A s \in Slots : \/ slot'[s] = slot[s]
                       \/ \E m \in batch : place[m] = s
  BY <1>1
<1>6. slot' \in [Slots -> Slot]
  <2>1. ASSUME NEW s \in Slots PROVE slot'[s] \in Slot
    <3>1. CASE slot'[s] = slot[s]
      BY <3>1 DEF TypeOK
    <3>2. CASE \E m \in batch : place[m] = s
      BY <3>2, <1>4
    <3> QED BY <1>5, <3>1, <3>2
  <2>2. slot' = [s \in Slots |-> slot'[s]]
    BY <1>1
  <2> QED BY <2>1, <2>2
<1>9. ASSUME NEW s \in Slots, NEW t \in Slots, slot'[s] # slot[s], slot'[t] # slot[t],
             slot'[s].msg = slot'[t].msg
      PROVE  s = t
  <2>1. place[slot'[s].msg] = s
    BY <1>4, <1>5, <1>9
  <2>2. place[slot'[t].msg] = t
    BY <1>4, <1>5, <1>9
  <2> QED BY <1>9, <2>1, <2>2
<1>10. ASSUME NEW s \in Slots
       PROVE  \/ slot'[s] = slot[s]
              \/ /\ slot[s].pc = "idle" /\ slot'[s].pc = "fetch"
                 /\ slot'[s].msg \in batch /\ slot'[s].current = TRUE
  BY <1>4, <1>5
<1> QED BY <1>2, <1>6, <1>9, <1>10

(* The messages of a batch all go to one pod.                              *)
LEMMA ReceivePod ==
  ASSUME NEW p \in Pods, NEW batch, Receive(p, batch),
         NEW s \in Slots, slot'[s] # slot[s]
  PROVE  PodOf[s] = p
<1>1. PICK place \in Injection(batch, {t \in Slots : PodOf[t] = p /\ slot[t].pc = "idle"}) :
        slot' = [t \in Slots |->
                   IF \E m \in batch : place[m] = t
                     THEN [pc |-> "fetch", msg |-> MessageAt(batch, place, t),
                           text |-> NULL, current |-> TRUE]
                     ELSE slot[t]]
  BY DEF Receive
<1>2. PICK m \in batch : place[m] = s
  BY <1>1
<1> QED BY <1>1, <1>2 DEF Injection

(* Slots whose lease ends: nothing else of them changes. *)
LEMMA EndLeaseLemma ==
  ASSUME TypeOK, NEW m, EndLease(m)
  PROVE  /\ slot' \in [Slots -> Slot]
         /\ \A s \in Slots :
              /\ slot'[s].pc = slot[s].pc /\ slot'[s].msg = slot[s].msg
              /\ slot'[s].text = slot[s].text
              /\ slot'[s].current => slot[s].current /\ s \notin Holders(m)
<1>1. ASSUME NEW r \in Slot
      PROVE  LET q == [r EXCEPT !.current = FALSE]
             IN /\ q \in Slot /\ q.pc = r.pc /\ q.msg = r.msg /\ q.text = r.text
                /\ q.current = FALSE
  BY DEF Slot
<1>2. slot' = [s \in Slots |-> IF s \in Holders(m) THEN [slot[s] EXCEPT !.current = FALSE]
                                                   ELSE slot[s]]
  BY DEF EndLease
<1> QED BY <1>1, <1>2 DEF TypeOK
(* Blame names a cause unless another job waits.                           *)
LEMMA BlameLemma ==
  ASSUME TypeOK, NEW d, NEW why \in Causes, NEW lost, Blame(d, why, lost)
  PROVE  /\ suspect' \in [Docs -> SUBSET Causes]
         /\ \A e \in Docs : suspect[e] \subseteq suspect'[e]
         /\ d \in Docs /\ Waiting(d) \subseteq lost => suspect'[d] # {}
BY DEF Blame, TypeOK

(* A job names a document and a tenant. *)
LEMMA JobTypes ==
  /\ NULL \notin Jobs
  /\ \A job \in Jobs : /\ job.doc \in Docs /\ job.tenant \in Tenants
                       /\ [doc |-> job.doc, tenant |-> job.tenant] = job
BY DEF Jobs

(* The message that SendMessage makes of a job. *)
Sent(job) == [id |-> nextId, doc |-> job.doc, group |-> job.tenant]

(* It is a new one. *)
LEMMA SentLemma ==
  ASSUME TypeOK, NEW job \in Jobs
  PROVE  /\ Sent(job) \in Message /\ Sent(job).id = nextId /\ nextId \in Nat
         /\ Sent(job).doc = job.doc /\ Sent(job).group = job.tenant
BY JobTypes DEF Sent, TypeOK, QueueTypeOK, Message

(* The two outcomes of SendMessage. *)
LEMMA PublishLemma ==
  ASSUME TypeOK, NEW job \in Jobs, PublishJob(job)
  PROVE  /\ QueueTypeOK' /\ suspect' \in [Docs -> SUBSET Causes]
         /\ inflight' = inflight /\ messages \subseteq messages'
         /\ \A e \in Docs : e # job.doc => suspect[e] \subseteq suspect'[e]
         /\ \/ /\ messages' = messages /\ nextId' = nextId
               /\ Waiting(job.doc) = {} => suspect'[job.doc] # {}
            \/ messages' = messages \cup {Sent(job)} /\ nextId' = nextId + 1
<1>0. job.doc \in Docs
  BY JobTypes
<1>1. CASE job.doc \in dedup
  <2>1. UNCHANGED queueVars /\ Blame(job.doc, "dedup", {})
    BY <1>1 DEF PublishJob, Publish
  <2>2. QueueTypeOK'
    BY <2>1 DEF TypeOK, QueueTypeOK, queueVars
  <2> QED BY <1>0, <2>1, <2>2, BlameLemma DEF queueVars, Causes
<1>2. CASE job.doc \notin dedup
  <2>1. /\ messages' = messages \cup {Sent(job)}
        /\ nextId' = nextId + 1 /\ inflight' = inflight
        /\ dedup' = dedup \cup {job.doc}
        /\ suspect' = [suspect EXCEPT ![job.doc] = {}]
    BY <1>2 DEF PublishJob, Publish, Send, Sent
  <2>2. QueueTypeOK'
    BY <1>0, <2>1, SentLemma DEF TypeOK, QueueTypeOK
  <2> QED BY <1>0, <2>1, <2>2 DEF TypeOK
<1> QED BY <1>1, <1>2

(* A message that is removed is nowhere in the queue.                      *)
LEMMA RemoveLemma ==
  ASSUME TypeOK, NEW m, Remove(m)
  PROVE  /\ QueueTypeOK'
         /\ messages' = messages \ {m} /\ inflight' = inflight \ {m} /\ nextId' = nextId
BY DEF Remove, TypeOK, QueueTypeOK

(* Budgets stay within their bounds. *)
LEMMA BudgetLemma ==
  ASSUME TypeOK, Request \/ Fault \/ NoBudget
  PROVE  requests' \in 0..MaxRequests /\ faults' \in 0..MaxFaults
BY DEF TypeOK, Request, Fault, NoBudget

(* The part of TypeOK about what slots hold. *)
SlotTypeOK ==
  /\ slot \in [Slots -> Slot]
  /\ \A s \in Slots : /\ slot[s].pc # "idle" => slot[s].msg \in Message
                      /\ slot[s].pc = "embed" => /\ slot[s].msg.doc \in Docs
                                                 /\ slot[s].text \in Texts

(* Every way of moving the slots keeps their type.                         *)
LEMMA SlotTypeSteps ==
  ASSUME TypeOK
  PROVE  /\ \A s \in Slots : slot[s].pc # "idle" /\ Goto(s, "delete") => SlotTypeOK'
         /\ \A s \in Slots : Release(s) => SlotTypeOK'
         /\ \A s \in Slots : FetchText(s) => SlotTypeOK'
         /\ \A p \in Pods : \A batch : Receive(p, batch) => SlotTypeOK'
         /\ \A p \in Pods : \A ss : EmbedRejected(p, ss) => SlotTypeOK'
         /\ \A p \in Pods : WorkerCrash(p) => SlotTypeOK'
         /\ \A m : EndLease(m) => SlotTypeOK'
         /\ UNCHANGED slot => SlotTypeOK'
<1>0. SlotTypeOK
  BY DEF TypeOK, SlotTypeOK
<1>1. ASSUME NEW s \in Slots, slot[s].pc # "idle", Goto(s, "delete") PROVE SlotTypeOK'
  BY <1>0, <1>1, GotoLemma DEF SlotTypeOK
<1>2. ASSUME NEW s \in Slots, Release(s) PROVE SlotTypeOK'
  BY <1>0, <1>2, ReleaseLemma DEF SlotTypeOK
<1>3. ASSUME NEW s \in Slots, FetchText(s) PROVE SlotTypeOK'
  BY <1>0, <1>3, FetchLemma DEF SlotTypeOK
<1>4. ASSUME NEW p \in Pods, NEW batch, Receive(p, batch) PROVE SlotTypeOK'
  <2>1. batch \subseteq Message
    BY <1>4, ReceiveLemma DEF TypeOK, QueueTypeOK
  <2> QED BY <1>0, <1>4, <2>1, ReceiveLemma DEF SlotTypeOK
<1>5. ASSUME NEW p \in Pods, NEW ss, WorkerCrash(p) \/ EmbedRejected(p, ss) PROVE SlotTypeOK'
  <2>1. Idle \in Slot /\ Idle.pc = "idle"
    BY DEF Idle, Slot
  <2> QED BY <1>0, <1>5, <2>1 DEF SlotTypeOK, WorkerCrash, EmbedRejected
<1>6. ASSUME NEW m, EndLease(m) PROVE SlotTypeOK'
  BY <1>0, <1>6, EndLeaseLemma DEF SlotTypeOK
<1>7. ASSUME UNCHANGED slot PROVE SlotTypeOK'
  BY <1>0, <1>7 DEF SlotTypeOK
<1> QED BY <1>1, <1>2, <1>3, <1>4, <1>5, <1>6, <1>7

(* The part of TypeOK about the table: a row has the tenant of a job. *)
TableTypeOK ==
  /\ table \in [Docs -> Row \cup {NULL}]
  /\ \A d \in Docs : table[d] # NULL => [doc |-> d, tenant |-> table[d].tenant] \in Jobs

(* TypeOK is the conjunction of the types of the parts. *)
Parts ==
  /\ TableTypeOK
  /\ QueueTypeOK
  /\ handler \in [Handlers -> Jobs \cup {NULL}]
  /\ page \subseteq Jobs
  /\ SlotTypeOK
  /\ suspect \in [Docs -> SUBSET Causes]
  /\ requests \in 0..MaxRequests
  /\ faults \in 0..MaxFaults

(* The type invariant, cut in parts that the steps change separately.      *)
LEMMA TypeParts == (TypeOK <=> Parts) /\ (Parts' => TypeOK')
BY DEF TypeOK, SlotTypeOK, TableTypeOK, Parts

(* A step that leaves the table alone keeps its type.                      *)
LEMMA TableUnchanged == TableTypeOK /\ UNCHANGED table => TableTypeOK'
BY DEF TableTypeOK

(* A step that leaves the queue alone keeps its type.                      *)
LEMMA QueueUnchanged == QueueTypeOK /\ UNCHANGED queueVars => QueueTypeOK'
BY DEF QueueTypeOK, queueVars

(* Every step keeps the type invariant.                                    *)
LEMMA TypeStep == TypeOK /\ [Next]_vars => TypeOK'
<1> SUFFICES ASSUME TypeOK, [Next]_vars PROVE TypeOK'
  OBVIOUS
<1>0. /\ TableTypeOK
      /\ table \in [Docs -> Row \cup {NULL}]
      /\ QueueTypeOK
      /\ handler \in [Handlers -> Jobs \cup {NULL}]
      /\ page \subseteq Jobs
      /\ suspect \in [Docs -> SUBSET Causes]
  BY TypeParts, TableUnchanged DEF Parts, TableTypeOK
<1>1. ASSUME NEW h \in Handlers, NEW u \in Uploads, IngestUpsert(h, u)
      PROVE TypeOK'
  <2>0. /\ u.doc \in Docs /\ u.tenant \in Tenants /\ u.text \in Texts
        /\ [doc |-> u.doc, tenant |-> u.tenant] \in Jobs
    BY DEF Jobs
  <2>3. /\ table' \in [Docs -> Row \cup {NULL}]
        /\ \A e \in Docs : e # u.doc => table'[e] = table[e]
        /\ table'[u.doc].tenant =
             (IF table[u.doc] = NULL THEN u.tenant ELSE table[u.doc].tenant)
    BY <1>0, <1>1, <2>0, UpsertLemma DEF IngestUpsert
  <2>1. TableTypeOK'
    BY <1>0, <2>0, <2>3 DEF TableTypeOK
  <2>4. handler' \in [Handlers -> Jobs \cup {NULL}]
    BY <1>0, <1>1, <2>0 DEF IngestUpsert
  <2>2. SlotTypeOK' /\ requests' \in 0..MaxRequests /\ faults' \in 0..MaxFaults
    BY <1>1, SlotTypeSteps, BudgetLemma DEF IngestUpsert
  <2> QED BY <1>0, <1>1, <2>1, <2>2, <2>4, TypeParts, QueueUnchanged, TableUnchanged DEF Parts, IngestUpsert
<1>2. ASSUME NEW h \in Handlers, IngestPublish(h) PROVE TypeOK'
  <2>1. handler[h] \in Jobs
    BY <1>0, <1>2 DEF IngestPublish
  <2>2. QueueTypeOK' /\ suspect' \in [Docs -> SUBSET Causes]
    BY <1>2, <2>1, PublishLemma DEF IngestPublish
  <2>3. SlotTypeOK' /\ requests' \in 0..MaxRequests /\ faults' \in 0..MaxFaults
    BY <1>2, SlotTypeSteps, BudgetLemma DEF IngestPublish
  <2> QED BY <1>0, <1>2, <2>2, <2>3, TypeParts, TableUnchanged DEF Parts, IngestPublish
<1>3. ASSUME NEW h \in Handlers, IngestAbort(h) PROVE TypeOK'
  <2>1. suspect' \in [Docs -> SUBSET Causes]
    BY <1>3, BlameLemma DEF IngestAbort, Causes
  <2>2. SlotTypeOK' /\ requests' \in 0..MaxRequests /\ faults' \in 0..MaxFaults
    BY <1>3, SlotTypeSteps, BudgetLemma DEF IngestAbort
  <2> QED BY <1>0, <1>3, <2>1, <2>2, TypeParts, QueueUnchanged, TableUnchanged DEF Parts, IngestAbort
<1>4. ASSUME NEW d \in Docs, NEW tenant \in Tenants, ClientDelete(d, tenant) PROVE TypeOK'
  <2>3. /\ table' \in [Docs -> Row \cup {NULL}]
        /\ \A e \in Docs : table'[e] \in {table[e], NULL}
    BY <1>0, <1>4, DeleteLemma DEF ClientDelete
  <2>1. TableTypeOK'
    BY <1>0, <2>3 DEF TableTypeOK
  <2>2. SlotTypeOK' /\ requests' \in 0..MaxRequests /\ faults' \in 0..MaxFaults
    BY <1>4, SlotTypeSteps, BudgetLemma DEF ClientDelete
  <2> QED BY <1>0, <1>4, <2>1, <2>2, TypeParts, QueueUnchanged, TableUnchanged DEF Parts, ClientDelete
<1>5. ASSUME NEW ds \in SUBSET Docs, BackfillQuery(ds) PROVE TypeOK'
  <2>1. SlotTypeOK' /\ requests' \in 0..MaxRequests /\ faults' \in 0..MaxFaults
    BY <1>5, SlotTypeSteps, BudgetLemma DEF BackfillQuery
  <2>2. page' \subseteq Jobs
    BY <1>0, <1>5 DEF BackfillQuery, TableTypeOK
  <2> QED BY <1>0, <1>5, <2>1, <2>2, TypeParts, QueueUnchanged, TableUnchanged
          DEF Parts, BackfillQuery
<1>6. ASSUME NEW job \in Jobs, BackfillPublish(job) PROVE TypeOK'
  <2>1. QueueTypeOK' /\ suspect' \in [Docs -> SUBSET Causes]
    BY <1>6, PublishLemma DEF BackfillPublish
  <2>2. SlotTypeOK' /\ requests' \in 0..MaxRequests /\ faults' \in 0..MaxFaults
    BY <1>6, SlotTypeSteps, BudgetLemma DEF BackfillPublish
  <2> QED BY <1>0, <1>6, <2>1, <2>2, TypeParts, TableUnchanged DEF Parts, BackfillPublish
<1>7. ASSUME NEW job \in Jobs, BackfillFails(job) PROVE TypeOK'
  <2>1. suspect' \in [Docs -> SUBSET Causes]
    BY <1>7, BlameLemma DEF BackfillFails, Causes
  <2>2. SlotTypeOK' /\ requests' \in 0..MaxRequests /\ faults' \in 0..MaxFaults
    BY <1>7, SlotTypeSteps, BudgetLemma DEF BackfillFails
  <2> QED BY <1>0, <1>7, <2>1, <2>2, TypeParts, QueueUnchanged, TableUnchanged DEF Parts, BackfillFails
<1>8. ASSUME NEW p \in Pods, NEW batch \in SUBSET messages, Receive(p, batch) PROVE TypeOK'
  <2>1. QueueTypeOK'
    BY <1>0, <1>8, ReceiveLemma DEF Receive, QueueTypeOK
  <2>2. SlotTypeOK' /\ requests' \in 0..MaxRequests /\ faults' \in 0..MaxFaults
    BY <1>8, SlotTypeSteps, BudgetLemma DEF Receive
  <2> QED BY <1>0, <1>8, <2>1, <2>2, TypeParts, TableUnchanged DEF Parts, Receive
<1>9. ASSUME NEW s \in Slots, FetchText(s) PROVE TypeOK'
  <2>1. SlotTypeOK' /\ requests' \in 0..MaxRequests /\ faults' \in 0..MaxFaults
    BY <1>9, SlotTypeSteps, BudgetLemma DEF FetchText
  <2> QED BY <1>0, <1>9, <2>1, TypeParts, QueueUnchanged, TableUnchanged DEF Parts, FetchText, RestUnchanged
<1>10. ASSUME NEW s \in Slots, Discard(s) PROVE TypeOK'
  <2>1. SlotTypeOK' /\ requests' \in 0..MaxRequests /\ faults' \in 0..MaxFaults
    BY <1>10, SlotTypeSteps, BudgetLemma DEF Discard
  <2> QED BY <1>0, <1>10, <2>1, TypeParts, QueueUnchanged, TableUnchanged DEF Parts, Discard, RestUnchanged
<1>11. ASSUME NEW s \in Slots, FetchFails(s) PROVE TypeOK'
  <2>1. SlotTypeOK' /\ requests' \in 0..MaxRequests /\ faults' \in 0..MaxFaults
    BY <1>11, SlotTypeSteps, BudgetLemma DEF FetchFails
  <2>2. suspect' \in [Docs -> SUBSET Causes]
    BY <1>11, BlameLemma DEF FetchFails, Causes
  <2> QED BY <1>0, <1>11, <2>1, <2>2, TypeParts, QueueUnchanged, TableUnchanged DEF Parts, FetchFails, RestUnchanged
<1>12. ASSUME NEW s \in Slots, WriteEmbedding(s) PROVE TypeOK'
  <2>1. SlotTypeOK' /\ requests' \in 0..MaxRequests /\ faults' \in 0..MaxFaults
    BY <1>12, SlotTypeSteps, BudgetLemma DEF WriteEmbedding
  <2>2. suspect' \in [Docs -> SUBSET Causes]
    BY <1>0, <1>12, BlameLemma DEF WriteEmbedding, Causes
  <2>3. slot[s].msg.doc \in Docs /\ slot[s].text \in Texts
    BY <1>12 DEF WriteEmbedding, TypeOK
  <2>5. /\ table' \in [Docs -> Row \cup {NULL}]
        /\ \A e \in Docs : e # slot[s].msg.doc => table'[e] = table[e]
        /\ table'[slot[s].msg.doc] # NULL =>
             /\ table[slot[s].msg.doc] # NULL
             /\ table'[slot[s].msg.doc].tenant = table[slot[s].msg.doc].tenant
    BY <1>0, <1>12, <2>3, SetEmbeddingLemma DEF WriteEmbedding
  <2>4. TableTypeOK'
    BY <1>0, <2>3, <2>5 DEF TableTypeOK
  <2> QED BY <1>0, <1>12, <2>1, <2>2, <2>4, TypeParts, QueueUnchanged, TableUnchanged
          DEF Parts, WriteEmbedding, RestUnchanged
<1>13. ASSUME NEW s \in Slots, Abandon(s) PROVE TypeOK'
  <2>1. SlotTypeOK' /\ requests' \in 0..MaxRequests /\ faults' \in 0..MaxFaults
    BY <1>13, SlotTypeSteps, BudgetLemma DEF Abandon
  <2> QED BY <1>0, <1>13, <2>1, TypeParts, QueueUnchanged, TableUnchanged DEF Parts, Abandon, RestUnchanged
<1>14. ASSUME NEW s \in Slots, Acknowledge(s) PROVE TypeOK'
  <2>1. SlotTypeOK' /\ requests' \in 0..MaxRequests /\ faults' \in 0..MaxFaults
    BY <1>14, SlotTypeSteps, BudgetLemma DEF Acknowledge
  <2>2. QueueTypeOK'
    BY <1>0, <1>14, RemoveLemma, QueueUnchanged DEF Acknowledge, Delete
  <2> QED BY <1>0, <1>14, <2>1, <2>2, TypeParts, TableUnchanged DEF Parts, Acknowledge
<1>15. ASSUME NEW p \in Pods, NEW ss \in SUBSET Slots, WorkerCrash(p) \/ EmbedRejected(p, ss)
       PROVE  TypeOK'
  <2>1. SlotTypeOK' /\ requests' \in 0..MaxRequests /\ faults' \in 0..MaxFaults
    BY <1>15, SlotTypeSteps, BudgetLemma DEF WorkerCrash, EmbedRejected
  <2> QED BY <1>0, <1>15, <2>1, TypeParts, QueueUnchanged, TableUnchanged
          DEF Parts, WorkerCrash, EmbedRejected, RestUnchanged
<1>16. ASSUME NEW m \in messages, LeaseEnds(m) \/ LeaseLapses(m) PROVE TypeOK'
  <2>1. SlotTypeOK' /\ requests' \in 0..MaxRequests /\ faults' \in 0..MaxFaults
    BY <1>16, SlotTypeSteps, BudgetLemma DEF LeaseEnds, LeaseLapses
  <2>2. QueueTypeOK'
    BY <1>0, <1>16 DEF LeaseEnds, LeaseLapses, QueueTypeOK
  <2> QED BY <1>0, <1>16, <2>1, <2>2, TypeParts, TableUnchanged DEF Parts, LeaseEnds, LeaseLapses
<1>17. ASSUME NEW m \in messages, RetentionExpires(m) PROVE TypeOK'
  <2>1. SlotTypeOK' /\ requests' \in 0..MaxRequests /\ faults' \in 0..MaxFaults
    BY <1>17, SlotTypeSteps, BudgetLemma DEF RetentionExpires
  <2>2. QueueTypeOK' /\ suspect' \in [Docs -> SUBSET Causes]
    BY <1>17, RemoveLemma, BlameLemma DEF RetentionExpires, Causes
  <2> QED BY <1>0, <1>17, <2>1, <2>2, TypeParts, TableUnchanged DEF Parts, RetentionExpires
<1>18. ASSUME NEW d \in Docs, DedupExpires(d) PROVE TypeOK'
  <2>1. SlotTypeOK' /\ requests' \in 0..MaxRequests /\ faults' \in 0..MaxFaults
    BY <1>18, SlotTypeSteps, BudgetLemma DEF DedupExpires
  <2>2. QueueTypeOK'
    BY <1>0, <1>18 DEF DedupExpires, QueueTypeOK
  <2> QED BY <1>0, <1>18, <2>1, <2>2, TypeParts, TableUnchanged DEF Parts, DedupExpires
<1>19. ASSUME NEW tenant \in Tenants, ForeignSend(tenant) PROVE TypeOK'
  <2>1. SlotTypeOK' /\ requests' \in 0..MaxRequests /\ faults' \in 0..MaxFaults
    BY <1>19, SlotTypeSteps, BudgetLemma DEF ForeignSend
  <2>2. [id |-> nextId, doc |-> NULL, group |-> tenant] \in Message
    BY <1>0 DEF QueueTypeOK, Message
  <2>3. QueueTypeOK'
    BY <1>0, <1>19, <2>2 DEF ForeignSend, Send, QueueTypeOK
  <2> QED BY <1>0, <1>19, <2>1, <2>3, TypeParts, TableUnchanged DEF Parts, ForeignSend
<1>20. CASE UNCHANGED vars
  <2>1. SlotTypeOK' /\ QueueTypeOK'
    BY <1>0, <1>20, SlotTypeSteps, QueueUnchanged DEF vars
  <2>2. requests \in 0..MaxRequests /\ faults \in 0..MaxFaults
    BY TypeParts DEF Parts
  <2> QED BY <1>0, <1>20, <2>1, <2>2, TypeParts, TableUnchanged DEF Parts, vars
<1> QED BY <1>1, <1>2, <1>3, <1>4, <1>5, <1>6, <1>7, <1>8, <1>9, <1>10, <1>11, <1>12,
           <1>13, <1>14, <1>15, <1>16, <1>17, <1>18, <1>19, <1>20
        DEF Next, ClientNext, WorkerNext, QueueNext
-----------------------------------------------------------------------------
(* Leases.                                                                 *)

(* No slot gets a message or a lease in this step: every step but Receive. *)
NoNewLease ==
  \A s \in Slots : slot'[s].pc # "idle" =>
    /\ slot[s].pc # "idle" /\ slot'[s].msg = slot[s].msg
    /\ slot'[s].current => slot[s].current

(* No slot starts to embed a text: every step but FetchText. *)
NoNewText ==
  \A s \in Slots : slot'[s].pc = "embed" =>
    slot[s].pc = "embed" /\ slot'[s].text = slot[s].text

(* Steps that move slots without taking leases or texts.                   *)
LEMMA SlotSteps ==
  ASSUME TypeOK
  PROVE  /\ \A s \in Slots : slot[s].pc # "idle" /\ Goto(s, "delete") => NoNewLease /\ NoNewText
         /\ \A s \in Slots : Release(s) => NoNewLease /\ NoNewText
         /\ \A s \in Slots : FetchText(s) => NoNewLease
         /\ \A p \in Pods : \A ss : EmbedRejected(p, ss) => NoNewLease /\ NoNewText
         /\ \A p \in Pods : WorkerCrash(p) => NoNewLease /\ NoNewText
         /\ \A m : EndLease(m) => NoNewLease /\ NoNewText
         /\ UNCHANGED slot => NoNewLease /\ NoNewText
<1>1. ASSUME NEW s \in Slots, slot[s].pc # "idle", Goto(s, "delete") PROVE NoNewLease /\ NoNewText
  BY <1>1, GotoLemma DEF NoNewLease, NoNewText
<1>2. ASSUME NEW s \in Slots, Release(s) PROVE NoNewLease /\ NoNewText
  BY <1>2, ReleaseLemma DEF NoNewLease, NoNewText
<1>3. ASSUME NEW s \in Slots, FetchText(s) PROVE NoNewLease
  BY <1>3, FetchLemma DEF NoNewLease, FetchText
<1>4. ASSUME NEW p \in Pods, NEW ss, WorkerCrash(p) \/ EmbedRejected(p, ss)
      PROVE  NoNewLease /\ NoNewText
  BY <1>4 DEF WorkerCrash, EmbedRejected, NoNewLease, NoNewText, Idle
<1>5. ASSUME NEW m, EndLease(m) PROVE NoNewLease /\ NoNewText
  BY <1>5, EndLeaseLemma DEF NoNewLease, NoNewText
<1>6. ASSUME UNCHANGED slot PROVE NoNewLease /\ NoNewText
  BY <1>6 DEF NoNewLease, NoNewText
<1> QED BY <1>1, <1>2, <1>3, <1>4, <1>5, <1>6

(* Without a new lease, Leases holds on if inflight keeps what is current. *)
LEMMA KeepLeases ==
  ASSUME TypeOK, Leases, NoNewLease, nextId' \in {nextId, nextId + 1},
         \A m \in messages' : \/ m \in messages
                              \/ /\ m.id < nextId'
                                 /\ m.doc # NULL => [doc |-> m.doc, tenant |-> m.group] \in Jobs,
         \A s \in Slots : slot'[s].pc # "idle" /\ slot'[s].current => slot'[s].msg \in inflight'
  PROVE  Leases'
<1>1. nextId \in Nat /\ \A m \in Message : m.id \in Nat
  BY DEF TypeOK, QueueTypeOK, Message
<1>2. \A m \in messages' :
        m.id < nextId' /\ (m.doc # NULL => [doc |-> m.doc, tenant |-> m.group] \in Jobs)
  <2>1. ASSUME NEW m \in messages PROVE m.id < nextId /\ m.id \in Nat
    BY <1>1 DEF Leases, TypeOK, QueueTypeOK
  <2>2. \A m \in messages : m.id < nextId'
    BY <1>1, <2>1
  <2>3. \A m \in messages : m.doc # NULL => [doc |-> m.doc, tenant |-> m.group] \in Jobs
    BY DEF Leases
  <2> QED BY <2>2, <2>3
<1>3. ASSUME NEW s \in Slots, slot'[s].pc # "idle" PROVE slot'[s].msg.id < nextId'
  <2>1. slot[s].msg \in Message /\ slot'[s].msg = slot[s].msg /\ slot[s].msg.id < nextId
    BY <1>3 DEF NoNewLease, Leases, TypeOK
  <2> QED BY <1>1, <2>1
<1>4. ASSUME NEW s \in Slots, NEW t \in Slots,
             slot'[s].pc # "idle", slot'[t].pc # "idle",
             slot'[s].current, slot'[t].current, slot'[s].msg = slot'[t].msg
      PROVE  s = t
  BY <1>4 DEF NoNewLease, Leases
<1> QED BY <1>2, <1>3, <1>4 DEF Leases

(* The queue drops a message that no other slot holds under its lease. *)
LEMMA KeepInflight ==
  ASSUME Leases, NoNewLease, NEW m, inflight' = inflight \/ inflight' = inflight \ {m},
         \A s \in Slots : slot'[s].pc # "idle" /\ slot'[s].msg = m /\ slot'[s].current
                            => inflight' = inflight
  PROVE  \A s \in Slots : slot'[s].pc # "idle" /\ slot'[s].current => slot'[s].msg \in inflight'
BY DEF Leases, NoNewLease

(* Every step keeps Leases.                                                *)
LEMMA LeasesStep == TypeOK /\ Leases /\ [Next]_vars => Leases'
<1> SUFFICES ASSUME TypeOK, Leases, [Next]_vars PROVE Leases'
  OBVIOUS
<1>1. ASSUME NoNewLease, UNCHANGED <<messages, inflight, nextId>> PROVE Leases'
  BY <1>1, KeepLeases DEF Leases, NoNewLease
<1>2. ASSUME NEW job \in Jobs, PublishJob(job), UNCHANGED slot PROVE Leases'
  <2>1. NoNewLease
    BY <1>2, SlotSteps
  <2>2. /\ Sent(job).id < nextId + 1 /\ nextId \in Nat
        /\ [doc |-> Sent(job).doc, tenant |-> Sent(job).group] \in Jobs
    BY SentLemma, JobTypes
  <2>3. \A m \in messages' :
          \/ m \in messages
          \/ m.id < nextId' /\ (m.doc # NULL => [doc |-> m.doc, tenant |-> m.group] \in Jobs)
    BY <1>2, <2>2, PublishLemma
  <2> QED BY <1>2, <2>1, <2>3, PublishLemma, KeepLeases, KeepInflight
<1>3. ASSUME NEW p \in Pods, NEW batch \in SUBSET messages, Receive(p, batch) PROVE Leases'
  <2>1. UNCHANGED <<messages, nextId>> /\ inflight' = inflight \cup batch
    BY <1>3 DEF Receive
  <2>2. batch \cap inflight = {}
    BY <1>3, ReceiveLemma
  <2>3. ASSUME NEW s \in Slots, slot'[s].pc # "idle"
        PROVE  slot'[s].msg.id < nextId' /\ (slot'[s].current => slot'[s].msg \in inflight')
    BY <1>3, <2>1, <2>3, ReceiveLemma DEF Leases
  <2>4. ASSUME NEW s \in Slots, NEW t \in Slots,
               slot'[s].pc # "idle", slot'[t].pc # "idle",
               slot'[s].current, slot'[t].current, slot'[s].msg = slot'[t].msg
        PROVE  s = t
    <3>1. CASE slot'[s] = slot[s] /\ slot'[t] = slot[t]
      BY <2>4, <3>1 DEF Leases
    <3>2. CASE slot'[s] # slot[s] /\ slot'[t] # slot[t]
      BY <1>3, <2>4, <3>2, ReceiveLemma
    <3>3. CASE slot'[s] # slot[s] /\ slot'[t] = slot[t]
      <4>1. slot'[s].msg \in batch
        BY <1>3, <3>3, ReceiveLemma
      <4>2. slot'[t].msg \in inflight
        BY <2>4, <3>3 DEF Leases
      <4> QED BY <2>2, <2>4, <4>1, <4>2
    <3>4. CASE slot'[s] = slot[s] /\ slot'[t] # slot[t]
      <4>1. slot'[t].msg \in batch
        BY <1>3, <3>4, ReceiveLemma
      <4>2. slot'[s].msg \in inflight
        BY <2>4, <3>4 DEF Leases
      <4> QED BY <2>2, <2>4, <4>1, <4>2
    <3> QED BY <3>1, <3>2, <3>3, <3>4
  <2> QED BY <2>1, <2>3, <2>4 DEF Leases
<1>4. ASSUME NEW s \in Slots, Acknowledge(s) PROVE Leases'
  <2>1. NoNewLease
    BY <1>4, SlotSteps DEF Acknowledge
  <2>2. CASE slot[s].current
    <3>1. Remove(slot[s].msg) /\ Release(s) /\ slot[s].pc # "idle"
      BY <1>4, <2>2 DEF Acknowledge, Delete
    <3>2. \A t \in Slots : slot'[t].pc # "idle" /\ slot'[t].current => slot'[t].msg # slot[s].msg
      BY <2>1, <2>2, <3>1, ReleaseLemma DEF Leases, NoNewLease
    <3> QED BY <2>1, <3>1, <3>2, KeepLeases, KeepInflight DEF Remove
  <2>3. CASE ~slot[s].current
    BY <1>1, <1>4, <2>1, <2>3 DEF Acknowledge, Delete, queueVars
  <2> QED BY <2>2, <2>3
<1>5. ASSUME NEW m \in messages, LeaseEnds(m) PROVE Leases'
  <2>1. NoNewLease
    BY <1>5, SlotSteps DEF LeaseEnds
  <2>2. \A t \in Slots : slot'[t].pc # "idle" /\ slot'[t].current => slot'[t].msg # m
    BY <1>5 DEF LeaseEnds, Busy, Holders
  <2> QED BY <1>5, <2>1, <2>2, KeepLeases, KeepInflight DEF LeaseEnds
<1>6. ASSUME NEW m \in messages, EndLease(m)
      PROVE  NoNewLease /\ \A t \in Slots :
               slot'[t].pc # "idle" /\ slot'[t].current => slot'[t].msg # m
  BY <1>6, SlotSteps, EndLeaseLemma DEF Holders
<1>7. ASSUME NEW m \in messages, LeaseLapses(m) PROVE Leases'
  BY <1>6, <1>7, KeepLeases, KeepInflight DEF LeaseLapses
<1>8. ASSUME NEW m \in messages, RetentionExpires(m) PROVE Leases'
  BY <1>6, <1>8, KeepLeases, KeepInflight DEF RetentionExpires, Remove
<1>9. ASSUME NEW tenant \in Tenants, ForeignSend(tenant) PROVE Leases'
  <2>1. NoNewLease /\ nextId \in Nat
    BY <1>9, SlotSteps DEF ForeignSend, TypeOK, QueueTypeOK
  <2>2. \A m \in messages' : m \in messages \/ (m.id < nextId' /\ m.doc = NULL)
    BY <1>9, <2>1 DEF ForeignSend, Send
  <2> QED BY <1>9, <2>1, <2>2, KeepLeases, KeepInflight DEF ForeignSend, Send
<1>10. ASSUME NEW s \in Slots,
              \/ FetchText(s) \/ Discard(s) \/ FetchFails(s)
              \/ WriteEmbedding(s) \/ Abandon(s)
       PROVE  Leases'
  <2>1. NoNewLease
    BY <1>10, SlotSteps DEF Discard, FetchFails, WriteEmbedding, Abandon
  <2> QED BY <1>1, <1>10, <2>1
          DEF FetchText, Discard, FetchFails, WriteEmbedding, Abandon, RestUnchanged, queueVars
<1>11. ASSUME NEW p \in Pods, NEW ss \in SUBSET Slots, WorkerCrash(p) \/ EmbedRejected(p, ss)
       PROVE  Leases'
  BY <1>1, <1>11, SlotSteps DEF WorkerCrash, EmbedRejected, RestUnchanged, queueVars
<1>12. ASSUME UNCHANGED <<messages, inflight, nextId, slot>> PROVE Leases'
  BY <1>1, <1>12, SlotSteps
<1>13. ASSUME NEW h \in Handlers, IngestPublish(h) PROVE Leases'
  BY <1>2, <1>13 DEF IngestPublish, TypeOK
<1>14. ASSUME NEW job \in Jobs, BackfillPublish(job) PROVE Leases'
  BY <1>2, <1>14 DEF BackfillPublish
<1>15. CASE ClientNext
  BY <1>12, <1>13, <1>14, <1>15
     DEF ClientNext, IngestUpsert, IngestAbort, ClientDelete, BackfillQuery, BackfillFails, queueVars
<1>16. CASE WorkerNext
  BY <1>3, <1>4, <1>10, <1>11, <1>16 DEF WorkerNext
<1>17. CASE QueueNext
  BY <1>5, <1>7, <1>8, <1>9, <1>12, <1>17 DEF QueueNext, DedupExpires
<1>18. CASE UNCHANGED vars
  BY <1>12, <1>18 DEF vars, queueVars
<1> QED BY <1>15, <1>16, <1>17, <1>18 DEF Next
-----------------------------------------------------------------------------
(* A re-posted document is followed by a job.                              *)

Followed(d) == Publishing(d) \/ Waiting(d) # {} \/ suspect[d] # {}

(* The invariant, with the document named. *)
LEMMA EachFollowed ==
  ASSUME \A s \in Slots : \A d :
           Outdated(s)' /\ slot'[s].msg.doc = d /\ Private(d) => Followed(d)'
  PROVE  OutdatedIsFollowed'
BY DEF OutdatedIsFollowed, Outdated, Followed, Publishing, Waiting, Private

(* It is enough that no text changes below an unfollowed document and that *)
(* followed ones stay so.                                                  *)
LEMMA KeepFollowed ==
  ASSUME TypeOK, OutdatedIsFollowed, NoNewLease, NoNewText,
         \A d \in Docs : \/ Followed(d)'
                         \/ /\ ~Followed(d)
                            /\ table'[d] # NULL =>
                                 table[d] # NULL /\ table'[d].text = table[d].text
  PROVE  OutdatedIsFollowed'
<1> SUFFICES ASSUME NEW s \in Slots, NEW d, Outdated(s)', slot'[s].msg.doc = d, Private(d)
             PROVE  Followed(d)'
  BY EachFollowed
<1>1. /\ slot'[s].pc = "embed" /\ slot'[s].current
      /\ table'[d] # NULL /\ table'[d].text # slot'[s].text
  BY DEF Outdated
<1>2. /\ slot[s].pc = "embed" /\ slot[s].current
      /\ slot[s].msg.doc = d /\ slot[s].text = slot'[s].text
  BY <1>1 DEF NoNewLease, NoNewText
<1>3. d \in Docs
  BY <1>2 DEF TypeOK
<1> SUFFICES ASSUME ~Followed(d), table[d] # NULL, table'[d].text = table[d].text PROVE FALSE
  BY <1>1, <1>3
<1>4. Outdated(s)
  BY <1>1, <1>2 DEF Outdated
<1> QED BY <1>2, <1>4 DEF OutdatedIsFollowed, Followed

(* A document stays followed when jobs and suspicions stay. *)
LEMMA StayFollowed ==
  ASSUME NEW d \in Docs, Publishing(d) => Publishing(d)',
         Waiting(d) \subseteq Waiting(d)', suspect[d] \subseteq suspect'[d]
  PROVE  Followed(d) => Followed(d)'
BY DEF Followed

(* What a step that drops a publication leaves behind. *)
LEMMA BlamedIsFollowed ==
  ASSUME TypeOK, NEW d \in Docs, NEW why \in Causes, Blame(d, why, {}),
         UNCHANGED <<messages, inflight>>
  PROVE  Followed(d)'
BY BlameLemma DEF Followed, Waiting

(* What SendMessage leaves behind: a job to be received, or a suspicion. *)
LEMMA PublishedIsFollowed ==
  ASSUME TypeOK, Leases, NEW job \in Jobs, PublishJob(job), NEW d, d = job.doc
  PROVE  Followed(d)'
<1>1. inflight' = inflight /\ messages \subseteq messages' /\ inflight \subseteq messages
  BY PublishLemma DEF TypeOK, QueueTypeOK
<1>2. CASE messages' = messages /\ (Waiting(d) = {} => suspect'[d] # {})
  BY <1>1, <1>2 DEF Followed, Waiting
<1>3. CASE messages' = messages \cup {Sent(job)}
  <2>1. PICK n : n = Sent(job)
    OBVIOUS
  <2>2. n \notin inflight
    <3>1. n.id = nextId /\ nextId \in Nat
      BY <2>1, SentLemma
    <3>2. \A m \in messages : m.id < nextId
      BY DEF Leases
    <3> QED BY <1>1, <3>1, <3>2
  <2>3. n \in Waiting(d)'
    BY <1>1, <1>3, <2>1, <2>2, SentLemma DEF Waiting
  <2> QED BY <2>3 DEF Followed
<1> QED BY <1>2, <1>3, PublishLemma

(* The jobs of a private document are in one group. *)
LEMMA PrivateGroup ==
  ASSUME Leases, NEW d, d # NULL, Private(d),
         NEW m \in messages, NEW n \in messages, m.doc = d, n.doc = d
  PROVE  m.group = n.group
<1>1. [doc |-> d, tenant |-> m.group] \in Jobs /\ [doc |-> d, tenant |-> n.group] \in Jobs
  BY DEF Leases
<1> QED BY <1>1 DEF Private

(* Every step keeps OutdatedIsFollowed.                                    *)
LEMMA FollowedStep ==
  TypeOK /\ Leases /\ OutdatedIsFollowed /\ [Next]_vars => OutdatedIsFollowed'
<1> SUFFICES ASSUME TypeOK, Leases, OutdatedIsFollowed, [Next]_vars PROVE OutdatedIsFollowed'
  OBVIOUS
<1>0. /\ messages \subseteq Message /\ inflight \subseteq messages /\ nextId \in Nat
      /\ table \in [Docs -> Row \cup {NULL}]
      /\ handler \in [Handlers -> Jobs \cup {NULL}]
      /\ NULL \notin Docs /\ NULL \notin Jobs
  BY JobTypes DEF TypeOK, QueueTypeOK
<1>1. ASSUME NoNewLease, NoNewText, UNCHANGED table, \A d \in Docs : Followed(d) => Followed(d)'
      PROVE  OutdatedIsFollowed'
  BY <1>1, KeepFollowed
<1>2. ASSUME UNCHANGED <<messages, inflight, handler, page>>,
             \A d \in Docs : suspect[d] \subseteq suspect'[d]
      PROVE  \A d \in Docs : Followed(d) => Followed(d)'
  BY <1>2 DEF Followed, Publishing, Waiting
<1>3. ASSUME NEW h \in Handlers, NEW u \in Uploads, IngestUpsert(h, u)
      PROVE  OutdatedIsFollowed'
  <2>0. PICK d \in Docs : d = u.doc
    OBVIOUS
  <2>1. NoNewLease /\ NoNewText
    BY <1>3, SlotSteps DEF IngestUpsert
  <2>2. Followed(d)'
    <3>1. handler'[h] = [doc |-> u.doc, tenant |-> u.tenant] /\ handler'[h] # NULL
      BY <1>0, <1>3 DEF IngestUpsert, Jobs
    <3> QED BY <2>0, <3>1 DEF Followed, Publishing
  <2>3. ASSUME NEW e \in Docs, e # d PROVE table'[e] = table[e] /\ (Followed(e) => Followed(e)')
    <3>1. table'[e] = table[e]
      BY <1>0, <1>3, <2>0, <2>3, UpsertLemma DEF IngestUpsert
    <3>2. Publishing(e) => Publishing(e)'
      BY <1>0, <1>3, <2>0, <2>3 DEF IngestUpsert, Publishing
    <3>3. Waiting(e)' = Waiting(e) /\ suspect' = suspect
      BY <1>3 DEF IngestUpsert, Waiting, queueVars
    <3> QED BY <3>1, <3>2, <3>3, StayFollowed
  <2> QED BY <2>1, <2>2, <2>3, KeepFollowed
<1>5. ASSUME NEW job \in Jobs, PublishJob(job),
             \A e \in Docs : e # job.doc => (Publishing(e) => Publishing(e)')
      PROVE  \A e \in Docs : Followed(e) => Followed(e)'
  <2>1. ASSUME NEW e \in Docs, e # job.doc PROVE Followed(e) => Followed(e)'
    <3>1. Waiting(e) \subseteq Waiting(e)' /\ suspect[e] \subseteq suspect'[e]
      BY <1>5, <2>1, PublishLemma DEF Waiting
    <3> QED BY <1>5, <2>1, <3>1, StayFollowed
  <2>2. ASSUME NEW e \in Docs, e = job.doc PROVE Followed(e)'
    BY <1>5, <2>2, PublishedIsFollowed
  <2> QED BY <2>1, <2>2
<1>6. ASSUME NEW h \in Handlers, IngestPublish(h) PROVE OutdatedIsFollowed'
  <2>1. PICK job \in Jobs : handler[h] = job /\ PublishJob(job)
    BY <1>0, <1>6 DEF IngestPublish
  <2>2. \A e \in Docs : e # job.doc => (Publishing(e) => Publishing(e)')
    BY <1>0, <1>6, <2>1 DEF IngestPublish, Publishing
  <2>3. \A e \in Docs : Followed(e) => Followed(e)'
    BY <1>5, <2>1, <2>2
  <2> QED BY <1>1, <1>6, <2>3, SlotSteps DEF IngestPublish
<1>7. ASSUME NEW job \in Jobs, BackfillPublish(job) PROVE OutdatedIsFollowed'
  <2>1. \A e \in Docs : e # job.doc => (Publishing(e) => Publishing(e)')
    BY <1>7 DEF BackfillPublish, Publishing
  <2>2. \A e \in Docs : Followed(e) => Followed(e)'
    BY <1>5, <1>7, <2>1 DEF BackfillPublish
  <2> QED BY <1>1, <1>7, <2>2, SlotSteps DEF BackfillPublish
<1>8. ASSUME NEW d \in Docs, NEW why \in Causes, Blame(d, why, {}), UNCHANGED <<messages, inflight>>,
             \A e \in Docs : e # d => (Publishing(e) => Publishing(e)')
      PROVE  \A e \in Docs : Followed(e) => Followed(e)'
  <2>1. Followed(d)'
    BY <1>8, BlamedIsFollowed
  <2>2. ASSUME NEW e \in Docs, e # d PROVE Followed(e) => Followed(e)'
    BY <1>8, <2>2, BlameLemma, StayFollowed DEF Waiting
  <2> QED BY <2>1, <2>2
<1>9. ASSUME NEW h \in Handlers, IngestAbort(h) PROVE OutdatedIsFollowed'
  <2>1. PICK d \in Docs : handler[h].doc = d /\ Blame(d, "unpublished", {})
    BY <1>0, <1>9, JobTypes DEF IngestAbort
  <2>2. \A e \in Docs : e # d => (Publishing(e) => Publishing(e)')
    BY <1>0, <1>9, <2>1 DEF IngestAbort, Publishing
  <2>3. \A e \in Docs : Followed(e) => Followed(e)'
    BY <1>8, <1>9, <2>1, <2>2 DEF IngestAbort, queueVars, Causes
  <2> QED BY <1>1, <1>9, <2>3, SlotSteps DEF IngestAbort
<1>10. ASSUME NEW job \in Jobs, BackfillFails(job) PROVE OutdatedIsFollowed'
  <2>1. PICK d \in Docs : job.doc = d /\ Blame(d, "unpublished", {})
    BY <1>10, JobTypes DEF BackfillFails
  <2>2. \A e \in Docs : e # d => (Publishing(e) => Publishing(e)')
    BY <1>10, <2>1 DEF BackfillFails, Publishing
  <2>3. \A e \in Docs : Followed(e) => Followed(e)'
    BY <1>8, <1>10, <2>1, <2>2 DEF BackfillFails, queueVars, Causes
  <2> QED BY <1>1, <1>10, <2>3, SlotSteps DEF BackfillFails
<1>11. ASSUME NEW d \in Docs, NEW tenant \in Tenants, ClientDelete(d, tenant)
       PROVE  OutdatedIsFollowed'
  <2>1. \A e \in Docs : table'[e] # NULL => table[e] # NULL /\ table'[e].text = table[e].text
    BY <1>0, <1>11, DeleteLemma DEF ClientDelete
  <2>2. \A e \in Docs : Followed(e) => Followed(e)'
    BY <1>2, <1>11 DEF ClientDelete, queueVars
  <2> QED BY <1>11, <2>1, <2>2, SlotSteps, KeepFollowed DEF ClientDelete
<1>12. ASSUME NEW ds \in SUBSET Docs, BackfillQuery(ds) PROVE OutdatedIsFollowed'
  <2>1. \A e \in Docs : Followed(e) => Followed(e)'
    BY <1>12 DEF BackfillQuery, Followed, Publishing, Waiting, queueVars
  <2> QED BY <1>1, <1>12, <2>1, SlotSteps DEF BackfillQuery
<1>13. ASSUME NEW p \in Pods, NEW batch \in SUBSET messages, Receive(p, batch)
       PROVE  OutdatedIsFollowed'
  <2> SUFFICES ASSUME NEW s \in Slots, NEW d, Outdated(s)', slot'[s].msg.doc = d, Private(d)
               PROVE  Followed(d)'
    BY EachFollowed
  <2>1. slot'[s] = slot[s] /\ table' = table
    BY <1>13, ReceiveLemma DEF Outdated, Receive
  <2>2. Outdated(s) /\ d \in Docs /\ slot[s].msg.doc = d
    BY <2>1 DEF Outdated, TypeOK
  <2>3. Publishing(d) => Publishing(d)'
    BY <1>13 DEF Receive, Publishing
  <2>4. slot[s].msg \in inflight /\ slot[s].msg \in messages
    BY <1>0, <2>2 DEF Outdated, Leases
  <2>5. ASSUME NEW m \in Waiting(d) PROVE m \in Waiting(d)'
    <3>1. m \in messages /\ m \notin inflight /\ m.doc = d /\ m.group = slot[s].msg.group
      BY <1>0, <2>2, <2>4, PrivateGroup DEF Waiting
    <3>2. \A k \in batch : \A n \in inflight : n.group # k.group
      BY <1>13 DEF Receive, Receivable
    <3>3. m \notin batch
      BY <2>4, <3>1, <3>2
    <3> QED BY <1>13, <3>1, <3>3 DEF Receive, Waiting
  <2>6. suspect' = suspect
    BY <1>13 DEF Receive
  <2>7. Followed(d)
    BY <2>2 DEF OutdatedIsFollowed, Followed
  <2> QED BY <2>1, <2>2, <2>3, <2>5, <2>6, <2>7, StayFollowed
<1>14. ASSUME NEW s \in Slots, FetchText(s) PROVE OutdatedIsFollowed'
  <2> SUFFICES ASSUME NEW t \in Slots, NEW d, Outdated(t)', slot'[t].msg.doc = d, Private(d)
               PROVE  Followed(d)'
    BY EachFollowed
  <2>1. table' = table /\ \A e \in Docs : Followed(e) => Followed(e)'
    BY <1>2, <1>14 DEF FetchText, RestUnchanged, queueVars
  <2>2. t # s
    BY <1>14, <2>1, FetchLemma DEF Outdated
  <2>3. slot'[t] = slot[t]
    BY <1>14, <2>2, FetchLemma
  <2>4. Outdated(t) /\ slot[t].msg.doc = d /\ d \in Docs
    BY <2>1, <2>3 DEF Outdated, TypeOK
  <2>5. Followed(d)
    BY <2>4 DEF OutdatedIsFollowed, Followed
  <2> QED BY <2>1, <2>4, <2>5
<1>15. ASSUME NEW s \in Slots, Discard(s) \/ Abandon(s) PROVE OutdatedIsFollowed'
  <2>1. NoNewLease /\ NoNewText
    BY <1>15, SlotSteps DEF Discard, Abandon
  <2>2. UNCHANGED <<messages, inflight, handler, page, table, suspect>>
    BY <1>15 DEF Discard, Abandon, RestUnchanged, queueVars
  <2> QED BY <1>1, <1>2, <2>1, <2>2
<1>16. ASSUME NEW s \in Slots, FetchFails(s) PROVE OutdatedIsFollowed'
  <2>1. NoNewLease /\ NoNewText
    BY <1>16, SlotSteps DEF FetchFails
  <2>2. \A d \in Docs : suspect[d] \subseteq suspect'[d]
    BY <1>16, BlameLemma DEF FetchFails, Causes
  <2> QED BY <1>1, <1>2, <1>16, <2>1, <2>2 DEF FetchFails, RestUnchanged, queueVars
<1>17. ASSUME NEW s \in Slots, WriteEmbedding(s) PROVE OutdatedIsFollowed'
  <2>1. NoNewLease /\ NoNewText
    BY <1>17, SlotSteps DEF WriteEmbedding
  <2>2. \A d \in Docs : suspect[d] \subseteq suspect'[d]
    BY <1>17, BlameLemma DEF WriteEmbedding, Causes
  <2>3. slot[s].msg.doc \in Docs /\ slot[s].text \in Texts
    BY <1>17 DEF WriteEmbedding, TypeOK
  <2>4. table' = SetEmbedding(table, slot[s].msg.doc, slot[s].text, EmbedModel)
    BY <1>17 DEF WriteEmbedding
  <2>5. ASSUME NEW d \in Docs, table'[d] # NULL PROVE table[d] # NULL /\ table'[d].text = table[d].text
    <3>1. CASE d = slot[s].msg.doc
      BY <1>0, <2>3, <2>4, <2>5, <3>1, SetEmbeddingLemma
    <3>2. CASE d # slot[s].msg.doc
      BY <1>0, <2>3, <2>4, <2>5, <3>2, SetEmbeddingLemma
    <3> QED BY <3>1, <3>2
  <2>6. \A d \in Docs : Followed(d) => Followed(d)'
    BY <1>2, <1>17, <2>2 DEF WriteEmbedding, RestUnchanged, queueVars
  <2> QED BY <2>1, <2>5, <2>6, KeepFollowed
<1>18. ASSUME NEW s \in Slots, Acknowledge(s) PROVE OutdatedIsFollowed'
  <2>1. NoNewLease /\ NoNewText
    BY <1>18, SlotSteps DEF Acknowledge
  <2>2. \A d \in Docs : Waiting(d) \subseteq Waiting(d)'
    <3>1. CASE slot[s].current
      <4>1. slot[s].msg \in inflight /\ Remove(slot[s].msg)
        BY <1>18, <3>1 DEF Acknowledge, Delete, Leases
      <4> QED BY <4>1 DEF Remove, Waiting
    <3>2. CASE ~slot[s].current
      BY <1>18, <3>2 DEF Acknowledge, Delete, Waiting, queueVars
    <3> QED BY <3>1, <3>2
  <2>3. \A d \in Docs : Followed(d) => Followed(d)'
    BY <1>18, <2>2, StayFollowed DEF Acknowledge, Publishing
  <2> QED BY <1>1, <1>18, <2>1, <2>3 DEF Acknowledge
<1>19. ASSUME NEW p \in Pods, NEW ss \in SUBSET Slots, WorkerCrash(p) \/ EmbedRejected(p, ss)
       PROVE  OutdatedIsFollowed'
  BY <1>1, <1>2, <1>19, SlotSteps DEF WorkerCrash, EmbedRejected, RestUnchanged, queueVars
<1>20. ASSUME NEW m \in messages, LeaseEnds(m) \/ LeaseLapses(m) PROVE OutdatedIsFollowed'
  <2>1. NoNewLease /\ NoNewText
    BY <1>20, SlotSteps DEF LeaseEnds, LeaseLapses
  <2>2. \A d \in Docs : Followed(d) => Followed(d)'
    BY <1>20, StayFollowed DEF LeaseEnds, LeaseLapses, Publishing, Waiting
  <2> QED BY <1>1, <1>20, <2>1, <2>2 DEF LeaseEnds, LeaseLapses
<1>21. ASSUME NEW m \in messages, RetentionExpires(m) PROVE OutdatedIsFollowed'
  <2>1. NoNewLease /\ NoNewText
    BY <1>21, SlotSteps DEF RetentionExpires
  <2>2. ASSUME NEW d \in Docs, Followed(d) PROVE Followed(d)'
    <3>1. suspect[d] \subseteq suspect'[d]
          /\ (d = m.doc /\ Waiting(d) \subseteq {m} => suspect'[d] # {})
      BY <1>21, BlameLemma DEF RetentionExpires, Causes
    <3>2. CASE Publishing(d)
      BY <1>21, <3>2 DEF RetentionExpires, Publishing, Followed
    <3>3. CASE Waiting(d) # {}
      <4>1. CASE Waiting(d) \subseteq {m}
        <5>1. d = m.doc
          BY <3>3, <4>1 DEF Waiting
        <5> QED BY <3>1, <4>1, <5>1 DEF Followed
      <4>2. CASE ~(Waiting(d) \subseteq {m})
        <5>1. PICK n \in Waiting(d) : n # m
          BY <4>2
        <5>2. n \in Waiting(d)'
          BY <1>21, <5>1 DEF RetentionExpires, Remove, Waiting
        <5> QED BY <5>2 DEF Followed
      <4> QED BY <4>1, <4>2
    <3>4. CASE suspect[d] # {}
      BY <3>1, <3>4 DEF Followed
    <3> QED BY <2>2, <3>2, <3>3, <3>4 DEF Followed
  <2> QED BY <1>1, <1>21, <2>1, <2>2 DEF RetentionExpires
<1>22. ASSUME NEW d \in Docs, DedupExpires(d) PROVE OutdatedIsFollowed'
  BY <1>1, <1>2, <1>22, SlotSteps DEF DedupExpires
<1>23. ASSUME NEW tenant \in Tenants, ForeignSend(tenant) PROVE OutdatedIsFollowed'
  <2>1. \A d \in Docs : Followed(d) => Followed(d)'
    BY <1>23, StayFollowed DEF ForeignSend, Send, Publishing, Waiting
  <2> QED BY <1>1, <1>23, <2>1, SlotSteps DEF ForeignSend
<1>24. CASE UNCHANGED vars
  BY <1>1, <1>2, <1>24, SlotSteps DEF vars, queueVars
<1> QED BY <1>3, <1>6, <1>7, <1>9, <1>10, <1>11, <1>12, <1>13, <1>14, <1>15, <1>16, <1>17,
           <1>18, <1>19, <1>20, <1>21, <1>22, <1>23, <1>24
        DEF Next, ClientNext, WorkerNext, QueueNext

-----------------------------------------------------------------------------
(* No job is lost in silence.                                              *)

Protected(d) == Publishing(d) \/ Serving(d) # {} \/ suspect[d] # {}

(* A message that no lease hides serves its document. *)
LEMMA FollowedIsProtected ==
  ASSUME Leases', NEW d, Followed(d)'
  PROVE  Protected(d)'
<1>1. ASSUME NEW m \in Waiting(d)' PROVE m \in Serving(d)'
  BY DEF Leases, Waiting, Serving, Holders
<1> QED BY <1>1 DEF Followed, Protected

(* What a step owes to every document. *)
LEMMA KeepProtected ==
  ASSUME NoSilentLoss,
         \A d \in Docs : Dirty(d)' => \/ Protected(d)'
                                      \/ (Dirty(d) /\ (Protected(d) => Protected(d)'))
  PROVE  NoSilentLoss'
BY DEF NoSilentLoss, Protected

(* A document stays protected when its jobs keep serving it. *)
LEMMA StayProtected ==
  ASSUME NEW d \in Docs, Publishing(d) => Publishing(d)',
         Serving(d) \subseteq Serving(d)', suspect[d] \subseteq suspect'[d]
  PROVE  Protected(d) => Protected(d)'
BY DEF Protected

(* A message keeps serving when no slot under its lease stops being useful. *)
LEMMA KeepServing ==
  ASSUME NoNewLease, NEW d, Serving(d) \subseteq messages',
         \A s \in Slots : /\ slot'[s].pc # "idle" /\ slot'[s].current
                         /\ slot'[s].msg.doc = d /\ Useful(s, d)
                         => Useful(s, d)'
  PROVE  Serving(d) \subseteq Serving(d)'
<1> SUFFICES ASSUME NEW m \in Serving(d) PROVE m \in Serving(d)'
  OBVIOUS
<1>1. m \in messages' /\ m.doc = d
  BY DEF Serving
<1>2. ASSUME NEW s \in Slots, slot'[s].pc # "idle", slot'[s].msg = m, slot'[s].current
      PROVE  Useful(s, d)'
  <2>1. s \in Holders(m) /\ slot[s].current
    BY <1>2 DEF NoNewLease, Holders
  <2> QED BY <1>1, <1>2, <2>1 DEF Serving
<1> QED BY <1>1, <1>2 DEF Serving, Holders

(* Steps that touch neither a slot nor the row of the document. *)
LEMMA Untouched ==
  ASSUME TypeOK, NEW d \in Docs, UNCHANGED slot, table'[d] = table[d],
         messages \subseteq messages', Publishing(d) => Publishing(d)',
         suspect[d] \subseteq suspect'[d]
  PROVE  Dirty(d)' => Dirty(d) /\ (Protected(d) => Protected(d)')
<1>1. Dirty(d)' => Dirty(d)
  BY DEF Dirty
<1>2. Serving(d) \subseteq Serving(d)'
  BY DEF Serving, Holders, Useful
<1> QED BY <1>1, <1>2, StayProtected

(* A slot that goes to "delete" is of no use any more to its document. *)
LEMMA GotoServes ==
  ASSUME TypeOK, NEW s \in Slots, slot[s].pc # "idle", Goto(s, "delete"),
         NEW d \in Docs, d # slot[s].msg.doc, messages' = messages, table'[d] = table[d]
  PROVE  Serving(d) \subseteq Serving(d)'
<1>1. NoNewLease
  BY SlotSteps
<1>2. Serving(d) \subseteq messages'
  BY DEF Serving
<1>3. ASSUME NEW t \in Slots, slot'[t].msg.doc = d, Useful(t, d) PROVE Useful(t, d)'
  <2>1. t # s /\ slot'[t] = slot[t]
    BY <1>3, GotoLemma
  <2> QED BY <1>3, <2>1 DEF Useful
<1> QED BY <1>1, <1>2, <1>3, KeepServing

(* Every step keeps NoSilentLoss, given the other parts of IInv.           *)
LEMMA NoLossStep ==
  TypeOK /\ Leases /\ OutdatedIsFollowed /\ NoSilentLoss /\ [Next]_vars => NoSilentLoss'
<1> SUFFICES ASSUME TypeOK, Leases, OutdatedIsFollowed, NoSilentLoss, [Next]_vars
             PROVE  NoSilentLoss'
  OBVIOUS
<1>0. /\ Leases'
      /\ table \in [Docs -> Row \cup {NULL}]
      /\ handler \in [Handlers -> Jobs \cup {NULL}]
      /\ NULL \notin Docs /\ NULL \notin Jobs
  BY LeasesStep, JobTypes DEF TypeOK
<1>1. ASSUME UNCHANGED <<table, slot, suspect>>, messages \subseteq messages',
             \A d \in Docs : Publishing(d) => Publishing(d)'
      PROVE  NoSilentLoss'
  BY <1>1, Untouched, KeepProtected
<1>2. ASSUME NEW h \in Handlers, NEW u \in Uploads, IngestUpsert(h, u)
      PROVE  NoSilentLoss'
  <2>0. PICK d \in Docs : d = u.doc
    OBVIOUS
  <2>1. Protected(d)'
    <3>1. handler'[h] = [doc |-> u.doc, tenant |-> u.tenant] /\ handler'[h] # NULL
      BY <1>0, <1>2 DEF IngestUpsert, Jobs
    <3> QED BY <2>0, <3>1 DEF Protected, Publishing
  <2>2. ASSUME NEW e \in Docs, e # d
        PROVE  Dirty(e)' => Dirty(e) /\ (Protected(e) => Protected(e)')
    <3>1. table'[e] = table[e]
      BY <1>0, <1>2, <2>0, <2>2, UpsertLemma DEF IngestUpsert
    <3>2. Publishing(e) => Publishing(e)'
      BY <1>0, <1>2, <2>0, <2>2 DEF IngestUpsert, Publishing
    <3> QED BY <1>2, <3>1, <3>2, Untouched DEF IngestUpsert, queueVars
  <2> QED BY <2>1, <2>2, KeepProtected
<1>3. ASSUME NEW d \in Docs, Followed(d)', UNCHANGED <<table, slot>>, messages \subseteq messages',
             \A e \in Docs : e # d => /\ Publishing(e) => Publishing(e)'
                                     /\ suspect[e] \subseteq suspect'[e]
      PROVE  NoSilentLoss'
  <2>1. Protected(d)'
    BY <1>0, <1>3, FollowedIsProtected
  <2> QED BY <1>3, <2>1, Untouched, KeepProtected
<1>4. ASSUME NEW h \in Handlers, IngestPublish(h) \/ IngestAbort(h) PROVE NoSilentLoss'
  <2>1. PICK job \in Jobs : handler[h] = job
    BY <1>0, <1>4 DEF IngestPublish, IngestAbort
  <2>0. PICK d \in Docs : job.doc = d
    BY JobTypes
  <2>2. \A e \in Docs : e # d => (Publishing(e) => Publishing(e)')
    BY <1>0, <1>4, <2>0, <2>1 DEF IngestPublish, IngestAbort, Publishing
  <2>3. CASE IngestPublish(h)
    BY <1>3, <2>0, <2>1, <2>2, <2>3, PublishLemma, PublishedIsFollowed DEF IngestPublish
  <2>4. CASE IngestAbort(h)
    BY <1>3, <2>0, <2>1, <2>2, <2>4, BlameLemma, BlamedIsFollowed
       DEF IngestAbort, queueVars, Causes
  <2> QED BY <1>4, <2>3, <2>4
<1>5. ASSUME NEW job \in Jobs, BackfillPublish(job) \/ BackfillFails(job) PROVE NoSilentLoss'
  <2>0. PICK d \in Docs : job.doc = d
    BY JobTypes
  <2>1. \A e \in Docs : e # d => (Publishing(e) => Publishing(e)')
    BY <1>5, <2>0 DEF BackfillPublish, BackfillFails, Publishing
  <2>2. CASE BackfillPublish(job)
    BY <1>3, <2>0, <2>1, <2>2, PublishLemma, PublishedIsFollowed DEF BackfillPublish
  <2>3. CASE BackfillFails(job)
    BY <1>3, <2>0, <2>1, <2>3, BlameLemma, BlamedIsFollowed DEF BackfillFails, queueVars, Causes
  <2> QED BY <1>5, <2>2, <2>3
<1>6. ASSUME NEW d \in Docs, NEW tenant \in Tenants, ClientDelete(d, tenant) PROVE NoSilentLoss'
  <2>1. ASSUME NEW e \in Docs PROVE Dirty(e)' => Dirty(e) /\ (Protected(e) => Protected(e)')
    <3>1. table'[e] = NULL \/ table'[e] = table[e]
      BY <1>0, <1>6, DeleteLemma DEF ClientDelete
    <3>2. CASE table'[e] = NULL
      BY <3>2 DEF Dirty
    <3>3. CASE table'[e] = table[e]
      BY <1>6, <3>3, Untouched DEF ClientDelete, Publishing, queueVars
    <3> QED BY <3>1, <3>2, <3>3
  <2> QED BY <2>1, KeepProtected
<1>7. ASSUME NEW ds \in SUBSET Docs, BackfillQuery(ds) PROVE NoSilentLoss'
  BY <1>1, <1>7 DEF BackfillQuery, Publishing, queueVars
<1>8. ASSUME UNCHANGED <<table, suspect, handler, page>>,
             \A d \in Docs : Serving(d) \subseteq Serving(d)'
      PROVE  NoSilentLoss'
  <2>1. \A d \in Docs : Protected(d) => Protected(d)'
    BY <1>8, StayProtected DEF Publishing
  <2>2. \A d \in Docs : Dirty(d)' => Dirty(d)
    BY <1>8 DEF Dirty
  <2> QED BY <2>1, <2>2, KeepProtected
<1>9. ASSUME NEW p \in Pods, NEW batch \in SUBSET messages, Receive(p, batch)
      PROVE  NoSilentLoss'
  <2>1. UNCHANGED <<table, suspect, handler, page, messages>>
    BY <1>9 DEF Receive
  <2>2. ASSUME NEW d \in Docs, NEW m \in Serving(d) PROVE m \in Serving(d)'
    <3>1. m \in messages' /\ m.doc = d
      BY <2>1 DEF Serving
    <3>2. ASSUME NEW s \in Slots, slot'[s].pc # "idle", slot'[s].msg = m, slot'[s].current
          PROVE  Useful(s, d)'
      <4>1. CASE slot'[s] = slot[s]
        BY <2>1, <3>2, <4>1 DEF Serving, Holders, Useful
      <4>2. CASE slot'[s].pc = "fetch"
        BY <4>2 DEF Useful
      <4> QED BY <1>9, <4>1, <4>2, ReceiveLemma
    <3> QED BY <3>1, <3>2 DEF Serving, Holders
  <2> QED BY <1>8, <2>1, <2>2
<1>10. ASSUME NoNewLease, UNCHANGED <<table, suspect, handler, page>>,
              \A d \in Docs : Serving(d) \subseteq messages',
              \A d \in Docs : \A s \in Slots :
                /\ slot'[s].pc # "idle" /\ slot'[s].current
                /\ slot'[s].msg.doc = d /\ Useful(s, d)
                => Useful(s, d)'
       PROVE  NoSilentLoss'
  BY <1>8, <1>10, KeepServing
<1>11. ASSUME NEW s \in Slots, FetchText(s) PROVE NoSilentLoss'
  <2>1. UNCHANGED <<table, suspect, handler, page, messages>>
    BY <1>11 DEF FetchText, RestUnchanged, queueVars
  <2>2. ASSUME NEW d \in Docs, NEW t \in Slots, slot'[t].msg.doc = d, Useful(t, d)
        PROVE  Useful(t, d)'
    <3>1. CASE t = s
      BY <1>11, <2>1, <2>2, <3>1, FetchLemma DEF Useful
    <3>2. CASE t # s
      BY <1>11, <2>1, <2>2, <3>2, FetchLemma DEF Useful
    <3> QED BY <3>1, <3>2
  <2> QED BY <1>10, <1>11, <2>1, <2>2, SlotSteps DEF Serving
<1>12. ASSUME NEW s \in Slots, Discard(s) PROVE NoSilentLoss'
  <2>1. /\ UNCHANGED <<table, suspect, handler, page, messages>>
        /\ slot[s].pc = "fetch" /\ Goto(s, "delete") /\ RowOf(slot[s].msg) = NULL
    BY <1>12 DEF Discard, RestUnchanged, queueVars
  <2>2. ASSUME NEW d \in Docs, Dirty(d)' PROVE Dirty(d) /\ (Protected(d) => Protected(d)')
    <3>1. Dirty(d)
      BY <2>1, <2>2 DEF Dirty
    <3>2. d # slot[s].msg.doc
      BY <1>0, <2>1, <3>1 DEF Dirty, RowOf
    <3> QED BY <2>1, <3>1, <3>2, GotoServes, StayProtected DEF Publishing
  <2> QED BY <2>2, KeepProtected
<1>13. ASSUME NEW s \in Slots, FetchFails(s) PROVE NoSilentLoss'
  <2>1. /\ UNCHANGED <<table, handler, page, messages, inflight>>
        /\ slot[s].pc = "fetch" /\ Goto(s, "delete")
        /\ Blame(slot[s].msg.doc, "fetch_error", {})
    BY <1>13 DEF FetchFails, RestUnchanged, queueVars
  <2>2. ASSUME NEW d \in Docs, d = slot[s].msg.doc PROVE Protected(d)'
    BY <1>0, <2>1, <2>2, BlamedIsFollowed, FollowedIsProtected DEF Causes
  <2>3. ASSUME NEW d \in Docs, d # slot[s].msg.doc, Dirty(d)'
        PROVE  Dirty(d) /\ (Protected(d) => Protected(d)')
    <3>1. Dirty(d)
      BY <2>1, <2>3 DEF Dirty
    <3>2. suspect[d] \subseteq suspect'[d]
      BY <2>1, BlameLemma DEF Causes
    <3> QED BY <2>1, <2>3, <3>1, <3>2, GotoServes, StayProtected DEF Publishing
  <2> QED BY <2>2, <2>3, KeepProtected
<1>14. ASSUME NEW s \in Slots, WriteEmbedding(s) PROVE NoSilentLoss'
  <2>1. /\ UNCHANGED <<handler, page, messages, inflight>>
        /\ slot[s].pc = "embed" /\ Goto(s, "delete")
        /\ slot[s].msg.doc \in Docs /\ slot[s].text \in Texts
        /\ table' = SetEmbedding(table, slot[s].msg.doc, slot[s].text, EmbedModel)
    BY <1>14 DEF WriteEmbedding, RestUnchanged, queueVars, TypeOK
  <2>2. \A d \in Docs : suspect[d] \subseteq suspect'[d]
    BY <1>14, BlameLemma DEF WriteEmbedding, Causes
  <2>3. ASSUME NEW d \in Docs, d = slot[s].msg.doc, Dirty(d)' PROVE Protected(d)'
    <3>1. table[d] # NULL /\ table[d].text # slot[s].text
      BY <1>0, <2>1, <2>3, SetEmbeddingLemma DEF Dirty
    <3>2. CASE slot[s].current /\ Private(d)
      <4>1. Outdated(s)
        BY <2>1, <2>3, <3>1, <3>2 DEF Outdated
      <4>2. Followed(d)
        BY <2>3, <3>2, <4>1 DEF OutdatedIsFollowed, Followed
      <4>3. Followed(d)'
        BY <2>1, <2>2, <4>2 DEF Followed, Publishing, Waiting
      <4> QED BY <1>0, <4>3, FollowedIsProtected
    <3>3. CASE ~slot[s].current
      <4>1. Blame(d, "late_write", {})
        BY <1>14, <2>3, <3>1, <3>3 DEF WriteEmbedding
      <4> QED BY <1>0, <2>1, <4>1, BlamedIsFollowed, FollowedIsProtected DEF Causes
    <3>4. CASE slot[s].current /\ ~Private(d)
      <4>1. Blame(d, "shared_id", {})
        BY <1>14, <2>3, <3>1, <3>4 DEF WriteEmbedding
      <4> QED BY <1>0, <2>1, <4>1, BlamedIsFollowed, FollowedIsProtected DEF Causes
    <3> QED BY <3>2, <3>3, <3>4, <2>1 DEF TypeOK, Slot
  <2>4. ASSUME NEW d \in Docs, d # slot[s].msg.doc, Dirty(d)'
        PROVE  Dirty(d) /\ (Protected(d) => Protected(d)')
    <3>1. table'[d] = table[d]
      BY <1>0, <2>1, <2>4, SetEmbeddingLemma
    <3>2. Dirty(d)
      BY <2>4, <3>1 DEF Dirty
    <3> QED BY <2>1, <2>2, <2>4, <3>1, <3>2, GotoServes, StayProtected DEF Publishing
  <2> QED BY <2>3, <2>4, KeepProtected
<1>15. ASSUME NEW s \in Slots, Abandon(s) \/ Acknowledge(s) PROVE NoSilentLoss'
  <2>1. UNCHANGED <<table, suspect, handler, page>> /\ Release(s)
    BY <1>15 DEF Abandon, Acknowledge, RestUnchanged
  <2>2. ASSUME NEW d \in Docs, NEW m \in Serving(d) PROVE m \in messages'
    <3>1. CASE messages' = messages
      BY <3>1 DEF Serving
    <3>2. CASE slot[s].pc = "delete" /\ slot[s].current /\ messages' = messages \ {slot[s].msg}
      <4>1. ~Useful(s, d)
        BY <3>2 DEF Useful
      <4>2. m # slot[s].msg
        BY <3>2, <4>1 DEF Serving, Holders
      <4> QED BY <3>2, <4>2 DEF Serving
    <3> QED BY <1>15, <3>1, <3>2
            DEF Abandon, Acknowledge, Delete, Remove, RestUnchanged, queueVars
  <2>3. ASSUME NEW d \in Docs, NEW t \in Slots, slot'[t].pc # "idle", Useful(t, d)
        PROVE  Useful(t, d)'
    <3>1. slot'[t] = slot[t]
      BY <2>1, <2>3, ReleaseLemma
    <3> QED BY <2>1, <2>3, <3>1 DEF Useful
  <2> QED BY <1>10, <2>1, <2>2, <2>3, SlotSteps
<1>16. ASSUME NEW p \in Pods, NEW ss \in SUBSET Slots, WorkerCrash(p) \/ EmbedRejected(p, ss)
       PROVE  NoSilentLoss'
  <2>1. UNCHANGED <<table, suspect, handler, page, messages>>
    BY <1>16 DEF WorkerCrash, EmbedRejected, RestUnchanged, queueVars
  <2>2. ASSUME NEW d \in Docs, NEW t \in Slots, slot'[t].pc # "idle", Useful(t, d)
        PROVE  Useful(t, d)'
    <3>1. slot'[t] = slot[t]
      BY <1>16, <2>2 DEF WorkerCrash, EmbedRejected, Idle
    <3> QED BY <2>1, <2>2, <3>1 DEF Useful
  <2> QED BY <1>10, <1>16, <2>1, <2>2, SlotSteps DEF Serving
<1>17. ASSUME NEW m \in messages, LeaseLapses(m) PROVE NoSilentLoss'
  <2>1. UNCHANGED <<table, suspect, handler, page, messages>> /\ EndLease(m)
    BY <1>17 DEF LeaseLapses
  <2>2. \A d \in Docs : \A t \in Slots : Useful(t, d) => Useful(t, d)'
    BY <2>1, EndLeaseLemma DEF Useful
  <2> QED BY <1>10, <2>1, <2>2, SlotSteps DEF Serving
<1>18. ASSUME NEW m \in messages, RetentionExpires(m) PROVE NoSilentLoss'
  <2>1. /\ UNCHANGED <<table, handler, page>> /\ EndLease(m)
        /\ messages' = messages \ {m} /\ inflight' = inflight \ {m}
    BY <1>18 DEF RetentionExpires, Remove
  <2>2. /\ \A d \in Docs : suspect[d] \subseteq suspect'[d]
        /\ m.doc \in Docs /\ Waiting(m.doc) \subseteq {m} => suspect'[m.doc] # {}
    BY <1>18, BlameLemma DEF RetentionExpires, Causes
  <2>3. ASSUME NEW d \in Docs, d = m.doc PROVE Protected(d)'
    <3>1. CASE Waiting(d) \subseteq {m}
      BY <2>2, <2>3, <3>1 DEF Protected
    <3>2. CASE ~(Waiting(d) \subseteq {m})
      <4>1. PICK n \in Waiting(d) : n # m
        BY <3>2
      <4>2. n \in Waiting(d)'
        BY <2>1, <4>1 DEF Waiting
      <4>3. Followed(d)'
        BY <4>2 DEF Followed
      <4> QED BY <1>0, <4>3, FollowedIsProtected
    <3> QED BY <3>1, <3>2
  <2>4. ASSUME NEW d \in Docs, d # m.doc PROVE Protected(d) => Protected(d)'
    <3>1. NoNewLease
      BY <2>1, SlotSteps
    <3>2. Serving(d) \subseteq messages'
      BY <2>1, <2>4 DEF Serving
    <3>3. \A t \in Slots : Useful(t, d) => Useful(t, d)'
      BY <2>1, EndLeaseLemma DEF Useful
    <3>4. Serving(d) \subseteq Serving(d)'
      BY <3>1, <3>2, <3>3, KeepServing
    <3>5. Publishing(d) => Publishing(d)'
      BY <2>1 DEF Publishing
    <3>6. suspect[d] \subseteq suspect'[d]
      BY <2>2
    <3> QED BY <3>4, <3>5, <3>6, StayProtected
  <2>5. \A d \in Docs : Dirty(d)' => Dirty(d)
    BY <2>1 DEF Dirty
  <2> QED BY <2>3, <2>4, <2>5, KeepProtected
<1>19. CASE ClientNext
  BY <1>2, <1>4, <1>5, <1>6, <1>7, <1>19 DEF ClientNext
<1>20. CASE WorkerNext
  BY <1>9, <1>11, <1>12, <1>13, <1>14, <1>15, <1>16, <1>20 DEF WorkerNext
<1>21. CASE QueueNext
  <2>1. ASSUME NEW m \in messages, LeaseEnds(m) PROVE NoSilentLoss'
    BY <1>1, <2>1 DEF LeaseEnds, Publishing
  <2>2. ASSUME NEW d \in Docs, DedupExpires(d) PROVE NoSilentLoss'
    BY <1>1, <2>2 DEF DedupExpires, Publishing
  <2>3. ASSUME NEW tenant \in Tenants, ForeignSend(tenant) PROVE NoSilentLoss'
    BY <1>1, <2>3 DEF ForeignSend, Send, Publishing
  <2> QED BY <1>17, <1>18, <1>21, <2>1, <2>2, <2>3 DEF QueueNext
<1>22. CASE UNCHANGED vars
  BY <1>1, <1>22 DEF vars, queueVars, Publishing
<1> QED BY <1>19, <1>20, <1>21, <1>22 DEF Next

(* A tenant's current jobs stay in one pod when no lease is taken, *)
LEMMA KeepOnePod == NoNewLease /\ OnePodPerTenant => OnePodPerTenant'
BY DEF NoNewLease, OnePodPerTenant

(* and a Receive takes jobs of tenants of which nobody holds one: what is  *)
(* held under a current lease is in flight.                                *)
LEMMA ReceiveOnePod ==
  ASSUME TypeOK, Leases, OnePodPerTenant, NEW p \in Pods, NEW batch, Receive(p, batch)
  PROVE  OnePodPerTenant'
<1>1. ASSUME NEW s \in Slots, slot'[s] # slot[s]
      PROVE  /\ PodOf[s] = p /\ slot'[s].msg \in batch
             /\ \A n \in inflight : n.group # slot'[s].msg.group
  BY <1>1, ReceiveLemma, ReceivePod
<1>2. ASSUME NEW s \in Slots, slot'[s] = slot[s], slot'[s].pc # "idle", slot'[s].current
      PROVE  slot'[s].msg \in inflight
  BY <1>2 DEF Leases
<1>3. ASSUME NEW s \in Slots, NEW t \in Slots,
             slot'[s].pc # "idle", slot'[t].pc # "idle",
             slot'[s].current, slot'[t].current,
             slot'[s].msg.group = slot'[t].msg.group
      PROVE  PodOf[s] = PodOf[t]
  <2>1. CASE slot'[s] = slot[s] /\ slot'[t] = slot[t]
    BY <1>3, <2>1 DEF OnePodPerTenant
  <2>2. CASE slot'[s] # slot[s] /\ slot'[t] # slot[t]
    BY <1>1, <2>2
  <2>3. CASE slot'[s] # slot[s] /\ slot'[t] = slot[t]
    BY <1>1, <1>2, <1>3, <2>3
  <2>4. CASE slot'[s] = slot[s] /\ slot'[t] # slot[t]
    BY <1>1, <1>2, <1>3, <2>4
  <2> QED BY <2>1, <2>2, <2>3, <2>4
<1> QED BY <1>3 DEF OnePodPerTenant

(* Every step keeps OnePodPerTenant.                                       *)
LEMMA OnePodStep ==
  TypeOK /\ Leases /\ OnePodPerTenant /\ [Next]_vars => OnePodPerTenant'
<1> SUFFICES ASSUME TypeOK, Leases, OnePodPerTenant, [Next]_vars PROVE OnePodPerTenant'
  OBVIOUS
<1>1. ASSUME UNCHANGED slot PROVE OnePodPerTenant'
  BY <1>1, SlotSteps, KeepOnePod
<1>2. CASE ClientNext
  BY <1>1, <1>2
     DEF ClientNext, IngestUpsert, IngestPublish, IngestAbort, ClientDelete,
         BackfillQuery, BackfillPublish, BackfillFails
<1>3. CASE WorkerNext
  <2>1. ASSUME NEW s \in Slots,
               \/ FetchText(s) \/ Discard(s) \/ FetchFails(s)
               \/ WriteEmbedding(s) \/ Abandon(s) \/ Acknowledge(s)
        PROVE  NoNewLease
    BY <2>1, SlotSteps DEF Discard, FetchFails, WriteEmbedding, Abandon, Acknowledge
  <2> QED BY <1>3, <2>1, SlotSteps, KeepOnePod, ReceiveOnePod DEF WorkerNext
<1>4. CASE QueueNext
  <2>1. ASSUME NEW m \in messages, LeaseEnds(m) \/ LeaseLapses(m) \/ RetentionExpires(m)
        PROVE  NoNewLease
    BY <2>1, SlotSteps DEF LeaseEnds, LeaseLapses, RetentionExpires
  <2> QED BY <1>1, <1>4, <2>1, KeepOnePod DEF QueueNext, DedupExpires, ForeignSend
<1>5. CASE UNCHANGED vars
  BY <1>1, <1>5 DEF vars
<1> QED BY <1>2, <1>3, <1>4, <1>5 DEF Next

-----------------------------------------------------------------------------
(* The refinement of WritePath.                                            *)

(* What the workers read, as WritePath sees it. *)
Reads ==
  [s \in Slots |-> IF slot[s].pc = "embed"
                     THEN [doc |-> slot[s].msg.doc, text |-> slot[s].text] ELSE NULL]

(* A step that only empties hands is one of WritePath. *)
LEMMA ForgetLemma ==
  ASSUME UNCHANGED table, NoNewLease, NoNewText
  PROVE  WP!PathNext
<1>0. PICK ws \in SUBSET Slots : ws = {s \in Slots : slot'[s].pc # "embed"}
  OBVIOUS
<1>1. ASSUME NEW s \in Slots, s \notin ws
      PROVE  slot[s].pc = "embed" /\ slot'[s].msg = slot[s].msg /\ slot'[s].text = slot[s].text
  BY <1>0, <1>1 DEF NoNewLease, NoNewText
<1>2. Reads' = [s \in Slots |-> IF s \in ws THEN NULL ELSE Reads[s]]
  BY <1>0, <1>1 DEF Reads
<1>3. WP!Forget(ws)
  BY <1>2 DEF WP!Forget, Reads
<1> QED BY <1>3 DEF WP!PathNext, WP!WorkerStep

(* Every step of the pipeline is one of WritePath, or changes neither the  *)
(* table nor what is read.                                                 *)
LEMMA PathStep == TypeOK /\ [Next]_vars => [WP!PathNext]_WP!pathVars
<1> SUFFICES ASSUME TypeOK, [Next]_vars PROVE WP!PathNext \/ UNCHANGED WP!pathVars
  OBVIOUS
<1>0. slot \in [Slots -> Slot] /\ table \in [Docs -> Row \cup {NULL}]
  BY DEF TypeOK
<1>1. ASSUME UNCHANGED <<table, slot>> PROVE UNCHANGED WP!pathVars
  BY <1>1 DEF WP!pathVars
<1>2. ASSUME NEW h \in Handlers, NEW u \in Uploads, IngestUpsert(h, u) PROVE WP!PathNext
  <2>1. WP!Post(u)
    BY <1>2 DEF IngestUpsert, WP!Post, UpsertDocument, WP!UpsertDocument
  <2> QED BY <2>1 DEF WP!PathNext, WP!Statement
<1>3. ASSUME NEW d \in Docs, NEW tenant \in Tenants, ClientDelete(d, tenant)
      PROVE  WP!PathNext
  <2>1. WP!Remove(d, tenant)
    BY <1>3 DEF ClientDelete, WP!Remove, DeleteDocument, WP!DeleteDocument
  <2> QED BY <2>1 DEF WP!PathNext, WP!Statement
<1>4. CASE ClientNext
  BY <1>1, <1>2, <1>3, <1>4
     DEF ClientNext, IngestPublish, IngestAbort, BackfillQuery, BackfillPublish, BackfillFails
<1>5. ASSUME NEW s \in Slots, FetchText(s) PROVE WP!PathNext
  <2>1. PICK d \in Docs : d = slot[s].msg.doc /\ table[d] # NULL
    BY <1>5, FetchLemma, NullIsNoValue
  <2>2. Reads' = [Reads EXCEPT ![s] = [doc |-> d, text |-> table[d].text]]
    <3>1. Reads'[s] = [doc |-> d, text |-> table[d].text]
      BY <1>5, <2>1, FetchLemma DEF Reads
    <3>2. \A t \in Slots : t # s => Reads'[t] = Reads[t]
      BY <1>5, FetchLemma DEF Reads
    <3> QED BY <3>1, <3>2 DEF Reads
  <2>3. Reads[s] = NULL /\ UNCHANGED table
    BY <1>5 DEF FetchText, Reads
  <2>4. WP!Read(s, d)
    BY <2>1, <2>2, <2>3 DEF WP!Read, Reads
  <2> QED BY <2>4 DEF WP!PathNext, WP!WorkerStep
<1>6. ASSUME NEW s \in Slots, WriteEmbedding(s) PROVE WP!PathNext
  <2>1. /\ slot[s].pc = "embed" /\ slot[s].msg.doc \in Docs /\ slot[s].text \in Texts
        /\ Goto(s, "delete")
        /\ table' = SetEmbedding(table, slot[s].msg.doc, slot[s].text, EmbedModel)
    BY <1>6 DEF WriteEmbedding, TypeOK
  <2>2. Reads' = [Reads EXCEPT ![s] = NULL]
    BY <2>1, GotoLemma DEF Reads
  <2>3. Reads[s] = [doc |-> slot[s].msg.doc, text |-> slot[s].text] /\ Reads[s] # NULL
    BY <2>1 DEF Reads
  <2>4. Reads[s].doc = slot[s].msg.doc /\ Reads[s].text = slot[s].text
    BY <2>3
  <2>5. table' = SetEmbedding(table, Reads[s].doc, Reads[s].text, EmbedModel)
    BY <2>1, <2>4
  <2>6. WP!Write(s)
    BY <2>2, <2>3, <2>5 DEF WP!Write, Reads, SetEmbedding, WP!SetEmbedding
  <2> QED BY <2>6 DEF WP!PathNext, WP!Statement
<1>7. ASSUME NEW s \in Slots,
             Discard(s) \/ FetchFails(s) \/ Abandon(s) \/ Acknowledge(s)
      PROVE  WP!PathNext
  <2>1. NoNewLease /\ NoNewText
    BY <1>7, SlotSteps DEF Discard, FetchFails, Abandon, Acknowledge
  <2>2. UNCHANGED table
    BY <1>7 DEF Discard, FetchFails, Abandon, Acknowledge
  <2> QED BY <2>1, <2>2, ForgetLemma
<1>8. ASSUME NEW p \in Pods, NEW ss \in SUBSET Slots, WorkerCrash(p) \/ EmbedRejected(p, ss)
      PROVE  WP!PathNext
  BY <1>8, SlotSteps, ForgetLemma DEF WorkerCrash, EmbedRejected
<1>9. ASSUME NEW p \in Pods, NEW batch \in SUBSET messages, Receive(p, batch)
      PROVE  UNCHANGED WP!pathVars
  <2>1. ASSUME NEW s \in Slots PROVE Reads'[s] = Reads[s]
    <3>1. slot'[s] = slot[s] \/ (slot[s].pc = "idle" /\ slot'[s].pc = "fetch")
      BY <1>9, ReceiveLemma
    <3> QED BY <3>1 DEF Reads
  <2>2. UNCHANGED table
    BY <1>9 DEF Receive
  <2>3. Reads' = Reads
    BY <2>1 DEF Reads
  <2> QED BY <2>2, <2>3 DEF WP!pathVars, Reads
<1>10. CASE WorkerNext
  BY <1>5, <1>6, <1>7, <1>8, <1>9, <1>10 DEF WorkerNext
<1>11. CASE QueueNext
  <2>1. ASSUME NEW m \in messages, LeaseLapses(m) \/ RetentionExpires(m) PROVE WP!PathNext
    BY <2>1, SlotSteps, ForgetLemma DEF LeaseLapses, RetentionExpires
  <2> QED BY <1>1, <1>11, <2>1 DEF QueueNext, LeaseEnds, DedupExpires, ForeignSend
<1>12. CASE UNCHANGED vars
  BY <1>1, <1>12 DEF vars
<1> QED BY <1>4, <1>10, <1>11, <1>12 DEF Next

-----------------------------------------------------------------------------
(* The theorems.                                                           *)

(* The inductive invariant holds at first,                                 *)
LEMMA InitIInv == Init => IInv
<1> SUFFICES ASSUME Init PROVE IInv
  OBVIOUS
<1>1. Idle \in Slot /\ Idle.pc = "idle"
  BY DEF Idle, Slot
<1>2. TypeOK
  BY <1>1 DEF Init, TypeOK, QueueInit, QueueTypeOK
<1>3. Leases
  BY <1>1 DEF Init, QueueInit, Leases
<1>4. OutdatedIsFollowed
  BY <1>1 DEF Init, OutdatedIsFollowed, Outdated
<1>5. NoSilentLoss
  BY DEF Init, NoSilentLoss, Dirty
<1> QED BY <1>2, <1>3, <1>4, <1>5 DEF IInv

(* and every step keeps it.                                                *)
LEMMA StepIInv == IInv /\ [Next]_vars => IInv'
BY TypeStep, LeasesStep, FollowedStep, NoLossStep DEF IInv

(* IInv is inductive: every reachable state satisfies its four parts. *)
THEOREM Inductive == Spec => []IInv
BY InitIInv, StepIInv, PTL DEF Spec

(* The state stays within its types, whatever crashes and fails. *)
THEOREM TypeCorrect == Spec => []TypeOK
<1>1. IInv => TypeOK
  BY DEF IInv
<1> QED BY <1>1, Inductive, PTL

(* A message is worked on under its present lease by at most one process() *)
(* of any pod, and no other Receive returns it meanwhile.                  *)
THEOREM LeasesHold == Spec => []Leases
<1>1. IInv => Leases
  BY DEF IInv
<1> QED BY <1>1, Inductive, PTL

(* A row re-posted, under an id that one tenant uses, while a worker       *)
(* embeds its earlier text is followed by a job of its own, or by a named  *)
(* reason why not.                                                         *)
THEOREM RepostsAreFollowed == Spec => []OutdatedIsFollowed
<1>1. IInv => OutdatedIsFollowed
  BY DEF IInv
<1> QED BY <1>1, Inductive, PTL

(* "Write first, ack second": no row is left without the vector of its     *)
(* text and without a job that will compute it, unless one of the six      *)
(* known causes struck.                                                    *)
THEOREM NothingIsLost == Spec => []NoSilentLoss
<1>1. IInv => NoSilentLoss
  BY DEF IInv
<1> QED BY <1>1, Inductive, PTL

(* Jobs of one tenant are never worked on in two pods, under leases that   *)
(* have not lapsed.                                                        *)
THEOREM OnePodAtATime == Spec => []OnePodPerTenant
<1>1. Init => OnePodPerTenant
  BY DEF Init, Idle, OnePodPerTenant
<1>2. IInv => TypeOK /\ Leases
  BY DEF IInv
<1> QED BY <1>1, <1>2, OnePodStep, Inductive, PTL DEF Spec

(* For the documents table the whole pipeline, with its crashes, lapsed    *)
(* leases and late workers, is a WritePath.                                *)
THEOREM ImplementsPath == Spec => ImplementsWritePath
<1>1. Init => WP!PathInit
  BY DEF Init, Idle, WP!PathInit
<1>2. IInv => TypeOK
  BY DEF IInv
<1> QED BY <1>1, <1>2, PathStep, Inductive, PTL DEF Spec, ImplementsWritePath, WP!PathSpec

(* WritePath's own theorems, under the refinement mapping. *)
WPProofs == INSTANCE WritePath_proofs WITH
              Workers <- Slots,
              reading <- [s \in Slots |->
                            IF slot[s].pc = "embed"
                              THEN [doc |-> slot[s].msg.doc, text |-> slot[s].text] ELSE NULL]

(* So the rows of the pipeline too have a tenant and a text that are       *)
(* posted under their ids, and are marked indexed exactly when they have a *)
(* vector.                                                                 *)
THEOREM RowsStayCoherent == Spec => []WP!RowsCoherent
<1>1. WPProofs!NullIsNoValue /\ WPProofs!WritePathConstants
  BY DEF WPProofs!NullIsNoValue, WPProofs!Row, Row, WPProofs!Status, Status,
         WPProofs!WritePathConstants, WPProofs!Reading
<1>2. WP!PathInit => WPProofs!PathInit
  BY DEF WP!PathInit, WPProofs!PathInit
<1>3. [WP!PathNext]_WP!pathVars => [WPProofs!PathNext]_WPProofs!pathVars
  BY DEF WP!PathNext, WPProofs!PathNext, WP!pathVars, WPProofs!pathVars,
         WP!Statement, WPProofs!Statement, WP!WorkerStep, WPProofs!WorkerStep,
         WP!Post, WPProofs!Post, WP!Remove, WPProofs!Remove, WP!Read, WPProofs!Read,
         WP!Write, WPProofs!Write, WP!Forget, WPProofs!Forget,
         WP!UpsertDocument, WPProofs!UpsertDocument, WP!SetEmbedding, WPProofs!SetEmbedding,
         WP!DeleteDocument, WPProofs!DeleteDocument
<1>4. Spec => WPProofs!PathSpec
  BY <1>2, <1>3, ImplementsPath, PTL DEF ImplementsWritePath, WP!PathSpec, WPProofs!PathSpec
<1>5. WPProofs!PathSpec => [](WPProofs!PathTypeOK /\ WPProofs!RowsCoherent)
  BY <1>1, WPProofs!RowsStayCoherent
<1>6. WPProofs!RowsCoherent => WP!RowsCoherent
  BY DEF WP!RowsCoherent, WPProofs!RowsCoherent
<1> QED BY <1>4, <1>5, <1>6, PTL
=============================================================================
