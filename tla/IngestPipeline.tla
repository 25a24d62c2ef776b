---------------------------- MODULE IngestPipeline ----------------------------
(***************************************************************************)
(* The write path: ingest handlers, the documents table, the SQS queue,    *)
(* the embed workers and the backfill script, with the steps between which *)
(* another process can run.                                                *)
(*                                                                         *)
(* A slot is a place for one received message in a worker pod: a goroutine *)
(* of Worker.process or a place in the batch that Run is dispatching.      *)
(* An embedding call is one step here, Batcher refines it.                 *)
(***************************************************************************)
EXTENDS JobQueue, Functions

CONSTANTS
  Uploads,       \* what clients may post: a text, under an id, for a tenant
  Handlers,      \* concurrent IngestDocument calls
  Slots, Pods,   \* places for received messages, worker pods
  PodOf,         \* the pod of a slot
  BatchMax,      \* messages asked of one Receive (10)
  EmbedModel,    \* cfg.EmbedModel
  Unembeddable,  \* texts the embedding API rejects (over its token limit)
  RespectDedup,  \* no client re-posts a document within the dedup window
  MaxRequests,   \* bound: requests of clients, operators, foreign senders
  MaxFaults      \* bound: crashes, failed calls, lapsed leases, retention

ASSUME PipelineConstants ==
  /\ Uploads \subseteq [doc : Docs, tenant : Tenants, text : Texts]
  /\ NULL \notin {[doc |-> u.doc, tenant |-> u.tenant] : u \in Uploads}
  /\ PodOf \in [Slots -> Pods]
  /\ BatchMax \in Nat \ {0}
  /\ EmbedModel \in Models
  /\ Unembeddable \subseteq Texts
  /\ RespectDedup \in BOOLEAN
  /\ NULL \notin [doc : Docs, text : Texts]
  /\ MaxRequests \in Nat
  /\ MaxFaults \in Nat

VARIABLES
  table,     \* the documents table
  handler,   \* the job of a document that a handler has upserted and not
             \* yet published
  page,      \* jobs of documents that the backfill has read and not yet
             \* published
  slot,      \* the progress of process() on each received message
  suspect,   \* ghost: why a document may have lost its job (see Blame)
  requests, faults

vars == <<table, queueVars, handler, page, slot, suspect, requests, faults>>

Causes == {"dedup", "unpublished", "fetch_error", "retention", "late_write", "shared_id"}

(* models.EmbedJob. *)
Jobs == {[doc |-> u.doc, tenant |-> u.tenant] : u \in Uploads}

(* No two tenants post under this id. *)
Private(d) == \A i, j \in Jobs : i.doc = d /\ j.doc = d => i = j

Idle == [pc |-> "idle", msg |-> NULL, text |-> NULL, current |-> FALSE]

(* current: the lease under which the slot received msg has not lapsed. *)
Slot == [pc      : {"idle", "fetch", "embed", "delete"},
         msg     : Message \cup {NULL},
         text    : Texts \cup {NULL},
         current : BOOLEAN]

(* Type correctness of the whole state. *)
TypeOK ==
  /\ table \in [Docs -> Row \cup {NULL}]
  /\ \A d \in Docs : table[d] # NULL => [doc |-> d, tenant |-> table[d].tenant] \in Jobs
  /\ QueueTypeOK
  /\ handler \in [Handlers -> Jobs \cup {NULL}]
  /\ page \subseteq Jobs
  /\ slot \in [Slots -> Slot]
  /\ \A s \in Slots : /\ slot[s].pc # "idle" => slot[s].msg \in Message
                      /\ slot[s].pc = "embed" => /\ slot[s].msg.doc \in Docs
                                                 /\ slot[s].text \in Texts
  /\ suspect \in [Docs -> SUBSET Causes]
  /\ requests \in 0..MaxRequests
  /\ faults \in 0..MaxFaults

Init ==
  /\ table = [d \in Docs |-> NULL]
  /\ QueueInit
  /\ handler = [h \in Handlers |-> NULL]
  /\ page = {}
  /\ slot = [s \in Slots |-> Idle]
  /\ suspect = [d \in Docs |-> {}]
  /\ requests = 0
  /\ faults = 0

-----------------------------------------------------------------------------
Publishing(d) ==
  \/ \E job \in page : job.doc = d
  \/ \E h \in Handlers : handler[h] # NULL /\ handler[h].doc = d

Waiting(d) == {m \in messages \ inflight : m.doc = d}

Holders(m) == {s \in Slots : slot[s].pc # "idle" /\ slot[s].msg = m}

(* A job of d may be lost in this step for the reason why, unless another  *)
(* one is still to be received.                                            *)
Blame(d, why, lost) ==
  suspect' = IF d \in Docs /\ Waiting(d) \subseteq lost
               THEN [suspect EXCEPT ![d] = @ \cup {why}]
               ELSE suspect

Request == requests < MaxRequests /\ requests' = requests + 1 /\ UNCHANGED faults

Fault == faults < MaxFaults /\ faults' = faults + 1 /\ UNCHANGED requests

NoBudget == UNCHANGED <<requests, faults>>

-----------------------------------------------------------------------------
(* IngestDocument, step 1: the row is written.                             *)
IngestUpsert(h, u) ==
  /\ handler[h] = NULL
  /\ RespectDedup => u.doc \notin dedup /\ ~Publishing(u.doc)
  /\ Request
  /\ table' = UpsertDocument(table, u.doc, u.tenant, u.text)
  /\ handler' = [handler EXCEPT ![h] = [doc |-> u.doc, tenant |-> u.tenant]]
  /\ UNCHANGED <<queueVars, page, slot, suspect>>

(* SendMessage for a job: accepted and delivered, or accepted and dropped  *)
(* as a duplicate.                                                         *)
PublishJob(job) ==
  /\ Publish(job.doc, job.tenant)
  /\ IF job.doc \in dedup THEN Blame(job.doc, "dedup", {})
                          ELSE suspect' = [suspect EXCEPT ![job.doc] = {}]

(* IngestDocument, step 2. *)
IngestPublish(h) ==
  /\ handler[h] # NULL
  /\ PublishJob(handler[h])
  /\ handler' = [handler EXCEPT ![h] = NULL]
  /\ NoBudget
  /\ UNCHANGED <<table, page, slot>>

(* The ingest pod dies between the two steps, or SendMessage fails. *)
IngestAbort(h) ==
  /\ handler[h] # NULL
  /\ Fault
  /\ Blame(handler[h].doc, "unpublished", {})
  /\ handler' = [handler EXCEPT ![h] = NULL]
  /\ UNCHANGED <<table, queueVars, page, slot>>

ClientDelete(d, tenant) ==
  /\ table[d] # NULL
  /\ Request
  /\ table' = DeleteDocument(table, d, tenant)
  /\ UNCHANGED <<queueVars, handler, page, slot, suspect>>

-----------------------------------------------------------------------------
(* One page of scripts/backfill: pending rows created before the cutoff.   *)
BackfillQuery(ds) ==
  /\ page = {} /\ ds # {}
  /\ \A d \in ds : /\ table[d] # NULL /\ table[d].status = "pending"
                   /\ RespectDedup => d \notin dedup /\ ~Publishing(d)
  /\ Request
  /\ page' = {[doc |-> d, tenant |-> table[d].tenant] : d \in ds}
  /\ UNCHANGED <<table, queueVars, handler, slot, suspect>>

BackfillPublish(job) ==
  /\ job \in page
  /\ PublishJob(job)
  /\ page' = page \ {job}
  /\ NoBudget
  /\ UNCHANGED <<table, handler, slot>>

(* The publication of one job fails: logged, and the loop goes on. *)
BackfillFails(job) ==
  /\ job \in page
  /\ Fault
  /\ Blame(job.doc, "unpublished", {})
  /\ page' = page \ {job}
  /\ UNCHANGED <<table, queueVars, handler, slot>>

-----------------------------------------------------------------------------
(* Mutant: the goroutines share the loop variable of the dispatch. *)
MessageShared(batch, place, s) == CHOOSE m \in batch : TRUE

(* The message of the goroutine that slot s stands for. *)
MessageAt(batch, place, s) == CHOOSE m \in batch : place[m] = s

(* Worker.Run receives a batch and hands each message to a goroutine. *)
Receive(p, batch) ==
  /\ Receivable(batch, BatchMax)
  /\ \E place \in Injection(batch, {s \in Slots : PodOf[s] = p /\ slot[s].pc = "idle"}) :
       slot' = [s \in Slots |->
                  IF \E m \in batch : place[m] = s
                    THEN [pc |-> "fetch", msg |-> MessageAt(batch, place, s),
                          text |-> NULL, current |-> TRUE]
                    ELSE slot[s]]
  /\ inflight' = inflight \cup batch
  /\ NoBudget
  /\ UNCHANGED <<table, messages, dedup, nextId, handler, page, suspect>>

(* The steps of process leave everything but the slot alone, unless said   *)
(* otherwise.                                                              *)
Goto(s, pc) == slot' = [slot EXCEPT ![s].pc = pc]
Release(s) == slot' = [slot EXCEPT ![s] = Idle]
RestUnchanged == UNCHANGED <<queueVars, handler, page>>

RowOf(m) == IF m.doc = NULL THEN NULL ELSE table[m.doc]

(* Mutant: the goroutines share one variable for the text. *)
FetchTextShared(s) ==
  /\ slot[s].pc = "fetch"
  /\ RowOf(slot[s].msg) # NULL
  /\ slot' = [t \in Slots |->
                IF t = s THEN [slot[s] EXCEPT !.pc = "embed", !.text = RowOf(slot[s].msg).text]
                ELSE IF slot[t].pc = "embed" THEN [slot[t] EXCEPT !.text = RowOf(slot[s].msg).text]
                ELSE slot[t]]
  /\ NoBudget
  /\ RestUnchanged /\ UNCHANGED <<table, suspect>>

FetchText(s) ==
  /\ slot[s].pc = "fetch"
  /\ RowOf(slot[s].msg) # NULL
  /\ slot' = [slot EXCEPT ![s].pc = "embed", ![s].text = RowOf(slot[s].msg).text]
  /\ NoBudget
  /\ RestUnchanged /\ UNCHANGED <<table, suspect>>

(* The body does not parse, or the document does not exist. *)
Discard(s) ==
  /\ slot[s].pc = "fetch"
  /\ RowOf(slot[s].msg) = NULL
  /\ Goto(s, "delete")
  /\ NoBudget
  /\ RestUnchanged /\ UNCHANGED <<table, suspect>>

(* Any other error of GetDocumentText takes the same branch. *)
FetchFails(s) ==
  /\ slot[s].pc = "fetch"
  /\ RowOf(slot[s].msg) # NULL
  /\ Fault
  /\ Goto(s, "delete")
  /\ Blame(slot[s].msg.doc, "fetch_error", {})
  /\ RestUnchanged /\ UNCHANGED table

(* The vector is that of the text fetched earlier; the row may have        *)
(* another text, or none, by now.                                          *)
WriteEmbedding(s) ==
  LET d == slot[s].msg.doc
      outdated == table[d] # NULL /\ table[d].text # slot[s].text
  IN /\ slot[s].pc = "embed"
     /\ slot[s].text \notin Unembeddable
     /\ table' = SetEmbedding(table, d, slot[s].text, EmbedModel)
     /\ IF outdated /\ ~slot[s].current THEN Blame(d, "late_write", {})
        ELSE IF outdated /\ ~Private(d) THEN Blame(d, "shared_id", {})
        ELSE UNCHANGED suspect
     /\ Goto(s, "delete")
     /\ NoBudget
     /\ RestUnchanged

(* The embedding API refuses a request for one of its texts: none of the   *)
(* calls that Batcher put into it gets a vector, whatever their tenants,   *)
(* and none is acknowledged.                                               *)
EmbedRejected(p, ss) ==
  /\ \A s \in ss : PodOf[s] = p /\ slot[s].pc = "embed"
  /\ \E s \in ss : slot[s].text \in Unembeddable
  /\ slot' = [s \in Slots |-> IF s \in ss THEN Idle ELSE slot[s]]
  /\ NoBudget
  /\ RestUnchanged /\ UNCHANGED <<table, suspect>>

(* Mutant: a failed call is acknowledged as a successful one is. *)
AbandonAcknowledges(s) ==
  /\ slot[s].pc \in {"embed", "delete"}
  /\ Fault
  /\ Goto(s, "delete")
  /\ RestUnchanged /\ UNCHANGED <<table, suspect>>

(* The embedding, the UPDATE or the DeleteMessage fails: no ACK. *)
Abandon(s) ==
  /\ slot[s].pc \in {"embed", "delete"}
  /\ Fault
  /\ Release(s)
  /\ RestUnchanged /\ UNCHANGED <<table, suspect>>

Acknowledge(s) ==
  /\ slot[s].pc = "delete"
  /\ Delete(slot[s].msg, slot[s].current)
  /\ Release(s)
  /\ NoBudget
  /\ UNCHANGED <<table, handler, page, suspect>>

WorkerCrash(p) ==
  /\ \E s \in Slots : PodOf[s] = p /\ slot[s].pc # "idle"
  /\ Fault
  /\ slot' = [s \in Slots |-> IF PodOf[s] = p THEN Idle ELSE slot[s]]
  /\ RestUnchanged /\ UNCHANGED <<table, suspect>>

-----------------------------------------------------------------------------
(* What the queue does by itself. *)
Busy(m) == \E s \in Holders(m) : slot[s].current

EndLease(m) ==
  slot' = [s \in Slots |-> IF s \in Holders(m) THEN [slot[s] EXCEPT !.current = FALSE]
                                               ELSE slot[s]]

(* A message whose process() has returned is visible again after the       *)
(* visibility timeout.                                                     *)
LeaseEnds(m) ==
  /\ m \in inflight
  /\ ~Busy(m)
  /\ inflight' = inflight \ {m}
  /\ NoBudget
  /\ UNCHANGED <<table, messages, dedup, nextId, handler, page, slot, suspect>>

(* The same while a process() still works on it: nothing extends a lease,  *)
(* and the retries of an embedding call can outlast one.                   *)
LeaseLapses(m) ==
  /\ m \in inflight
  /\ Busy(m)
  /\ Fault
  /\ inflight' = inflight \ {m}
  /\ EndLease(m)
  /\ UNCHANGED <<table, messages, dedup, nextId, handler, page, suspect>>

RetentionExpires(m) ==
  /\ Fault
  /\ Remove(m)
  /\ EndLease(m)
  /\ Blame(m.doc, "retention", {m})
  /\ UNCHANGED <<table, handler, page>>

DedupExpires(d) ==
  /\ d \in dedup
  /\ dedup' = dedup \ {d}
  /\ NoBudget
  /\ UNCHANGED <<table, messages, inflight, nextId, handler, page, slot, suspect>>

(* A message no Publish of this code sent, with a body that does not parse. *)
ForeignSend(tenant) ==
  /\ Request
  /\ Send(NULL, tenant)
  /\ UNCHANGED <<table, dedup, handler, page, slot, suspect>>

-----------------------------------------------------------------------------
ClientNext ==
  \/ \E h \in Handlers, u \in Uploads : IngestUpsert(h, u)
  \/ \E h \in Handlers : IngestPublish(h) \/ IngestAbort(h)
  \/ \E d \in Docs, tenant \in Tenants : ClientDelete(d, tenant)
  \/ \E ds \in SUBSET Docs : BackfillQuery(ds)
  \/ \E job \in Jobs : BackfillPublish(job) \/ BackfillFails(job)

WorkerNext ==
  \/ \E p \in Pods, batch \in SUBSET messages : Receive(p, batch)
  \/ \E s \in Slots : \/ FetchText(s) \/ Discard(s) \/ FetchFails(s)
                      \/ WriteEmbedding(s) \/ Abandon(s) \/ Acknowledge(s)
  \/ \E p \in Pods, ss \in SUBSET Slots : EmbedRejected(p, ss)
  \/ \E p \in Pods : WorkerCrash(p)

QueueNext ==
  \/ \E m \in messages : LeaseEnds(m) \/ LeaseLapses(m) \/ RetentionExpires(m)
  \/ \E d \in Docs : DedupExpires(d)
  \/ \E tenant \in Tenants : ForeignSend(tenant)

Next == ClientNext \/ WorkerNext \/ QueueNext

Spec == Init /\ [][Next]_vars

(* The code's own steps are taken; clients, faults and the deduplication   *)
(* window owe nothing.  SQS shares its answers among the groups, so a      *)
(* group whose messages are visible again and again is received.           *)
ReceiveFrom(tenant) ==
  \E p \in Pods, batch \in SUBSET messages :
    /\ \E m \in batch : m.group = tenant
    /\ Receive(p, batch)

Rejected(s) == \E p \in Pods, ss \in SUBSET Slots : s \in ss /\ EmbedRejected(p, ss)

Fairness ==
  /\ \A h \in Handlers : WF_vars(IngestPublish(h))
  /\ \A job \in Jobs : WF_vars(BackfillPublish(job))
  /\ \A s \in Slots : WF_vars(FetchText(s) \/ Discard(s) \/ WriteEmbedding(s)
                              \/ Rejected(s) \/ Acknowledge(s))
  /\ \A tenant \in Tenants :
       /\ WF_vars(\E m \in messages : m.group = tenant /\ LeaseEnds(m))
       /\ SF_vars(ReceiveFrom(tenant))

FairSpec == Spec /\ Fairness

-----------------------------------------------------------------------------
(* Properties.                                                             *)

(* The row awaits a vector, or has the vector of an earlier text. *)
Dirty(d) ==
  table[d] # NULL /\ (table[d].status # "indexed" \/ table[d].embedding # table[d].text)

(* The slot will write, or may still write, the vector of the row's text. *)
Useful(s, d) ==
  \/ slot[s].pc = "fetch"
  \/ slot[s].pc = "embed" /\ table[d] # NULL /\ slot[s].text = table[d].text

Serving(d) ==
  {m \in messages : /\ m.doc = d
                    /\ \A s \in Holders(m) : slot[s].current => Useful(s, d)}

(* No job is lost in silence: as long as a row does not have the vector of *)
(* its text, someone is about to publish a job for it, or a job in the     *)
(* queue will embed its present text, or one of the known causes struck    *)
(* after the last job was enqueued.  "Write first, ack second" in process, *)
(* the order of the two steps of IngestDocument, the redelivery of what    *)
(* was not deleted and the serial delivery of a tenant's messages are all  *)
(* needed for it.                                                          *)
NoSilentLoss ==
  \A d \in Docs : Dirty(d) => \/ Publishing(d)
                              \/ Serving(d) # {}
                              \/ suspect[d] # {}

(* Messages are what Publish sent, at most one process() works on a        *)
(* message under its present lease, and that lease hides the message.      *)
Leases ==
  /\ \A m \in messages :
       m.id < nextId /\ (m.doc # NULL => [doc |-> m.doc, tenant |-> m.group] \in Jobs)
  /\ \A s \in Slots : slot[s].pc # "idle" =>
       /\ slot[s].msg.id < nextId
       /\ slot[s].current => slot[s].msg \in inflight
  /\ \A s, t \in Slots :
       /\ slot[s].pc # "idle" /\ slot[t].pc # "idle"
       /\ slot[s].current /\ slot[t].current /\ slot[s].msg = slot[t].msg
       => s = t

(* The jobs of a tenant are worked on in one pod at a time, under leases   *)
(* that have not lapsed: a second pod gets some only when the first has    *)
(* none left, whichever of its steps failed or timed out.                  *)
OnePodPerTenant ==
  \A s, t \in Slots :
    /\ slot[s].pc # "idle" /\ slot[t].pc # "idle"
    /\ slot[s].current /\ slot[t].current
    /\ slot[s].msg.group = slot[t].msg.group
    => PodOf[s] = PodOf[t]

(* The document that slot s is about to give a vector of an earlier text. *)
Outdated(s) ==
  /\ slot[s].pc = "embed" /\ slot[s].current
  /\ table[slot[s].msg.doc] # NULL
  /\ table[slot[s].msg.doc].text # slot[s].text

(* A row re-posted while process() embeds its earlier text has a job       *)
(* behind the one in progress, which the lease keeps in the queue until    *)
(* process() ends.  Ids that several tenants post are excepted: their      *)
(* groups do not wait for each other.                                      *)
OutdatedIsFollowed ==
  \A s \in Slots : Outdated(s) /\ Private(slot[s].msg.doc) =>
    LET d == slot[s].msg.doc
    IN Publishing(d) \/ Waiting(d) # {} \/ suspect[d] # {}

(* For the read path all this is a WritePath: whatever is retried, lapses  *)
(* or dies, the table changes by whole statements, and a worker writes the *)
(* text that it has read, to the document it has read it from, once.       *)
WP == INSTANCE WritePath WITH
        Workers <- Slots,
        reading <- [s \in Slots |->
                      IF slot[s].pc = "embed"
                        THEN [doc |-> slot[s].msg.doc, text |-> slot[s].text] ELSE NULL]
ImplementsWritePath == WP!PathSpec

(* The inductive invariant: no lost job, and why. *)
IInv == TypeOK /\ Leases /\ OutdatedIsFollowed /\ NoSilentLoss

(* A text the API will always reject is redelivered for ever, in front of  *)
(* whatever its tenant posts later, and each time it may fail the jobs     *)
(* that are embedded with it, those of other tenants included.             *)
Blocked == \E m \in messages : RowOf(m) # NULL /\ RowOf(m).text \in Unembeddable

(* With finitely many requests and faults, every document whose job was    *)
(* not put at risk ends up with the vector of its text, unless a rejected  *)
(* text stays in the queue.                                                *)
EventuallyCurrent == <>[](\A d \in Docs : Dirty(d) => suspect[d] # {} \/ Blocked)

-----------------------------------------------------------------------------
(* What the repository says of itself.                                     *)

(* README.md: re-posting a document id is safe.  A pending document then   *)
(* always has a job, or is about to get one.                               *)
RepostingIsSafe ==
  \A d \in Docs : table[d] # NULL /\ table[d].status = "pending" =>
    Publishing(d) \/ \E m \in messages : m.doc = d

(* process: retries are safe.  A row with the vector of its text then      *)
(* keeps it until it is posted again.                                      *)
RetriesAreSafe ==
  [][\A d \in Docs : /\ table[d] # NULL /\ ~Dirty(d)
                     /\ table'[d] # NULL /\ table'[d].text = table[d].text
                     => table'[d].embedding \in {NULL, table[d].text}]_vars

(* IngestDocument: after a crash between its two steps, or when Publish    *)
(* fails, the document sits in pending, where the backfill finds it.       *)
UnpublishedIsPending ==
  \A d \in Docs : Dirty(d) /\ suspect[d] = {"unpublished"} =>
    Publishing(d) \/ Serving(d) # {} \/ table[d].status = "pending"
=============================================================================
