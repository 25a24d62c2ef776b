------------------------------- MODULE JobQueue -------------------------------
(***************************************************************************)
(* The SQS FIFO queue of embed jobs as internal/queue/queue.go uses it.    *)
(* A message group is a tenant, the deduplication id is the document id.   *)
(* The order of sending is the order of the ids.                           *)
(*                                                                         *)
(* Time is abstract: a deduplication entry and a visibility timeout may    *)
(* end at any moment after they begin.                                     *)
(***************************************************************************)
EXTENDS Naturals, FiniteSets, Documents

VARIABLES
  messages,   \* messages sent and not deleted
  inflight,   \* those of them that were received and are invisible
  dedup,      \* document ids sent within the deduplication window
  nextId      \* number of messages ever sent

queueVars == <<messages, inflight, dedup, nextId>>

(* doc = NULL: a body that ParseJob cannot unmarshal. *)
Message == [id : Nat, doc : Docs \cup {NULL}, group : Tenants]

QueueTypeOK ==
  /\ messages \subseteq Message
  /\ inflight \subseteq messages
  /\ dedup \subseteq Docs
  /\ nextId \in Nat

QueueInit ==
  /\ messages = {}
  /\ inflight = {}
  /\ dedup = {}
  /\ nextId = 0

Send(doc, group) ==
  /\ messages' = messages \cup {[id |-> nextId, doc |-> doc, group |-> group]}
  /\ nextId' = nextId + 1
  /\ UNCHANGED inflight

(* SendMessage with MessageDeduplicationId = document id: within the       *)
(* window the call succeeds and nothing is delivered, whatever happened to *)
(* the first message.                                                      *)
Publish(d, tenant) ==
  IF d \in dedup
    THEN UNCHANGED queueVars
    ELSE Send(d, tenant) /\ dedup' = dedup \cup {d}

(* Mutant: a standard queue, without message groups. *)
ReceivableStandard(batch, max) ==
  /\ batch \subseteq messages \ inflight
  /\ Cardinality(batch) \in 1..max

(* What one ReceiveMessage may return: from groups with no invisible       *)
(* message, the oldest messages of each, at most max of them.              *)
Receivable(batch, max) ==
  /\ batch \subseteq messages
  /\ Cardinality(batch) \in 1..max
  /\ \A m \in batch :
       /\ \A n \in inflight : n.group # m.group
       /\ \A n \in messages : n.group = m.group /\ n.id < m.id => n \in batch

(* Mutant: the receipt of a deleted message is still held. *)
RemoveKeepsLease(m) ==
  /\ messages' = messages \ {m}
  /\ UNCHANGED <<inflight, dedup, nextId>>

Remove(m) ==
  /\ messages' = messages \ {m}
  /\ inflight' = inflight \ {m}
  /\ UNCHANGED <<dedup, nextId>>

(* Mutant: a message is deleted by its id, under any lease. *)
DeleteAnyLease(m, current) == Remove(m)

(* DeleteMessage with the receipt of a lease that has lapsed deletes       *)
(* nothing.                                                                *)
Delete(m, current) == IF current THEN Remove(m) ELSE UNCHANGED queueVars
=============================================================================
