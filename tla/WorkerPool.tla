------------------------------ MODULE WorkerPool ------------------------------
(***************************************************************************)
(* One worker pod of cmd/worker: the loop of Run, its semaphore, the       *)
(* goroutines of process and the context that SIGTERM cancels.             *)
(*                                                                         *)
(* A message is identified with its document.  What other pods do with it  *)
(* is in IngestPipeline; here it is redelivered to this pod.               *)
(***************************************************************************)
EXTENDS Integers, Sequences, FiniteSets, SequencesExt

CONSTANTS
  Messages,
  Poison,        \* messages with a body that does not parse
  Concurrency,   \* cfg.WorkerConcurrency
  BatchMax       \* messages asked of one Receive (10)

ASSUME PoolConstants ==
  /\ IsFiniteSet(Messages)
  /\ Poison \subseteq Messages
  /\ Concurrency \in Nat \ {0}
  /\ BatchMax \in Nat \ {0}

VARIABLES
  run,       \* where Run is
  batch,     \* received messages that Run has not dispatched
  job,       \* where each message is
  sem,       \* tokens in the semaphore
  drained,   \* tokens that the drain has put there
  ctx,       \* the context of the pod
  rows,      \* documents that exist
  written,   \* documents whose vector was written
  misread    \* ghost: messages whose last lookup failed, with a row to be
             \* found and a live context

vars == <<run, batch, job, sem, drained, ctx, rows, written, misread>>

(* Where process() is. *)
Working == {"parse", "fetch", "discard", "embed", "write", "ack"}

Goroutines == {m \in Messages : job[m] \in Working}

(* Type correctness of the whole state. *)
TypeOK ==
  /\ run \in {"poll", "receive", "dispatch", "drain", "returned", "exited"}
  /\ batch \in Seq(Messages)
  /\ job \in [Messages -> Working \cup {"queued", "received", "hidden", "deleted"}]
  /\ sem \in 0..Concurrency
  /\ drained \in 0..Concurrency
  /\ ctx \in {"live", "cancelled"}
  /\ rows \subseteq Messages
  /\ written \subseteq Messages
  /\ misread \subseteq Messages

Init ==
  /\ run = "poll"
  /\ batch = <<>>
  /\ job = [m \in Messages |-> "queued"]
  /\ sem = 0 /\ drained = 0
  /\ ctx = "live"
  /\ rows = Messages
  /\ written = {} /\ misread = {}

-----------------------------------------------------------------------------
(* Run.                                                                    *)

(* The select at the top of the loop. *)
CheckContext ==
  /\ run = "poll"
  /\ run' = IF ctx = "cancelled" THEN "drain" ELSE "receive"
  /\ UNCHANGED <<batch, job, sem, drained, ctx, rows, written, misread>>

(* A long poll ends with a batch, possibly an empty one. *)
Receive(ms) ==
  /\ run = "receive" /\ ctx = "live"
  /\ \A m \in ms : job[m] = "queued"
  /\ Cardinality(ms) <= BatchMax
  /\ batch' \in SetToSeqs(ms)
  /\ job' = [m \in Messages |-> IF m \in ms THEN "received" ELSE job[m]]
  /\ run' = IF ms = {} THEN "poll" ELSE "dispatch"
  /\ UNCHANGED <<sem, drained, ctx, rows, written, misread>>

(* A long poll ends with an error: Run returns if the context is the       *)
(* reason, else it sleeps and goes on.  The answer that is lost may have   *)
(* made messages invisible.                                                *)
ReceiveFails(ms) ==
  /\ run = "receive"
  /\ \A m \in ms : job[m] = "queued"
  /\ Cardinality(ms) <= BatchMax
  /\ job' = [m \in Messages |-> IF m \in ms THEN "hidden" ELSE job[m]]
  /\ run' = IF ctx = "cancelled" THEN "returned" ELSE "poll"
  /\ UNCHANGED <<batch, sem, drained, ctx, rows, written, misread>>

(* sem <- struct{}{}, whatever the context, and a goroutine starts. *)
Dispatch ==
  /\ run = "dispatch"
  /\ sem < Concurrency
  /\ sem' = sem + 1
  /\ job' = [job EXCEPT ![Head(batch)] = "parse"]
  /\ batch' = Tail(batch)
  /\ run' = IF Len(batch) = 1 THEN "poll" ELSE "dispatch"
  /\ UNCHANGED <<drained, ctx, rows, written, misread>>

(* Mutant: the loop ends at cap(sem) - 1. *)
FilledOneShort == drained + 2 >= Concurrency

Filled == drained + 1 = Concurrency

(* One turn of the loop that fills the semaphore. *)
Drain ==
  /\ run = "drain"
  /\ sem < Concurrency
  /\ sem' = sem + 1
  /\ drained' = drained + 1
  /\ run' = IF Filled THEN "returned" ELSE "drain"
  /\ UNCHANGED <<batch, job, ctx, rows, written, misread>>

(* main returns after Run: goroutines that are left end where they are. *)
Exit ==
  /\ run = "returned"
  /\ run' = "exited"
  /\ job' = [m \in Messages |-> IF m \in Goroutines THEN "hidden" ELSE job[m]]
  /\ sem' = drained
  /\ UNCHANGED <<batch, drained, ctx, rows, written, misread>>

-----------------------------------------------------------------------------
(* process.  A call with the context of the pod fails once it is           *)
(* cancelled, and may fail before for reasons of its own.                  *)
Goto(m, to) ==
  /\ job' = [job EXCEPT ![m] = to]
  /\ UNCHANGED <<run, batch, sem, drained, ctx, rows>>

(* Mutant: an early return does not release the slot. *)
EndLeaksSlot(m, to) == Goto(m, to)

(* Mutant: a release beside the deferred one. *)
EndReleasesTwice(m, to) ==
  /\ job' = [job EXCEPT ![m] = to]
  /\ sem' = sem - 2
  /\ UNCHANGED <<run, batch, drained, ctx, rows>>

(* process returns: the deferred release of its slot. *)
End(m, to) ==
  /\ job' = [job EXCEPT ![m] = to]
  /\ sem' = sem - 1
  /\ UNCHANGED <<run, batch, drained, ctx, rows>>

(* Mutant: Delete gets a context of its own. *)
AfterDeleteDetached == {"deleted", "hidden"}

(* What becomes of a message that process deletes. *)
AfterDelete == IF ctx = "live" THEN {"deleted", "hidden"} ELSE {"hidden"}

Parse(m) ==
  /\ job[m] = "parse"
  /\ Goto(m, IF m \in Poison THEN "discard" ELSE "fetch")
  /\ UNCHANGED <<written, misread>>

(* GetDocumentText finds the row; or it finds none, or fails: for the      *)
(* context, or because the database does not answer.  Every failure reads  *)
(* as "document not found".                                                *)
Fetch(m) ==
  /\ job[m] = "fetch"
  /\ \/ /\ ctx = "live" /\ m \in rows
        /\ Goto(m, "embed")
        /\ misread' = misread \ {m}
     \/ /\ Goto(m, "discard")
        /\ misread' = IF ctx = "live" /\ m \in rows THEN misread \cup {m} ELSE misread \ {m}
  /\ UNCHANGED written

(* The body does not parse or the text cannot be fetched: the error of     *)
(* Delete is ignored.                                                      *)
Discard(m) ==
  /\ job[m] = "discard"
  /\ \E to \in AfterDelete : End(m, to)
  /\ UNCHANGED <<written, misread>>

(* Batcher.Add does not look at the context. *)
Embed(m) ==
  /\ job[m] = "embed"
  /\ Goto(m, "write") \/ End(m, "hidden")
  /\ UNCHANGED <<written, misread>>

Write(m) ==
  /\ job[m] = "write"
  /\ \/ /\ ctx = "live"
        /\ Goto(m, "ack")
        /\ written' = written \cup {m}
     \/ End(m, "hidden") /\ UNCHANGED written
  /\ UNCHANGED misread

Acknowledge(m) ==
  /\ job[m] = "ack"
  /\ \E to \in AfterDelete : End(m, to)
  /\ UNCHANGED <<written, misread>>

Process(m) ==
  /\ run # "exited"
  /\ Parse(m) \/ Fetch(m) \/ Discard(m) \/ Embed(m) \/ Write(m) \/ Acknowledge(m)

-----------------------------------------------------------------------------
(* SIGTERM. *)
Cancel ==
  /\ ctx = "live"
  /\ ctx' = "cancelled"
  /\ UNCHANGED <<run, batch, job, sem, drained, rows, written, misread>>

(* The visibility timeout of a message that was not deleted ends. *)
Redeliver(m) ==
  /\ job[m] = "hidden"
  /\ job' = [job EXCEPT ![m] = "queued"]
  /\ UNCHANGED <<run, batch, sem, drained, ctx, rows, written, misread>>

ClientDelete(m) ==
  /\ m \in rows
  /\ rows' = rows \ {m}
  /\ UNCHANGED <<run, batch, job, sem, drained, ctx, written, misread>>

RunStep(ms) == CheckContext \/ Receive(ms) \/ ReceiveFails(ms) \/ Dispatch \/ Drain \/ Exit

Next ==
  \/ \E ms \in SUBSET Messages : RunStep(ms)
  \/ \E m \in Messages : Process(m) \/ Redeliver(m) \/ ClientDelete(m)
  \/ Cancel

Spec == Init /\ [][Next]_vars

(* Goroutines run, a long poll ends after at most twenty seconds and       *)
(* Batcher.Add returns (Batcher).                                          *)
Fairness ==
  /\ WF_vars(\E ms \in SUBSET Messages : RunStep(ms))
  /\ \A m \in Messages : WF_vars(Process(m))

FairSpec == Spec /\ Fairness

-----------------------------------------------------------------------------
(* Every token in the semaphore is that of a goroutine or of the drain:    *)
(* never more goroutines than the concurrency, and none loses its slot.    *)
SemaphoreCounts == sem = Cardinality(Goroutines) + drained

(* A Run that returns from its drain has left no goroutine behind. *)
CleanStop ==
  run = "returned" /\ drained > 0 => Goroutines = {}

(* A message is deleted only if its vector was written, its body does not  *)
(* parse, its document is gone, or the database failed at the lookup for   *)
(* reasons of its own, which the code takes for a document that is gone.   *)
(* A shutdown makes every lookup fail too, but then the Delete that        *)
(* follows fails as well: it loses nothing.                                *)
ShutdownLosesNothing ==
  \A m \in Messages : job[m] = "deleted" =>
    m \in written \cup Poison \cup misread \/ m \notin rows

(* To the queue and to Kubernetes the pod is a Delivery: it deletes only   *)
(* what it holds and nothing after SIGTERM, no message stays in its hands  *)
(* for ever, and, told to stop, it does: no goroutine keeps its slot and   *)
(* the drain gets them all.                                                *)
Held == {m \in Messages : job[m] \in Working \cup {"received"}}

Pod == INSTANCE Delivery WITH
         phase <- IF run = "exited" THEN "stopped"
                    ELSE IF ctx = "live" THEN "running" ELSE "stopping",
         held <- Held,
         done <- {m \in Messages : job[m] = "deleted"}
ImplementsDelivery == Pod!PodSpec

-----------------------------------------------------------------------------
(* What the repository says of itself.                                     *)

(* Run drains all goroutines in flight before it returns. *)
DrainedBeforeReturn == run = "returned" => Goroutines = {}
=============================================================================
