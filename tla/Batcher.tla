------------------------------- MODULE Batcher --------------------------------
(***************************************************************************)
(* internal/embed/batcher.go: the goroutines of a worker pod put their     *)
(* texts in one bucket, which the goroutine that fills it or the timer of  *)
(* the collection window hands to one EmbedBatch call.                     *)
(*                                                                         *)
(* The critical sections of b.mu are one step each.  Everything else, the  *)
(* read of b.timer in Add included, interleaves.  An answer of the API     *)
(* with too few vectors ends the process; the next one starts anew.        *)
(***************************************************************************)
EXTENDS Integers, SequencesExt, Vectors

CONSTANTS
  Callers,   \* goroutines that call Add
  Texts,     \* document texts
  Error,     \* an error, or a nil vector, which the table refuses
  Absent,    \* what vectors[i] finds past the end: a panic
  NULL,
  MaxSize,   \* maxSize (100 in cmd/worker)
  MaxAdds    \* bound: calls of Add

ASSUME BatcherConstants ==
  /\ IsFiniteSet(Callers)
  /\ Callers \cap Nat = {}
  /\ NULL \notin Callers \cup Texts \cup {Error, Absent}
  /\ Error \notin Texts
  /\ Absent \notin Texts \cup {Error}
  /\ MaxSize \in Nat \ {0}
  /\ MaxAdds \in Nat

VARIABLES
  pending,   \* the bucket
  timer,     \* b.timer: the number of the timer created last, 0 for nil
  armed,     \* timers that are running
  fired,     \* timers whose goroutine has not entered flush's lock
  pc, arg,   \* where each caller is in Add, and with which text
  seen,      \* the timer a caller that will flush saw under the lock
  batch,     \* the flush of each flusher: items and answers still to deliver
  mailbox,   \* the private result channel of each call
  adds

vars == <<pending, timer, armed, fired, pc, arg, seen, batch, mailbox, adds>>

(* flush runs in the goroutine of a caller or in that of a timer. *)
Timers == 1..MaxAdds
Flushers == Callers \cup Timers

Item == [text : Texts, caller : Callers]
Answers == Texts \cup {Error}   \* what a mailbox holds
NoBatch == [items |-> <<>>, answers |-> <<>>]

(* Type correctness of the whole state. *)
TypeOK ==
  /\ pending \in Seq(Item)
  /\ timer \in 0..adds
  /\ armed \subseteq 1..timer
  /\ fired \subseteq 1..timer
  /\ pc \in [Callers -> {"idle", "stop", "flush", "wait"}]
  /\ arg \in [Callers -> Texts \cup {NULL}]
  /\ seen \in [Callers -> 0..timer]
  /\ batch \in [Flushers -> [items : Seq(Item), answers : Seq(Answers \cup {Absent})]]
  /\ mailbox \in [Callers -> Answers \cup {NULL}]
  /\ adds \in 0..MaxAdds

Init ==
  /\ pending = <<>>
  /\ timer = 0
  /\ armed = {} /\ fired = {}
  /\ pc = [c \in Callers |-> "idle"]
  /\ arg = [c \in Callers |-> NULL]
  /\ seen = [c \in Callers |-> 0]
  /\ batch = [f \in Flushers |-> NoBatch]
  /\ mailbox = [c \in Callers |-> NULL]
  /\ adds = 0

-----------------------------------------------------------------------------
(* Mutant: only a nil timer is started. *)
OpensBucketOnce == timer = 0

(* The item to be added is the first of its bucket. *)
OpensBucket == pending = <<>>

(* Mutant: only the caller that makes the bucket exactly full flushes. *)
FillsBucketExactly == Len(pending) + 1 = MaxSize

FillsBucket == Len(pending) + 1 >= MaxSize

(* Add, up to the unlock: the first item of a bucket starts a timer, the   *)
(* item that fills it makes its caller flush.                              *)
Add(c, text) ==
  /\ pc[c] = "idle" /\ adds < MaxAdds
  /\ adds' = adds + 1
  /\ pending' = Append(pending, [text |-> text, caller |-> c])
  /\ arg' = [arg EXCEPT ![c] = text]
  /\ IF OpensBucket THEN timer' = timer + 1 /\ armed' = armed \cup {timer + 1}
                    ELSE UNCHANGED <<timer, armed>>
  /\ IF FillsBucket
       THEN pc' = [pc EXCEPT ![c] = "stop"] /\ seen' = [seen EXCEPT ![c] = timer']
       ELSE pc' = [pc EXCEPT ![c] = "wait"] /\ UNCHANGED seen
  /\ UNCHANGED <<fired, batch, mailbox>>

(* b.timer.Stop() outside the lock: the racy read finds the timer seen     *)
(* under the lock or any later one.  Stopping an expired timer does        *)
(* nothing.                                                                *)
Stop(c) ==
  /\ pc[c] = "stop"
  /\ \E t \in seen[c]..timer : armed' = armed \ {t}
  /\ pc' = [pc EXCEPT ![c] = "flush"]
  /\ seen' = [seen EXCEPT ![c] = 0]
  /\ UNCHANGED <<pending, timer, fired, arg, batch, mailbox, adds>>

(* Mutant: the bucket is emptied after the call, not in the lock. *)
TakeBucketKeepsItems(f) ==
  /\ batch' = [batch EXCEPT ![f] = [items |-> pending, answers |-> <<>>]]
  /\ UNCHANGED pending

(* flush, its critical section: f takes the bucket. *)
TakeBucket(f) ==
  /\ batch' = [batch EXCEPT ![f] = [items |-> pending, answers |-> <<>>]]
  /\ pending' = <<>>

CallerFlush(c) ==
  /\ pc[c] = "flush"
  /\ TakeBucket(c)
  /\ pc' = [pc EXCEPT ![c] = "wait"]
  /\ UNCHANGED <<timer, armed, fired, arg, seen, mailbox, adds>>

(* The collection window of a timer ends. *)
Fire(t) ==
  /\ t \in armed
  /\ armed' = armed \ {t}
  /\ fired' = fired \cup {t}
  /\ UNCHANGED <<pending, timer, pc, arg, seen, batch, mailbox, adds>>

TimerFlush(t) ==
  /\ t \in fired
  /\ fired' = fired \ {t}
  /\ TakeBucket(t)
  /\ UNCHANGED <<timer, armed, pc, arg, seen, mailbox, adds>>

(* Mutant: the error of EmbedBatch is dropped on its way out. *)
OutcomesNothing(texts) == {[i \in DOMAIN texts |-> NULL]}

(* Mutant: the vectors come in another order than the texts. *)
OutcomesReversed(texts) == {Reverse(texts)}

(* What the loop of flush finds for each text: the error of EmbedBatch, or *)
(* its vectors, which may be too few.                                      *)
Outcomes(texts) ==
  {[i \in DOMAIN texts |-> Error]}
    \cup {[i \in DOMAIN texts |-> IF i <= Len(v) THEN v[i] ELSE Absent] :
             v \in VectorsOf(texts, Error)}

EmbedReturns(f) ==
  /\ batch[f].items # <<>> /\ batch[f].answers = <<>>
  /\ \E answers \in Outcomes([i \in DOMAIN batch[f].items |-> batch[f].items[i].text]) :
       batch' = [batch EXCEPT ![f].answers = answers]
  /\ UNCHANGED <<pending, timer, armed, fired, pc, arg, seen, mailbox, adds>>

(* One turn of the loop that fans the results back. *)
Deliver(f) ==
  /\ batch[f].answers # <<>> /\ Head(batch[f].answers) # Absent
  /\ mailbox' = [mailbox EXCEPT ![Head(batch[f].items).caller] = Head(batch[f].answers)]
  /\ batch' = [batch EXCEPT ![f] = [items |-> Tail(@.items), answers |-> Tail(@.answers)]]
  /\ UNCHANGED <<pending, timer, armed, fired, pc, arg, seen, adds>>

(* The index is out of range: nothing recovers from the panic and the      *)
(* process ends, the other goroutines and their batches with it.           *)
Panic(f) ==
  /\ batch[f].answers # <<>> /\ Head(batch[f].answers) = Absent
  /\ pending' = <<>>
  /\ timer' = 0
  /\ armed' = {} /\ fired' = {}
  /\ pc' = [c \in Callers |-> "idle"]
  /\ arg' = [c \in Callers |-> NULL]
  /\ seen' = [c \in Callers |-> 0]
  /\ batch' = [g \in Flushers |-> NoBatch]
  /\ mailbox' = [c \in Callers |-> NULL]
  /\ UNCHANGED adds

(* Add receives from its mailbox, once its own flush, if any, is over. *)
Return(c) ==
  /\ pc[c] = "wait" /\ batch[c].items = <<>> /\ mailbox[c] # NULL
  /\ pc' = [pc EXCEPT ![c] = "idle"]
  /\ arg' = [arg EXCEPT ![c] = NULL]
  /\ mailbox' = [mailbox EXCEPT ![c] = NULL]
  /\ UNCHANGED <<pending, timer, armed, fired, seen, batch, adds>>

Next ==
  \/ \E c \in Callers, text \in Texts : Add(c, text)
  \/ \E c \in Callers : Stop(c) \/ CallerFlush(c) \/ Return(c)
  \/ \E t \in Timers : Fire(t) \/ TimerFlush(t)
  \/ \E f \in Flushers : EmbedReturns(f) \/ Deliver(f) \/ Panic(f)

Spec == Init /\ [][Next]_vars

(* Goroutines run, timers expire, and EmbedBatch returns after at most     *)
(* five attempts.  Nobody has to call Add.                                 *)
Fairness ==
  /\ \A c \in Callers : WF_vars(Stop(c) \/ CallerFlush(c) \/ Return(c))
  /\ \A t \in Timers : WF_vars(Fire(t)) /\ WF_vars(TimerFlush(t))
  /\ \A f \in Flushers : WF_vars(EmbedReturns(f) \/ Deliver(f) \/ Panic(f))

FairSpec == Spec /\ Fairness

-----------------------------------------------------------------------------
Flushing == {c \in Callers : pc[c] \in {"stop", "flush"}}

(* A flusher is in one flush at a time, and delivers an answer per item. *)
OneFlush ==
  /\ \A f \in Flushers : batch[f].answers # <<>> =>
       Len(batch[f].answers) = Len(batch[f].items)
  /\ \A c \in Callers : pc[c] # "wait" => batch[c].items = <<>>
  /\ armed \cap fired = {}
  /\ \A t \in Timers : t \in armed \cup fired \/ t > timer => batch[t].items = <<>>

(* An item in the bucket is never forgotten: a timer will still flush, or  *)
(* a caller that found the bucket full, although the timer that a caller   *)
(* stops need not be the one of the bucket that made it flush.             *)
NoStrandedItem == pending # <<>> => armed \cup fired # {} \/ Flushing # {}

(* Callers may append between the moment a bucket is full and its flush,   *)
(* but each of them is then on its way to flush too.                       *)
BoundedOvershoot == Len(pending) < MaxSize + Cardinality(Flushing)

(* An item belongs to a call in progress that has no answer yet, and an    *)
(* answer to be delivered to the item at its position.                     *)
Owned(item) ==
  /\ pc[item.caller] # "idle"
  /\ arg[item.caller] = item.text
  /\ mailbox[item.caller] = NULL

Ownership ==
  /\ \A c \in Callers : pc[c] = "idle" <=> arg[c] = NULL
  /\ \A c \in Callers : pc[c] = "idle" => mailbox[c] = NULL
  /\ \A i \in DOMAIN pending : Owned(pending[i])
  /\ \A f \in Flushers : \A i \in DOMAIN batch[f].items : Owned(batch[f].items[i])
  /\ \A f \in Flushers : \A i \in DOMAIN batch[f].answers :
       batch[f].answers[i] \in {batch[f].items[i].text, Error, Absent}

SingleItem ==
  /\ \A i, j \in DOMAIN pending : pending[i].caller = pending[j].caller => i = j
  /\ \A f \in Flushers : \A i \in DOMAIN batch[f].items :
       /\ \A j \in DOMAIN pending : batch[f].items[i].caller # pending[j].caller
       /\ \A g \in Flushers : \A j \in DOMAIN batch[g].items :
            batch[f].items[i].caller = batch[g].items[j].caller => f = g /\ i = j

(* The call in progress of each caller is in one place: in the bucket, in  *)
(* one batch, or answered.                                                 *)
OnePlace ==
  /\ SingleItem
  /\ \A c \in Callers : pc[c] # "idle" =>
       \/ mailbox[c] # NULL
       \/ \E i \in DOMAIN pending : pending[i].caller = c
       \/ \E f \in Flushers : \E i \in DOMAIN batch[f].items : batch[f].items[i].caller = c

(* Every call of Add gets exactly one answer, the vector of its own text   *)
(* or an error, and returns, unless the process dies: the batcher          *)
(* implements EmbedCalls.                                                  *)
EC == INSTANCE EmbedCalls WITH answer <- mailbox,
                               Replies <- [text \in Texts |-> {text, Error}]
ImplementsEmbedCalls == EC!CallSpec
=============================================================================
