-------------------------- MODULE WorkerPool_proofs ---------------------------
(* Theorems about WorkerPool, for any messages, concurrency and batches.   *)
EXTENDS WorkerPool, FiniteSetTheorems, SequenceTheorems, TLAPS

USE PoolConstants

(* A message waits at most once in the batch, and only if Run received it; *)
(* the drain counts its own tokens.                                        *)
BatchOK ==
  /\ \A i \in DOMAIN batch : job[batch[i]] = "received"
  /\ \A i, j \in DOMAIN batch : batch[i] = batch[j] => i = j
  /\ run = "dispatch" <=> batch # <<>>
  /\ run \in {"returned", "exited"} => drained \in {0, Concurrency}
  /\ run = "exited" => Goroutines = {}
  /\ run \notin {"drain", "returned", "exited"} => drained = 0
  /\ run = "drain" => drained < Concurrency

IInv == TypeOK /\ BatchOK /\ SemaphoreCounts

-----------------------------------------------------------------------------
(* One message moves: what happens to the set of goroutines. *)
LEMMA MoveLemma ==
  ASSUME TypeOK, NEW m \in Messages, NEW to, job' = [job EXCEPT ![m] = to]
  PROVE  /\ IsFiniteSet(Goroutines) /\ Cardinality(Goroutines) \in Nat
         /\ to \in Working /\ job[m] \in Working =>
              Cardinality(Goroutines') = Cardinality(Goroutines)
         /\ to \notin Working /\ job[m] \notin Working =>
              Cardinality(Goroutines') = Cardinality(Goroutines)
         /\ to \in Working /\ job[m] \notin Working =>
              Cardinality(Goroutines') = Cardinality(Goroutines) + 1
         /\ to \notin Working /\ job[m] \in Working =>
              /\ Cardinality(Goroutines') = Cardinality(Goroutines) - 1
              /\ Cardinality(Goroutines) > 0
         /\ Goroutines' \subseteq Goroutines \cup {m}
<1>1. IsFiniteSet(Goroutines)
  BY FS_Subset DEF Goroutines
<1>2. Cardinality(Goroutines) \in Nat
  BY <1>1, FS_CardinalityType
<1>3. \A n \in Messages : job'[n] = IF n = m THEN to ELSE job[n]
  BY DEF TypeOK
<1>4. to \in Working /\ job[m] \in Working => Goroutines' = Goroutines
  BY <1>3 DEF Goroutines
<1>5. to \notin Working /\ job[m] \notin Working => Goroutines' = Goroutines
  BY <1>3 DEF Goroutines
<1>6. ASSUME to \in Working, job[m] \notin Working
      PROVE  Cardinality(Goroutines') = Cardinality(Goroutines) + 1
  <2>1. Goroutines' = Goroutines \cup {m} /\ m \notin Goroutines
    BY <1>3, <1>6 DEF Goroutines
  <2> QED BY <1>1, <2>1, FS_AddElement
<1>7. ASSUME to \notin Working, job[m] \in Working
      PROVE  /\ Cardinality(Goroutines') = Cardinality(Goroutines) - 1
             /\ Cardinality(Goroutines) > 0
  <2>1. Goroutines' = Goroutines \ {m} /\ m \in Goroutines
    BY <1>3, <1>7 DEF Goroutines
  <2>2. Cardinality(Goroutines) # 0
    BY <1>1, <2>1, FS_EmptySet
  <2>3. Cardinality(Goroutines') = Cardinality(Goroutines) - 1
    BY <1>1, <2>1, FS_RemoveElement
  <2> QED BY <1>2, <2>2, <2>3
<1>8. Goroutines' \subseteq Goroutines \cup {m}
  BY <1>3 DEF Goroutines
<1> QED BY <1>1, <1>2, <1>4, <1>5, <1>6, <1>7, <1>8

(* Several messages move outside process: the goroutines stay. *)
LEMMA OthersMove ==
  ASSUME NEW ms \in SUBSET Messages, NEW to, to \notin Working,
         \A m \in ms : job[m] \notin Working,
         job' = [m \in Messages |-> IF m \in ms THEN to ELSE job[m]]
  PROVE  Goroutines' = Goroutines
BY DEF Goroutines

-----------------------------------------------------------------------------
(* IInv holds when the pod starts. *)
LEMMA InitIInv == Init => IInv
<1> SUFFICES ASSUME Init PROVE IInv
  OBVIOUS
<1>1. Goroutines = {}
  BY DEF Init, Goroutines, Working
<1>2. SemaphoreCounts
  BY <1>1, FS_EmptySet DEF Init, SemaphoreCounts
<1>3. TypeOK
  BY DEF Init, TypeOK
<1> QED BY <1>2, <1>3 DEF Init, IInv, BatchOK

(* A step of process on a message: the batch stays as it is. *)
LEMMA ProcessStep ==
  ASSUME IInv, NEW m \in Messages, Process(m)
  PROVE  IInv'
<1>0. TypeOK /\ BatchOK /\ SemaphoreCounts
  BY DEF IInv
<1>1. run # "exited" /\ job[m] \in Working /\ written' \subseteq Messages /\ misread' \subseteq Messages
      /\ UNCHANGED <<run, batch, drained, ctx, rows>>
  BY <1>0 DEF Process, Parse, Fetch, Discard, Embed, Write, Acknowledge, AfterDelete, Goto, End, Working, TypeOK
<1>2. PICK to : /\ job' = [job EXCEPT ![m] = to]
                /\ \/ to \in Working /\ sem' = sem
                   \/ to \in {"hidden", "deleted"} /\ sem' = sem - 1
  BY DEF Process, Parse, Fetch, Discard, Embed, Write, Acknowledge, AfterDelete, Goto, End, Working
<1>3. SemaphoreCounts' /\ sem' \in 0..Concurrency
  <2>1. sem \in 0..Concurrency /\ drained \in 0..Concurrency /\ drained' = drained
    BY <1>0, <1>1 DEF TypeOK
  <2>2. sem = Cardinality(Goroutines) + drained
    BY <1>0 DEF SemaphoreCounts
  <2>3. CASE to \in Working /\ sem' = sem
    BY <1>0, <1>1, <1>2, <2>1, <2>2, <2>3, MoveLemma DEF SemaphoreCounts
  <2>4. CASE to \in {"hidden", "deleted"} /\ sem' = sem - 1
    <3>1. to \notin Working
      BY <2>4 DEF Working
    <3>2. /\ Cardinality(Goroutines) \in Nat /\ Cardinality(Goroutines) > 0
          /\ Cardinality(Goroutines') = Cardinality(Goroutines) - 1
      BY <1>0, <1>1, <1>2, <3>1, MoveLemma
    <3> QED BY <2>1, <2>2, <2>4, <3>2 DEF SemaphoreCounts
  <2> QED BY <1>2, <2>3, <2>4
<1>4. job' \in [Messages -> Working \cup {"queued", "received", "hidden", "deleted"}]
  BY <1>0, <1>2 DEF TypeOK
<1>5. TypeOK'
  BY <1>0, <1>1, <1>3, <1>4 DEF TypeOK
<1>6. BatchOK'
  <2>1. \A i \in DOMAIN batch : job'[batch[i]] = job[batch[i]]
    <3> SUFFICES ASSUME NEW i \in DOMAIN batch PROVE job'[batch[i]] = job[batch[i]]
      OBVIOUS
    <3>1. batch[i] # m /\ batch[i] \in Messages
      BY <1>0, <1>1 DEF BatchOK, Working, TypeOK
    <3> QED BY <1>0, <1>2, <3>1 DEF TypeOK
  <2> QED BY <1>0, <1>1, <2>1 DEF BatchOK
<1> QED BY <1>3, <1>5, <1>6 DEF IInv

(* What a batch looks like. *)
LEMMA BatchLemma ==
  ASSUME NEW ms \in SUBSET Messages, NEW b \in SetToSeqs(ms)
  PROVE  /\ b \in Seq(Messages)
         /\ \A i \in DOMAIN b : b[i] \in ms
         /\ \A i, j \in DOMAIN b : b[i] = b[j] => i = j
         /\ b = <<>> <=> ms = {}
<1>1. IsFiniteSet(ms)
  BY FS_Subset
<1>2. Cardinality(ms) \in Nat /\ (Cardinality(ms) = 0 <=> ms = {})
  BY <1>1, FS_CardinalityType, FS_EmptySet
<1>3. /\ b \in [1..Cardinality(ms) -> ms]
      /\ \A i, j \in 1..Cardinality(ms) : i # j => b[i] # b[j]
  BY DEF SetToSeqs
<1>4. b \in Seq(ms) /\ Len(b) = Cardinality(ms) /\ DOMAIN b = 1..Cardinality(ms)
  BY <1>2, <1>3
<1>5. b \in Seq(Messages)
  BY <1>4
<1>6. b = <<>> <=> ms = {}
  BY <1>2, <1>4
<1> QED BY <1>3, <1>4, <1>5, <1>6

(* A step of Run. *)
LEMMA RunLemma ==
  ASSUME IInv, NEW ms \in SUBSET Messages, RunStep(ms)
  PROVE  IInv'
<1>0. TypeOK /\ BatchOK /\ SemaphoreCounts
  BY DEF IInv
<1>1. CASE CheckContext
  <2>1. Goroutines' = Goroutines
    BY <1>1 DEF CheckContext, Goroutines
  <2>2. TypeOK'
    BY <1>0, <1>1 DEF CheckContext, TypeOK
  <2>3. BatchOK'
    BY <1>0, <1>1 DEF CheckContext, BatchOK, TypeOK
  <2> QED BY <1>0, <1>1, <2>1, <2>2, <2>3 DEF CheckContext, SemaphoreCounts, IInv
<1>2. CASE Receive(ms)
  <2>1. \A m \in ms : job[m] \notin Working
    BY <1>2 DEF Receive, Working
  <2>2. Goroutines' = Goroutines
    BY <1>2, <2>1, OthersMove DEF Receive, Working
  <2>3. batch' \in SetToSeqs(ms)
    BY <1>2 DEF Receive
  <2>4. /\ batch' \in Seq(Messages)
        /\ \A i \in DOMAIN batch' : batch'[i] \in ms
        /\ \A i, j \in DOMAIN batch' : batch'[i] = batch'[j] => i = j
        /\ batch' = <<>> <=> ms = {}
    BY <2>3, BatchLemma
  <2>5. TypeOK'
    BY <1>0, <1>2, <2>4 DEF Receive, TypeOK
  <2>6. BatchOK'
    BY <1>0, <1>2, <2>4 DEF Receive, BatchOK
  <2> QED BY <1>0, <1>2, <2>2, <2>5, <2>6 DEF Receive, SemaphoreCounts, IInv
<1>3. CASE ReceiveFails(ms)
  <2>1. \A m \in ms : job[m] \notin Working
    BY <1>3 DEF ReceiveFails, Working
  <2>2. Goroutines' = Goroutines
    BY <1>3, <2>1, OthersMove DEF ReceiveFails, Working
  <2>3. TypeOK'
    BY <1>0, <1>3 DEF ReceiveFails, TypeOK
  <2>4. BatchOK'
    BY <1>0, <1>3 DEF ReceiveFails, BatchOK
  <2> QED BY <1>0, <1>3, <2>2, <2>3, <2>4 DEF ReceiveFails, SemaphoreCounts, IInv
<1>4. CASE Dispatch
  <2> DEFINE m == Head(batch)
  <2>1. /\ batch \in Seq(Messages) /\ batch # <<>>
        /\ job' = [job EXCEPT ![m] = "parse"] /\ batch' = Tail(batch)
        /\ sem < Concurrency /\ sem' = sem + 1
        /\ UNCHANGED <<drained, ctx, rows, written, misread>>
        /\ run' = (IF Len(batch) = 1 THEN "poll" ELSE "dispatch")
        /\ drained = 0
    BY <1>0, <1>4 DEF Dispatch, TypeOK, BatchOK
  <2>2. m \in Messages /\ m = batch[1] /\ 1 \in DOMAIN batch
    BY <2>1
  <2>3. job[m] = "received"
    BY <1>0, <2>2 DEF BatchOK
  <2>4. /\ batch' \in Seq(Messages) /\ Len(batch') = Len(batch) - 1
        /\ batch' = <<>> <=> Len(batch) = 1
        /\ \A i \in DOMAIN batch' : i + 1 \in DOMAIN batch /\ i + 1 # 1 /\ batch'[i] = batch[i + 1]
        /\ DOMAIN batch' \subseteq Nat
    <3>1. /\ Len(batch) \in Nat /\ Len(batch) > 0 /\ DOMAIN batch = 1..Len(batch)
          /\ Tail(batch) \in Seq(Messages) /\ Len(Tail(batch)) = Len(batch) - 1
          /\ DOMAIN Tail(batch) = 1..(Len(batch) - 1)
      BY <2>1
    <3>2. \A i \in 1..(Len(batch) - 1) : Tail(batch)[i] = batch[i + 1]
      BY <2>1
    <3>3. Tail(batch) = <<>> <=> Len(batch) = 1
      <4>1. Tail(batch) = <<>> <=> Len(Tail(batch)) = 0
        BY <3>1, EmptySeq
      <4> QED BY <3>1, <4>1
    <3> QED BY <2>1, <3>1, <3>2, <3>3
  <2> HIDE DEF m
  <2>5. TypeOK'
    BY <1>0, <2>1, <2>2, <2>4 DEF TypeOK, Working
  <2>6. \A i, j \in DOMAIN batch' : batch'[i] = batch'[j] => i = j
    BY <1>0, <2>4 DEF BatchOK
  <2>7. ASSUME NEW i \in DOMAIN batch' PROVE job'[batch'[i]] = "received"
    <3>1. batch'[i] # m /\ job[batch'[i]] = "received" /\ batch'[i] \in Messages
      BY <1>0, <2>1, <2>2, <2>4 DEF BatchOK
    <3> QED BY <1>0, <2>1, <3>1 DEF TypeOK
  <2>8. BatchOK'
    BY <2>1, <2>4, <2>6, <2>7 DEF BatchOK
  <2>9. Cardinality(Goroutines') = Cardinality(Goroutines) + 1
    BY <1>0, <2>1, <2>2, <2>3, MoveLemma DEF Working
  <2>10. Cardinality(Goroutines) \in Nat
    BY FS_Subset, FS_CardinalityType DEF Goroutines
  <2>11. SemaphoreCounts'
    BY <1>0, <2>1, <2>9, <2>10 DEF SemaphoreCounts, TypeOK
  <2> QED BY <2>5, <2>8, <2>11 DEF IInv
<1>5. CASE Drain
  <2>1. Goroutines' = Goroutines
    BY <1>5 DEF Drain, Goroutines
  <2>2. TypeOK'
    BY <1>0, <1>5 DEF Drain, Filled, TypeOK, BatchOK
  <2>3. BatchOK'
    BY <1>0, <1>5 DEF Drain, Filled, BatchOK, TypeOK
  <2>4. Cardinality(Goroutines) \in Nat
    BY FS_Subset, FS_CardinalityType DEF Goroutines
  <2>5. SemaphoreCounts'
    BY <1>0, <1>5, <2>1, <2>4 DEF Drain, SemaphoreCounts, TypeOK
  <2> QED BY <2>2, <2>3, <2>5 DEF IInv
<1>6. CASE Exit
  <2>1. Goroutines' = {}
    BY <1>6 DEF Exit, Goroutines, Working
  <2>2. TypeOK'
    BY <1>0, <1>6 DEF Exit, TypeOK
  <2>3. BatchOK'
    BY <1>0, <1>6, <2>1 DEF Exit, BatchOK, Goroutines, Working
  <2>4. SemaphoreCounts'
    BY <1>0, <1>6, <2>1, FS_EmptySet DEF Exit, SemaphoreCounts, TypeOK
  <2> QED BY <2>2, <2>3, <2>4 DEF IInv
<1> QED BY <1>1, <1>2, <1>3, <1>4, <1>5, <1>6 DEF RunStep

(* IInv is inductive. *)
LEMMA StepIInv == IInv /\ [Next]_vars => IInv'
<1> SUFFICES ASSUME IInv, [Next]_vars PROVE IInv'
  OBVIOUS
<1>0. TypeOK /\ BatchOK /\ SemaphoreCounts
  BY DEF IInv
<1>1. ASSUME NEW m \in Messages, Redeliver(m) PROVE IInv'
  <2>1. Goroutines' = Goroutines
    BY <1>0, <1>1 DEF Redeliver, Goroutines, Working, TypeOK
  <2>2. TypeOK'
    BY <1>0, <1>1 DEF Redeliver, TypeOK
  <2>3. \A i \in DOMAIN batch : job'[batch[i]] = "received"
    BY <1>0, <1>1 DEF Redeliver, BatchOK, TypeOK
  <2>4. BatchOK'
    BY <1>0, <1>1, <2>1, <2>3 DEF Redeliver, BatchOK
  <2> QED BY <1>0, <1>1, <2>1, <2>2, <2>4 DEF Redeliver, SemaphoreCounts, IInv
<1>2. ASSUME UNCHANGED <<run, batch, job, sem, drained, written, misread>>,
             ctx' \in {"live", "cancelled"}, rows' \subseteq rows
      PROVE  IInv'
  BY <1>0, <1>2 DEF IInv, TypeOK, BatchOK, SemaphoreCounts, Goroutines
<1>3. ASSUME NEW m \in Messages, ClientDelete(m) PROVE IInv'
  BY <1>0, <1>2, <1>3 DEF ClientDelete, TypeOK
<1>4. CASE Cancel
  BY <1>2, <1>4 DEF Cancel
<1>5. CASE UNCHANGED vars
  BY <1>0, <1>2, <1>5 DEF vars, TypeOK
<1> QED BY <1>1, <1>3, <1>4, <1>5, ProcessStep, RunLemma DEF Next

(* Every variable has its type, the counters of slots their bounds: no     *)
(* token is ever taken from an empty semaphore.                            *)
THEOREM TypeCorrect == Spec => []TypeOK
<1>1. IInv => TypeOK
  BY DEF IInv
<1> QED BY <1>1, InitIInv, StepIInv, PTL DEF Spec

(* A pod runs at most its concurrency of goroutines, each with a slot of   *)
(* the semaphore, which it gives back however it ends.                     *)
THEOREM SlotsAreCounted == Spec => []SemaphoreCounts
<1>1. IInv => SemaphoreCounts
  BY DEF IInv
<1> QED BY <1>1, InitIInv, StepIInv, PTL DEF Spec

(* When Run returns from its drain no process() is running. *)
THEOREM DrainIsComplete == Spec => []CleanStop
<1>1. IInv => CleanStop
  <2> SUFFICES ASSUME IInv, run = "returned", drained > 0 PROVE Goroutines = {}
    BY DEF CleanStop
  <2>1. drained = Concurrency /\ sem <= Concurrency /\ sem = Cardinality(Goroutines) + drained
    BY DEF IInv, TypeOK, BatchOK, SemaphoreCounts
  <2>2. IsFiniteSet(Goroutines) /\ Cardinality(Goroutines) \in Nat
    BY FS_Subset, FS_CardinalityType DEF Goroutines
  <2>3. Cardinality(Goroutines) = 0
    BY <2>1, <2>2 DEF IInv, TypeOK
  <2> QED BY <2>2, <2>3, FS_EmptySet
<1> QED BY <1>1, InitIInv, StepIInv, PTL DEF Spec

(* A cancelled context never makes a job disappear with its vector         *)
(* missing, although it makes every lookup of a document fail; what does,  *)
(* is a failure of the database before.                                    *)
THEOREM NothingLostAtShutdown == Spec => []ShutdownLosesNothing
<1> DEFINE Safe == TypeOK /\ ShutdownLosesNothing
                   /\ \A m \in Messages :
                        /\ job[m] = "ack" => m \in written
                        /\ job[m] = "discard" =>
                             m \in Poison \cup misread \/ m \notin rows \/ ctx = "cancelled"
<1>1. Init => Safe
  BY InitIInv DEF Init, IInv, ShutdownLosesNothing
<1>2. TypeOK' /\ Safe /\ [Next]_vars => Safe'
  <2> SUFFICES ASSUME TypeOK', Safe, [Next]_vars PROVE Safe'
    OBVIOUS
  <2>1. ASSUME NEW n \in Messages, Process(n), NEW m \in Messages, m # n
        PROVE  job'[m] = job[m] /\ written \subseteq written' /\ (m \in misread => m \in misread')
    BY <2>1 DEF Process, Parse, Fetch, Discard, Embed, Write, Acknowledge, AfterDelete, Goto, End, TypeOK
  <2>2. ASSUME NEW m \in Messages, Process(m)
        PROVE  /\ job'[m] = "deleted" => m \in written' \cup Poison \cup misread' \/ m \notin rows
               /\ job'[m] = "ack" => m \in written'
               /\ job'[m] = "discard" =>
                    m \in Poison \cup misread' \/ m \notin rows \/ ctx = "cancelled"
    <3>0. job' \in [Messages -> Working \cup {"queued", "received", "hidden", "deleted"}]
          /\ job \in [Messages -> Working \cup {"queued", "received", "hidden", "deleted"}]
      BY DEF TypeOK
    <3>1. CASE Parse(m)
      BY <3>0, <3>1 DEF Parse, Goto
    <3>2. CASE Fetch(m)
      BY <3>0, <3>2 DEF Fetch, Goto, TypeOK
    <3>3. CASE Discard(m)
      BY <3>0, <3>3 DEF Discard, AfterDelete, End
    <3>4. CASE Embed(m)
      BY <3>0, <3>4 DEF Embed, Goto, End
    <3>5. CASE Write(m)
      BY <3>0, <3>5 DEF Write, Goto, End
    <3>6. CASE Acknowledge(m)
      BY <3>0, <3>6 DEF Acknowledge, AfterDelete, End
    <3> QED BY <2>2, <3>1, <3>2, <3>3, <3>4, <3>5, <3>6 DEF Process
  <2>3. ASSUME NEW n \in Messages, Process(n) PROVE Safe'
    <3>1. UNCHANGED <<ctx, rows>>
      BY <2>3 DEF Process, Parse, Fetch, Discard, Embed, Write, Acknowledge, AfterDelete, Goto, End
    <3> QED BY <2>1, <2>2, <2>3, <3>1 DEF ShutdownLosesNothing
  <2>4. ASSUME UNCHANGED <<written, misread>>, rows' \subseteq rows,
               ctx = "cancelled" => ctx' = "cancelled",
               \A m \in Messages : job'[m] = job[m] \/ job'[m] \notin {"deleted", "ack", "discard"}
        PROVE  Safe'
    BY <2>4 DEF ShutdownLosesNothing
  <2>5. ASSUME NEW ms \in SUBSET Messages, RunStep(ms) PROVE Safe'
    BY <2>4, <2>5
       DEF RunStep, CheckContext, Receive, ReceiveFails, Dispatch, Drain, Exit, TypeOK
  <2>6. ASSUME NEW m \in Messages, Redeliver(m) \/ ClientDelete(m) PROVE Safe'
    BY <2>4, <2>6 DEF Redeliver, ClientDelete, TypeOK
  <2>7. CASE Cancel \/ UNCHANGED vars
    BY <2>4, <2>7 DEF Cancel, vars
  <2> QED BY <2>3, <2>5, <2>6, <2>7 DEF Next
<1>3. Safe => ShutdownLosesNothing
  OBVIOUS
<1>4. IInv => TypeOK
  BY DEF IInv
<1> HIDE DEF Safe
<1> QED BY <1>1, <1>2, <1>3, <1>4, InitIInv, StepIInv, PTL DEF Spec

-----------------------------------------------------------------------------
(* What is received is in the batch or with a goroutine; Run stops polling *)
(* only for a cancelled context.                                           *)
Hands ==
  /\ \A m \in Messages : job[m] = "received" => \E i \in DOMAIN batch : batch[i] = m
  /\ run \in {"drain", "returned", "exited"} => ctx = "cancelled"

(* A batch holds all that was received.                                    *)
LEMMA WholeBatch ==
  ASSUME NEW ms \in SUBSET Messages, NEW b \in SetToSeqs(ms)
  PROVE  \A m \in ms : \E i \in DOMAIN b : b[i] = m
<1>1. IsFiniteSet(ms) /\ Cardinality(ms) \in Nat
  BY FS_Subset, FS_CardinalityType
<1> DEFINE D == 1..Cardinality(ms)
<1>2. b \in [D -> ms] /\ \A i, j \in D : i # j => b[i] # b[j]
  BY DEF SetToSeqs
<1>3. b \in Injection(D, ms)
  BY <1>2 DEF Injection, IsInjective
<1>4. IsFiniteSet(D) /\ Cardinality(D) = Cardinality(ms)
  BY <1>1, FS_Interval
<1> HIDE DEF D
<1>5. b \in Surjection(D, ms)
  BY <1>1, <1>3, <1>4, FS_Injection
<1> QED BY <1>2, <1>5 DEF Surjection

LEMMA HandsStep ==
  ASSUME IInv, Hands, [Next]_vars
  PROVE  Hands'
<1> USE DEF Hands
<1>0. TypeOK /\ BatchOK
  BY DEF IInv
<1>1. ASSUME UNCHANGED batch, run' = run \/ run' \notin {"drain", "returned", "exited"},
             ctx = "cancelled" => ctx' = "cancelled",
             \A m \in Messages : job'[m] = "received" => job[m] = "received"
      PROVE  Hands'
  BY <1>1
<1>2. ASSUME NEW ms \in SUBSET Messages, RunStep(ms) PROVE Hands'
  <2>1. CASE CheckContext
    BY <2>1 DEF CheckContext
  <2>2. CASE Receive(ms)
    <3>1. batch = <<>> /\ \A m \in Messages : job[m] # "received"
      BY <1>0, <2>2 DEF Receive, BatchOK
    <3>2. \A m \in ms : \E i \in DOMAIN batch' : batch'[i] = m
      BY <2>2, WholeBatch DEF Receive
    <3>3. \A m \in Messages : job'[m] = "received" => m \in ms
      BY <2>2, <3>1 DEF Receive
    <3>4. run' \in {"poll", "dispatch"}
      BY <2>2 DEF Receive
    <3> QED BY <3>2, <3>3, <3>4
  <2>3. CASE ReceiveFails(ms)
    <3>1. \A m \in Messages : job'[m] = "received" => job[m] = "received"
      BY <2>3 DEF ReceiveFails
    <3> QED BY <2>3, <3>1 DEF ReceiveFails
  <2>4. CASE Dispatch
    <3>1. /\ batch \in Seq(Messages) /\ batch # <<>> /\ batch' = Tail(batch)
          /\ job' = [job EXCEPT ![Head(batch)] = "parse"]
          /\ run' \in {"poll", "dispatch"}
      BY <1>0, <2>4 DEF Dispatch, TypeOK, BatchOK
    <3> DEFINE n == Len(batch)
    <3>2. /\ n \in Nat \ {0} /\ DOMAIN batch = 1..n /\ DOMAIN batch' = 1..(n - 1)
          /\ Head(batch) = batch[1] /\ batch[1] \in Messages
          /\ \A i \in 1..(n - 1) : batch'[i] = batch[i + 1]
      BY <3>1
    <3> HIDE DEF n
    <3>3. ASSUME NEW m \in Messages, job'[m] = "received"
          PROVE  \E i \in DOMAIN batch' : batch'[i] = m
      <4>1. m # batch[1] /\ job[m] = "received"
        BY <1>0, <3>1, <3>2, <3>3 DEF TypeOK
      <4>2. PICK i \in 1..n : batch[i] = m
        BY <3>2, <4>1
      <4>3. i - 1 \in 1..(n - 1) /\ batch'[i - 1] = m
        BY <3>2, <4>1, <4>2
      <4> QED BY <3>2, <4>3
    <3> QED BY <3>1, <3>3
  <2>5. CASE Drain
    BY <2>5 DEF Drain
  <2>6. CASE Exit
    <3>1. \A m \in Messages : job'[m] = "received" => job[m] = "received"
      BY <2>6 DEF Exit
    <3> QED BY <2>6, <3>1 DEF Exit
  <2> QED BY <1>2, <2>1, <2>2, <2>3, <2>4, <2>5, <2>6 DEF RunStep
<1>3. ASSUME NEW m \in Messages, Process(m) PROVE Hands'
  <2>1. UNCHANGED <<run, batch, ctx>>
    BY <1>3 DEF Process, Parse, Fetch, Discard, Embed, Write, Acknowledge, AfterDelete, Goto, End
  <2>2. \A n \in Messages : job'[n] = "received" => job[n] = "received"
    BY <1>0, <1>3
       DEF Process, Parse, Fetch, Discard, Embed, Write, Acknowledge, AfterDelete, Goto, End, TypeOK
  <2> QED BY <2>1, <2>2
<1>4. ASSUME NEW m \in Messages, Redeliver(m) \/ ClientDelete(m) PROVE Hands'
  BY <1>0, <1>1, <1>4 DEF Redeliver, ClientDelete, TypeOK
<1>5. CASE Cancel \/ UNCHANGED vars
  BY <1>5 DEF Cancel, vars
<1> QED BY <1>2, <1>3, <1>4, <1>5 DEF Next

(* One step of the pod is one of Delivery, or none: what process does is   *)
(* seen when it ends.                                                      *)
LEMMA PodStep ==
  ASSUME IInv, Hands, [Next]_vars
  PROVE  Pod!PodNext \/ UNCHANGED Pod!podVars
<1>0. TypeOK /\ BatchOK
  BY DEF IInv
<1> DEFINE Done == {m \in Messages : job[m] = "deleted"}
           Phase == IF run = "exited" THEN "stopped"
                      ELSE IF ctx = "live" THEN "running" ELSE "stopping"
<1>1. ASSUME Phase' = Phase, Held' = Held, Done' = Done PROVE UNCHANGED Pod!podVars
  BY <1>1 DEF Pod!podVars
<1>2. ASSUME NEW ms \in SUBSET Messages, RunStep(ms)
      PROVE  Pod!PodNext \/ UNCHANGED Pod!podVars
  <2>1. CASE CheckContext \/ Drain
    <3>1. UNCHANGED <<job, ctx>> /\ run # "exited" /\ run' # "exited"
      BY <2>1 DEF CheckContext, Drain
    <3>2. Held' = Held /\ Done' = Done
      BY <3>1 DEF Held
    <3> QED BY <1>1, <3>1, <3>2
  <2>2. CASE Receive(ms)
    <3>1. /\ \A m \in Messages : job'[m] = IF m \in ms THEN "received" ELSE job[m]
          /\ \A m \in ms : job[m] = "queued"
      BY <2>2 DEF Receive
    <3>2. Held' = Held \cup ms /\ Done' = Done /\ ms \cap (Held \cup Done) = {}
      BY <3>1 DEF Held, Working
    <3>3. Phase = "running" /\ Phase' = Phase
      BY <2>2 DEF Receive
    <3>4. Pod!Take(ms)
      BY <3>2, <3>3 DEF Pod!Take
    <3> QED BY <3>4 DEF Pod!PodNext
  <2>3. CASE ReceiveFails(ms)
    <3>1. /\ \A m \in Messages : job'[m] = IF m \in ms THEN "hidden" ELSE job[m]
          /\ \A m \in ms : job[m] = "queued"
          /\ run # "exited" /\ run' # "exited" /\ UNCHANGED ctx
      BY <2>3 DEF ReceiveFails
    <3>2. Held' = Held /\ Done' = Done
      BY <3>1 DEF Held, Working
    <3> QED BY <1>1, <3>1, <3>2
  <2>4. CASE Dispatch
    <3>1. /\ batch \in Seq(Messages) /\ batch # <<>>
          /\ job' = [job EXCEPT ![Head(batch)] = "parse"]
          /\ run # "exited" /\ run' # "exited" /\ UNCHANGED ctx
      BY <1>0, <2>4 DEF Dispatch, TypeOK, BatchOK
    <3>2. Head(batch) \in Messages /\ job[Head(batch)] = "received"
      <4>1. Head(batch) = batch[1] /\ 1 \in DOMAIN batch /\ batch[1] \in Messages
        BY <3>1
      <4> QED BY <1>0, <4>1 DEF BatchOK
    <3>3. \A m \in Messages : job'[m] = IF m = Head(batch) THEN "parse" ELSE job[m]
      BY <1>0, <3>1 DEF TypeOK
    <3>4. Held' = Held /\ Done' = Done
      BY <3>2, <3>3 DEF Held, Working
    <3> QED BY <1>1, <3>1, <3>4
  <2>5. CASE Exit
    <3>1. /\ run = "returned" /\ run' = "exited" /\ ctx = "cancelled"
          /\ \A m \in Messages : job'[m] = IF m \in Goroutines THEN "hidden" ELSE job[m]
      BY <2>5 DEF Exit, Hands
    <3>2. \A m \in Messages : job[m] # "received"
      BY <1>0, <3>1 DEF Hands, BatchOK
    <3>3. Held' = {} /\ Done' = Done
      BY <3>1, <3>2 DEF Held, Goroutines, Working
    <3>4. Phase = "stopping" /\ Phase' = "stopped"
      BY <3>1
    <3>5. Pod!Stop
      BY <3>3, <3>4 DEF Pod!Stop
    <3> QED BY <3>5 DEF Pod!PodNext
  <2> QED BY <1>2, <2>1, <2>2, <2>3, <2>4, <2>5 DEF RunStep
<1>3. ASSUME NEW m \in Messages, Process(m) PROVE Pod!PodNext \/ UNCHANGED Pod!podVars
  <2>1. UNCHANGED <<run, ctx>> /\ run # "exited" /\ job[m] \in Working
    BY <1>3
       DEF Process, Parse, Fetch, Discard, Embed, Write, Acknowledge, AfterDelete, Goto, End, Working
  <2>2. PICK to : /\ job' = [job EXCEPT ![m] = to]
                  /\ to \in Working \cup {"hidden", "deleted"}
                  /\ to = "deleted" => ctx = "live"
    BY <1>3
       DEF Process, Parse, Fetch, Discard, Embed, Write, Acknowledge, AfterDelete, Goto, End, Working
  <2>3. \A n \in Messages : job'[n] = IF n = m THEN to ELSE job[n]
    BY <1>0, <2>2 DEF TypeOK
  <2>4. CASE to \in Working
    <3>1. Held' = Held /\ Done' = Done
      BY <2>1, <2>3, <2>4 DEF Held, Working
    <3> QED BY <1>1, <2>1, <3>1
  <2>5. CASE to = "hidden"
    <3>1. m \in Held /\ Held' = Held \ {m} /\ Done' = Done
      BY <2>1, <2>3, <2>5 DEF Held, Working
    <3>2. Pod!PutBack(m)
      BY <2>1, <3>1 DEF Pod!PutBack
    <3> QED BY <3>2 DEF Pod!PodNext
  <2>6. CASE to = "deleted"
    <3>1. m \in Held /\ Held' = Held \ {m} /\ Done' = Done \cup {m}
      BY <2>1, <2>3, <2>6 DEF Held, Working
    <3>2. Phase = "running" /\ Phase' = Phase
      BY <2>1, <2>2, <2>6
    <3>3. Pod!Finish(m)
      BY <3>1, <3>2 DEF Pod!Finish
    <3> QED BY <3>3 DEF Pod!PodNext
  <2> QED BY <2>2, <2>4, <2>5, <2>6
<1>4. ASSUME NEW m \in Messages, Redeliver(m) \/ ClientDelete(m) PROVE UNCHANGED Pod!podVars
  <2>1. /\ UNCHANGED <<run, ctx>>
        /\ \A n \in Messages : job'[n] = job[n] \/ (job[n] = "hidden" /\ job'[n] = "queued")
    BY <1>0, <1>4 DEF Redeliver, ClientDelete, TypeOK
  <2>2. Held' = Held /\ Done' = Done
    BY <2>1 DEF Held, Working
  <2> QED BY <1>1, <2>1, <2>2
<1>5. CASE Cancel
  <2>1. run # "exited" /\ UNCHANGED <<run, job>> /\ ctx = "live" /\ ctx' = "cancelled"
    BY <1>5 DEF Cancel, Hands
  <2>2. Held' = Held /\ Done' = Done
    BY <2>1 DEF Held
  <2>3. Pod!Tell
    BY <2>1, <2>2 DEF Pod!Tell
  <2> QED BY <2>3 DEF Pod!PodNext
<1>6. CASE UNCHANGED vars
  <2>1. UNCHANGED <<run, job, ctx>>
    BY <1>6 DEF vars
  <2>2. Held' = Held /\ Done' = Done
    BY <2>1 DEF Held
  <2> QED BY <1>1, <2>1, <2>2
<1> QED BY <1>2, <1>3, <1>4, <1>5, <1>6 DEF Next

(* The safety part of Delivery, for any messages and concurrency: a pod    *)
(* deletes only what it holds and nothing after SIGTERM, and stops with    *)
(* nothing in its hands, whichever way Run returns.                        *)
THEOREM ImplementsPod == Spec => Pod!PodSafety
<1>1. Init => Hands /\ Pod!PodInit
  <2> SUFFICES ASSUME Init PROVE Hands /\ Pod!PodInit
    OBVIOUS
  <2>1. \A m \in Messages : job[m] = "queued"
    BY DEF Init
  <2>2. Hands
    BY <2>1 DEF Init, Hands
  <2>3. Held = {} /\ {m \in Messages : job[m] = "deleted"} = {}
    BY <2>1 DEF Held, Working
  <2>4. Pod!PodInit
    BY <2>3 DEF Init, Pod!PodInit
  <2> QED BY <2>2, <2>4
<1>2. IInv /\ Hands /\ [Next]_vars => Hands' /\ [Pod!PodNext]_(Pod!podVars)
  BY HandsStep, PodStep
<1> QED BY <1>1, <1>2, InitIInv, StepIInv, PTL DEF Spec, Pod!PodSafety
=============================================================================
