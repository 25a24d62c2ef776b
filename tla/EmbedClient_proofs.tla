-------------------------- MODULE EmbedClient_proofs --------------------------
(* Theorems about EmbedClient, for any calls, batches, burst and attempts. *)
EXTENDS EmbedClient, FiniteSetTheorems, SequenceTheorems, TLAPS

USE ClientConstants

(* The type invariant without the clock of a call. *)
Types ==
  /\ tokens \in 0..Burst
  /\ ahead \in Nat
  /\ waiting \in Seq(Calls \cup {NULL})
  /\ pc \in [Calls -> {"idle", "wait", "request", "backoff", "done"}]
  /\ arg \in [Calls -> Batches \cup {NULL}]
  /\ answer \in [Calls -> Seq(Texts \cup {NULL}) \cup {Error, NULL}]

(* A call in progress has its batch, and an answer when it is done. *)
CallOK ==
  \A c \in Calls :
    /\ pc[c] = "idle" <=> arg[c] = NULL
    /\ pc[c] = "done" <=> answer[c] # NULL
    /\ answer[c] # NULL => answer[c] \in VectorsOf(arg[c], NULL) \cup {Error}

(* The time that n failed attempts and their delays can take. *)
Budget(n) == n * (HttpTimeout + MaxJitter) + BaseDelay * (2^n - 1)

(* What a call has spent is covered by the attempts that have failed, the  *)
(* one whose delay it is in included.                                      *)
Clock ==
  \A c \in Calls :
    /\ attempt[c] \in 0..MaxAttempts /\ spent[c] \in Nat
    /\ pc[c] = "idle" => attempt[c] = 0 /\ spent[c] = 0
    /\ pc[c] \in {"wait", "request"} =>
         attempt[c] < MaxAttempts /\ spent[c] <= Budget(attempt[c])
    /\ pc[c] = "backoff" =>
         attempt[c] < MaxAttempts /\ spent[c] <= Budget(attempt[c]) + HttpTimeout
    /\ pc[c] = "done" => spent[c] <= Budget(MaxAttempts)

ClockTypes ==
  /\ attempt \in [Calls -> 0..MaxAttempts] /\ spent \in [Calls -> Nat]
  /\ cancelled \subseteq Cancellable

-----------------------------------------------------------------------------
(* Powers of two count subsets: this is how they are reasoned about. *)
LEMMA PowerLemma ==
  ASSUME NEW n \in Nat
  PROVE  /\ 2^n \in Nat \ {0}
         /\ IsFiniteSet(SUBSET (1..n)) /\ Cardinality(SUBSET (1..n)) = 2^n
<1>1. IsFiniteSet(1..n) /\ Cardinality(1..n) = n
  BY FS_Interval
<1>2. IsFiniteSet(SUBSET (1..n)) /\ Cardinality(SUBSET (1..n)) = 2^Cardinality(1..n)
  BY <1>1, FS_SUBSET
<1>3. Cardinality(SUBSET (1..n)) \in Nat
  BY <1>2, FS_CardinalityType
<1>4. SUBSET (1..n) # {}
  BY {} \in SUBSET (1..n)
<1>5. Cardinality(SUBSET (1..n)) # 0
  BY <1>2, <1>4, FS_EmptySet
<1> QED BY <1>1, <1>2, <1>3, <1>5

(* The empty set has one subset. *)
LEMMA PowerOfZero == 2^0 = 1
<1>1. Cardinality(SUBSET {}) = 2^0
  BY FS_EmptySet, FS_SUBSET
<1>2. SUBSET {} = {{}}
  OBVIOUS
<1>3. Cardinality({{}}) = 1
  BY FS_Singleton
<1> QED BY <1>1, <1>2, <1>3

(* A subset of 1..n+1 is one of 1..n, with or without n+1. *)
LEMMA PowerDoubles ==
  ASSUME NEW n \in Nat
  PROVE  2^(n + 1) = 2 * 2^n
<1> DEFINE A == SUBSET (1..n)
           B == {a \cup {n + 1} : a \in A}
           f == [a \in A |-> a \cup {n + 1}]
<1>1. n + 1 \in Nat /\ n + 1 \notin 1..n /\ 1..n + 1 = (1..n) \cup {n + 1}
  OBVIOUS
<1>2. IsFiniteSet(A) /\ Cardinality(A) = 2^n /\ 2^n \in Nat
  BY PowerLemma
<1>3. \A a, b \in A : a \cup {n + 1} = b \cup {n + 1} => a = b
  <2> SUFFICES ASSUME NEW a \in A, NEW b \in A, a \cup {n + 1} = b \cup {n + 1}
               PROVE  a = b
    OBVIOUS
  <2>1. n + 1 \notin a /\ n + 1 \notin b
    BY <1>1
  <2>2. a = (a \cup {n + 1}) \ {n + 1} /\ b = (b \cup {n + 1}) \ {n + 1}
    BY ONLY <2>1
  <2> QED BY ONLY <2>2, a \cup {n + 1} = b \cup {n + 1}
<1>4. f \in Bijection(A, B)
  <2>1. f \in [A -> B]
    OBVIOUS
  <2>2. \A a, b \in A : f[a] = f[b] => a = b
    BY <1>3
  <2>3. \A b \in B : \E a \in A : f[a] = b
    OBVIOUS
  <2> QED BY <2>1, <2>2, <2>3 DEF Bijection, Injection, Surjection, IsInjective
<1>5. IsFiniteSet(B) /\ Cardinality(B) = Cardinality(A)
  <2>1. ExistsBijection(A, B)
    BY <1>4 DEF ExistsBijection
  <2> HIDE DEF A, B
  <2> QED BY <1>2, <2>1, FS_Bijection
<1>6. SUBSET (1..n + 1) = A \cup B
  <2>1. ASSUME NEW x \in SUBSET (1..n + 1), n + 1 \in x PROVE x \in B
    <3>1. x \ {n + 1} \in A /\ x = (x \ {n + 1}) \cup {n + 1}
      BY <1>1, <2>1
    <3> QED BY <3>1
  <2>2. ASSUME NEW x \in SUBSET (1..n + 1), n + 1 \notin x PROVE x \in A
    BY <1>1, <2>2
  <2>3. A \cup B \subseteq SUBSET (1..n + 1)
    BY <1>1
  <2> QED BY <2>1, <2>2, <2>3
<1>7. A \cap B = {}
  BY <1>1
<1>8. Cardinality(A \cup B) = Cardinality(A) + Cardinality(B) - Cardinality({})
  <2> HIDE DEF A, B
  <2> QED BY <1>2, <1>5, <1>7, FS_Union
<1>9. Cardinality(SUBSET (1..n + 1)) = 2^(n + 1)
  BY <1>1, PowerLemma
<1>10. Cardinality({}) = 0
  BY FS_EmptySet
<1>11. 2^(n + 1) = Cardinality(A) + Cardinality(B) - 0
  BY <1>6, <1>8, <1>9, <1>10
<1> HIDE DEF A, B
<1> QED BY <1>2, <1>5, <1>11

(* A later attempt waits no less than an earlier one. *)
LEMMA PowerGrows ==
  ASSUME NEW m \in Nat, NEW n \in 0..m
  PROVE  2^n <= 2^m
<1>1. SUBSET (1..n) \subseteq SUBSET (1..m) /\ n \in Nat
  OBVIOUS
<1>2. Cardinality(SUBSET (1..n)) <= Cardinality(SUBSET (1..m))
  BY <1>1, PowerLemma, FS_Subset
<1> QED BY <1>1, <1>2, PowerLemma

(* The budget of one more attempt: a timeout, a doubled delay and jitter. *)
LEMMA BudgetLemma ==
  ASSUME NEW n \in Nat
  PROVE  /\ Budget(n) \in Nat
         /\ Budget(0) = 0
         /\ Budget(n + 1) = Budget(n) + HttpTimeout + MaxJitter + BaseDelay * 2^n
         /\ BaseDelay * 2^n \in Nat
<1>1. 2^n \in Nat \ {0} /\ 2^0 = 1 /\ 2^(n + 1) = 2 * 2^n
  BY PowerLemma, PowerOfZero, PowerDoubles
<1>2. HttpTimeout \in Nat /\ MaxJitter \in Nat /\ BaseDelay \in Nat
  OBVIOUS
<1> DEFINE p == 2^n
           w == HttpTimeout + MaxJitter
<1>3. /\ w \in Nat /\ p \in Nat \ {0} /\ Budget(n) = n * w + BaseDelay * (p - 1)
      /\ Budget(n + 1) = (n + 1) * w + BaseDelay * (2 * p - 1)
      /\ Budget(0) = 0 * w + BaseDelay * (1 - 1)
  BY <1>1, <1>2 DEF Budget
<1> HIDE DEF p, w
<1>4. Budget(n) \in Nat /\ BaseDelay * p \in Nat
  BY <1>2, <1>3
<1>5. Budget(0) = 0
  BY <1>2, <1>3
<1>6. Budget(n + 1) = Budget(n) + w + BaseDelay * p
  BY <1>2, <1>3
<1> QED BY <1>2, <1>4, <1>5, <1>6 DEF p, w

(* Within it, the timeout that comes before the delay.                    *)
LEMMA BudgetNext ==
  ASSUME NEW n \in Nat
  PROVE  /\ Budget(n) \in Nat /\ Budget(n + 1) \in Nat
         /\ Budget(n) + HttpTimeout <= Budget(n + 1)
<1>1. n + 1 \in Nat /\ HttpTimeout \in Nat /\ MaxJitter \in Nat
  OBVIOUS
<1>2. Budget(n) \in Nat /\ Budget(n + 1) \in Nat
  BY <1>1, BudgetLemma
<1> DEFINE delay == BaseDelay * 2^n
<1>3. delay \in Nat /\ Budget(n + 1) = Budget(n) + HttpTimeout + MaxJitter + delay
  BY BudgetLemma
<1> HIDE DEF delay
<1> QED BY <1>1, <1>2, <1>3

(* No call can spend more than the budget of all its attempts.             *)
LEMMA BudgetGrows ==
  ASSUME NEW n \in 0..MaxAttempts
  PROVE  Budget(n) <= Budget(MaxAttempts)
<1> DEFINE p == 2^n
           q == 2^MaxAttempts
           w == HttpTimeout + MaxJitter
<1>1. p \in Nat /\ q \in Nat /\ p <= q
  <2>1. n \in Nat /\ MaxAttempts \in Nat
    OBVIOUS
  <2>2. 2^n \in Nat /\ 2^MaxAttempts \in Nat
    BY <2>1, PowerLemma
  <2>3. 2^n <= 2^MaxAttempts
    BY <2>1, PowerGrows
  <2> QED BY <2>2, <2>3
<1>2. w \in Nat /\ Budget(n) = n * w + BaseDelay * (p - 1)
      /\ Budget(MaxAttempts) = MaxAttempts * w + BaseDelay * (q - 1)
  BY DEF Budget
<1> HIDE DEF p, q, w
<1>3. n * w <= MaxAttempts * w
  BY <1>2
<1>4. BaseDelay * (p - 1) <= BaseDelay * (q - 1)
  BY <1>1
<1>5. /\ n * w \in Int /\ MaxAttempts * w \in Int
      /\ BaseDelay * (p - 1) \in Int /\ BaseDelay * (q - 1) \in Int
  BY <1>1, <1>2
<1> QED BY <1>2, <1>3, <1>4, <1>5

-----------------------------------------------------------------------------
(* Whatever items a response lists, and in whatever order: the vectors     *)
(* that EmbedBatch returns stand at the places of their texts.             *)
LEMMA PlacedLemma ==
  ASSUME NEW batch \in Batches, NEW listing \in Listings(batch)
  PROVE  /\ Placed(batch, listing) \in VectorsOf(batch, NULL)
         /\ Placed(batch, listing) \in Seq(Texts \cup {NULL})
         /\ Placed(batch, listing) # NULL
<1>1. batch \in Seq(Texts) /\ Len(batch) \in Nat /\ DOMAIN batch = 1..Len(batch)
      /\ \A i \in 1..Len(batch) : batch[i] \in Texts
  OBVIOUS
<1>2. PICK m \in 0..Len(batch) : listing \in Injection(1..m, DOMAIN batch)
  BY DEF Listings
<1>3. DOMAIN listing = 1..m /\ m \in Nat /\ 1..m \subseteq 1..Len(batch)
  BY <1>1, <1>2 DEF Injection
<1> DEFINE v == Placed(batch, listing)
           at(i) == IF \E k \in DOMAIN listing : listing[k] = i THEN batch[i] ELSE NULL
<1>4. v = [i \in 1..m |-> at(i)]
  BY <1>3 DEF Placed
<1>5. \A i \in 1..m : at(i) \in {batch[i], NULL}
  OBVIOUS
<1> HIDE DEF v, at
<1>6. v \in [1..m -> {batch[i] : i \in 1..m} \cup {NULL}]
  BY <1>4, <1>5
<1>7. \A i \in DOMAIN v : v[i] \in {batch[i], NULL}
  BY <1>4, <1>5
<1>8. v \in VectorsOf(batch, NULL)
  BY <1>2, <1>6, <1>7 DEF VectorsOf
<1>9. v \in Seq(Texts \cup {NULL})
  <2>1. {batch[i] : i \in 1..m} \subseteq Texts
    BY <1>1, <1>3
  <2>2. v \in [1..m -> Texts \cup {NULL}]
    BY <1>6, <2>1
  <2> QED BY <1>3, <2>2
<1> QED BY <1>8, <1>9 DEF v

(* The queue of reservations stays one: a call gets in line, the turn of   *)
(* the first one comes, and one is given back or left to its turn.         *)
LEMMA QueueLemma ==
  ASSUME waiting \in Seq(Calls \cup {NULL}), NEW c \in Calls,
         \/ waiting' = Append(waiting, c)
         \/ Take(c) \/ Take(NULL)
         \/ LeaveQueue(c)
  PROVE  waiting' \in Seq(Calls \cup {NULL})
<1> DEFINE Q == Calls \cup {NULL}
<1>1. c \in Q /\ NULL \in Q
  OBVIOUS
<1> HIDE DEF Q
<1>2. waiting \in Seq(Q)
  BY DEF Q
<1>3. CASE waiting' = Append(waiting, c)
  BY <1>1, <1>2, <1>3 DEF Q
<1>4. CASE Take(c) \/ Take(NULL)
  BY <1>2, <1>4 DEF Take, Q
<1>5. CASE LeaveQueue(c)
  <2>1. CASE pc[c] # "wait"
    BY <1>2, <1>5, <2>1 DEF LeaveQueue, Q
  <2>2. CASE pc[c] = "wait"
    <3>1. PICK i \in DOMAIN waiting :
            waiting' = IF i = Len(waiting) /\ i > tokens
                         THEN Front(waiting) ELSE [waiting EXCEPT ![i] = NULL]
      BY <1>5, <2>2 DEF LeaveQueue
    <3>2. Front(waiting) \in Seq(Q)
      BY <1>2, <3>1 DEF Front
    <3>3. [waiting EXCEPT ![i] = NULL] \in Seq(Q)
      BY <1>1, <1>2, <3>1
    <3> QED BY <3>1, <3>2, <3>3 DEF Q
  <2> QED BY <2>1, <2>2
<1> QED BY <1>3, <1>4, <1>5

-----------------------------------------------------------------------------
(* One action at a time, for everything but the clocks. *)
LEMMA CallStep ==
  Types /\ RateBound /\ CallOK /\ [Next]_vars => (Types /\ RateBound /\ CallOK)'
<1> SUFFICES ASSUME Types, RateBound, CallOK, [Next]_vars
             PROVE  (Types /\ RateBound /\ CallOK)'
  OBVIOUS
<1> USE DEF Types, RateBound, CallOK
<1>1. CASE Refill
  BY <1>1 DEF Refill
<1>1a. CASE Waste
  <2>1. waiting' \in Seq(Calls \cup {NULL})
    <3>1. CASE Calls = {}
      <4>1. waiting \in Seq({NULL})
        BY <3>1
      <4> QED BY <1>1a, <3>1, <4>1 DEF Waste, Take
    <3>2. CASE Calls # {}
      BY <1>1a, <3>2, QueueLemma DEF Waste
    <3> QED BY <3>1, <3>2
  <2>2. tokens > 0 /\ tokens' = tokens - 1
    BY <1>1a DEF Waste, Take
  <2> QED BY <1>1a, <2>1, <2>2 DEF Waste
<1>2. ASSUME NEW c \in Calls, NEW batch \in Batches, EmbedBatch(c, batch)
      PROVE  (Types /\ RateBound /\ CallOK)'
  BY <1>2, QueueLemma DEF EmbedBatch
<1>3. ASSUME NEW c \in Calls, Cancel(c) PROVE (Types /\ RateBound /\ CallOK)'
  BY <1>3 DEF Cancel
<1>4. ASSUME NEW c \in Calls, Send(c) PROVE (Types /\ RateBound /\ CallOK)'
  <2>1. waiting' \in Seq(Calls \cup {NULL})
    BY <1>4, QueueLemma DEF Send
  <2>2. tokens > 0 /\ tokens' = tokens - 1
    BY <1>4 DEF Send, Take
  <2> QED BY <1>4, <2>1, <2>2 DEF Send
<1>5. ASSUME NEW c \in Calls, Succeed(c) PROVE (Types /\ RateBound /\ CallOK)'
  <2>1. arg[c] \in Batches /\ pc[c] = "request"
    BY <1>5 DEF Succeed
  <2>2. PICK listing \in Listings(arg[c]) : Finish(c, Placed(arg[c], listing))
    BY <1>5 DEF Succeed
  <2>3. PICK v : /\ v \in VectorsOf(arg[c], NULL) /\ v \in Seq(Texts \cup {NULL}) /\ v # NULL
                 /\ answer' = [answer EXCEPT ![c] = v] /\ pc' = [pc EXCEPT ![c] = "done"]
    BY <2>1, <2>2, PlacedLemma DEF Finish
  <2> QED BY <1>5, <2>1, <2>3 DEF Succeed
<1>6. ASSUME NEW c \in Calls, Refuse(c) PROVE (Types /\ RateBound /\ CallOK)'
  BY <1>6 DEF Refuse, Finish
<1>7. ASSUME NEW c \in Calls, FailOnce(c) PROVE (Types /\ RateBound /\ CallOK)'
  BY <1>7 DEF FailOnce
<1>8. ASSUME NEW c \in Calls, Retry(c) PROVE (Types /\ RateBound /\ CallOK)'
  <2>1. CASE ~(LastAttempt(c) \/ c \in cancelled)
    BY <1>8, <2>1, QueueLemma DEF Retry, Again
  <2>2. CASE LastAttempt(c) \/ c \in cancelled
    <3>1. /\ answer' = [answer EXCEPT ![c] = Error] /\ pc' = [pc EXCEPT ![c] = "done"]
          /\ UNCHANGED <<tokens, waiting, arg, ahead>> /\ pc[c] = "backoff"
      BY <1>8, <2>2 DEF Retry, Finish
    <3> QED BY <3>1
  <2> QED BY <2>1, <2>2
<1>9. ASSUME NEW c \in Calls, GiveUp(c) PROVE (Types /\ RateBound /\ CallOK)'
  <2>1. waiting' \in Seq(Calls \cup {NULL})
    BY <1>9, QueueLemma DEF GiveUp
  <2> QED BY <1>9, <2>1 DEF GiveUp, Finish
<1>10. ASSUME NEW c \in Calls, Return(c) PROVE (Types /\ RateBound /\ CallOK)'
  BY <1>10 DEF Return
<1>11. CASE UNCHANGED vars
  BY <1>11 DEF vars
<1> QED
  BY <1>1, <1>1a, <1>2, <1>3, <1>4, <1>5, <1>6, <1>7, <1>8, <1>9, <1>10, <1>11
  DEF Next, Step

(* The time of a call: a failed attempt costs its timeout and the delay    *)
(* that belongs to its number, jitter included.                            *)
LEMMA ClockStep ==
  Types /\ ClockTypes /\ Clock /\ [Next]_vars => (ClockTypes /\ Clock)'
<1> SUFFICES ASSUME Types, ClockTypes, Clock, [Next]_vars PROVE (ClockTypes /\ Clock)'
  OBVIOUS
<1> USE DEF ClockTypes
<1> DEFINE At(c) ==
      /\ pc'[c] = "idle" => attempt'[c] = 0 /\ spent'[c] = 0
      /\ pc'[c] \in {"wait", "request"} =>
           attempt'[c] < MaxAttempts /\ spent'[c] <= Budget(attempt'[c])
      /\ pc'[c] = "backoff" =>
           attempt'[c] < MaxAttempts /\ spent'[c] <= Budget(attempt'[c]) + HttpTimeout
      /\ pc'[c] = "done" => spent'[c] <= Budget(MaxAttempts)
<1>a. ASSUME NEW c \in Calls, ClockTypes', At(c),
             \A d \in Calls \ {c} : /\ pc'[d] = pc[d]
                                    /\ attempt'[d] = attempt[d] /\ spent'[d] = spent[d]
      PROVE  (ClockTypes /\ Clock)'
  BY <1>a DEF Clock
<1>b. \A c \in Calls : Budget(attempt[c]) \in Nat /\ Budget(attempt[c]) <= Budget(MaxAttempts)
  BY BudgetLemma, BudgetGrows
<1>c. Budget(MaxAttempts) \in Nat /\ HttpTimeout \in Nat /\ Budget(0) = 0
  BY BudgetLemma
<1> HIDE DEF At
<1>1. CASE Refill \/ Waste \/ UNCHANGED vars \/ \E c \in Calls : Cancel(c)
  BY <1>1 DEF Refill, Waste, vars, Cancel, Clock
<1>2. ASSUME NEW c \in Calls, NEW batch \in Batches, EmbedBatch(c, batch)
      PROVE  (ClockTypes /\ Clock)'
  <2>1. At(c)
    BY <1>2, <1>c DEF EmbedBatch, Types, Clock, At
  <2> QED BY <1>2, <1>a, <2>1 DEF EmbedBatch, Types
<1>3. ASSUME NEW c \in Calls, Send(c) PROVE (ClockTypes /\ Clock)'
  <2>1. At(c)
    BY <1>3 DEF Send, Types, Clock, At
  <2> QED BY <1>3, <1>a, <2>1 DEF Send, Types
<1>4. ASSUME NEW c \in Calls, Succeed(c) \/ Refuse(c) \/ GiveUp(c)
      PROVE  (ClockTypes /\ Clock)'
  <2>1. /\ pc[c] \in {"request", "wait", "backoff"} /\ pc' = [pc EXCEPT ![c] = "done"]
        /\ UNCHANGED <<attempt, spent, cancelled>>
    BY <1>4 DEF Succeed, Refuse, GiveUp, Finish
  <2>2. spent[c] <= Budget(MaxAttempts)
    <3>1. CASE pc[c] \in {"request", "wait"}
      BY <3>1, <1>b, <1>c DEF Clock
    <3>2. CASE pc[c] = "backoff"
      <4> DEFINE n == attempt[c]
      <4>1. n \in Nat /\ n + 1 \in 0..MaxAttempts /\ spent[c] <= Budget(n) + HttpTimeout
        BY <3>2 DEF Clock
      <4>2. /\ Budget(n) \in Nat /\ Budget(n + 1) \in Nat /\ Budget(n) + HttpTimeout <= Budget(n + 1)
        BY <4>1, BudgetNext
      <4>3. Budget(n + 1) <= Budget(MaxAttempts)
        BY <4>1, BudgetGrows
      <4> HIDE DEF n
      <4> QED BY <4>1, <4>2, <4>3, <1>c
    <3> QED BY <2>1, <3>1, <3>2
  <2>3. At(c)
    BY <2>1, <2>2 DEF Types, At
  <2> QED BY <1>a, <2>1, <2>3 DEF Types
<1>5. ASSUME NEW c \in Calls, FailOnce(c) PROVE (ClockTypes /\ Clock)'
  <2>1. PICK seconds \in {0, HttpTimeout} : spent' = [spent EXCEPT ![c] = @ + seconds]
    BY <1>5 DEF FailOnce
  <2>2. At(c)
    BY <1>5, <2>1, <1>b, <1>c DEF FailOnce, Types, Clock, At
  <2>3. ClockTypes'
    BY <1>5, <2>1, <1>c DEF FailOnce
  <2> QED BY <1>5, <1>a, <2>1, <2>2, <2>3 DEF FailOnce, Types
<1>6. ASSUME NEW c \in Calls, Retry(c) PROVE (ClockTypes /\ Clock)'
  <2> DEFINE n == attempt[c]
  <2>1. /\ pc[c] = "backoff" /\ n \in Nat /\ n < MaxAttempts /\ spent[c] \in Nat
        /\ spent[c] <= Budget(n) + HttpTimeout
    BY <1>6 DEF Retry, Clock
  <2>2. PICK delay \in Delays(c) :
          /\ attempt' = [attempt EXCEPT ![c] = n + 1]
          /\ spent' = [spent EXCEPT ![c] = spent[c] + delay]
          /\ UNCHANGED cancelled
    BY <1>6 DEF Retry
  <2>3. Budget(n) \in Nat /\ Budget(n + 1) \in Nat
    BY <2>1, BudgetNext
  <2>4. delay \in Nat /\ Budget(n) + HttpTimeout + delay <= Budget(n + 1)
    <3> DEFINE base == BaseDelay * 2^n
    <3>1. PICK jitter \in 0..MaxJitter : delay = base + jitter
      BY DEF Delays
    <3>2. base \in Nat /\ Budget(n + 1) = Budget(n) + HttpTimeout + MaxJitter + base
      BY <2>1, BudgetLemma
    <3> HIDE DEF base, n
    <3> QED BY <2>3, <3>1, <3>2, <1>c
  <2>5. /\ spent'[c] = spent[c] + delay /\ spent[c] + delay <= Budget(n + 1)
        /\ attempt'[c] = n + 1 /\ spent[c] + delay \in Nat
    <3>1. spent'[c] = spent[c] + delay /\ attempt'[c] = n + 1
      BY <2>2
    <3> HIDE DEF n
    <3> QED BY <2>1, <2>3, <2>4, <3>1, <1>c
  <2>6. ClockTypes'
    BY <2>1, <2>2, <2>4, <2>5
  <2>7. CASE LastAttempt(c) \/ c \in cancelled
    <3>1. pc' = [pc EXCEPT ![c] = "done"]
      BY <1>6, <2>7 DEF Retry, Finish
    <3>2. Budget(n + 1) <= Budget(MaxAttempts)
      BY <2>1, BudgetGrows
    <3>3. At(c)
      BY <2>3, <2>5, <3>1, <3>2, <1>c DEF Types, At
    <3> QED BY <1>a, <2>2, <2>4, <2>6, <3>1, <3>3 DEF Types
  <2>8. CASE ~(LastAttempt(c) \/ c \in cancelled)
    <3>1. pc' = [pc EXCEPT ![c] = "wait"]
      BY <1>6, <2>8 DEF Retry, Again
    <3>2. n + 1 < MaxAttempts
      BY <2>1, <2>8 DEF LastAttempt
    <3>3. At(c)
      BY <2>5, <3>1, <3>2 DEF Types, At
    <3> QED BY <1>a, <2>2, <2>4, <2>6, <3>1, <3>3 DEF Types
  <2> QED BY <2>7, <2>8
<1>7. ASSUME NEW c \in Calls, Return(c) PROVE (ClockTypes /\ Clock)'
  <2>1. At(c)
    BY <1>7 DEF Return, Types, At
  <2>2. ClockTypes'
    BY <1>7 DEF Return
  <2> QED BY <1>7, <1>a, <2>1, <2>2 DEF Return, Types
<1> QED
  BY <1>1, <1>2, <1>3, <1>4, <1>5, <1>6, <1>7 DEF Next, Step

(* The inductive invariant: the limiter, the calls and their clocks.       *)
IInv == Types /\ ClockTypes /\ RateBound /\ CallOK /\ Clock

THEOREM Inductive == Spec => []IInv
<1>1. Init => IInv
  BY BudgetLemma
  DEF IInv, Init, Types, ClockTypes, RateBound, CallOK, Clock
<1>2. IInv /\ [Next]_vars => IInv'
  BY CallStep, ClockStep DEF IInv
<1> QED BY <1>1, <1>2, PTL DEF Spec

(* The state of the client stays within its types: the attempts within     *)
(* their maximum, the tokens within the burst.                             *)
THEOREM TypeCorrect == Spec => []TypeOK
<1>1. IInv => TypeOK
  BY DEF IInv, Types, ClockTypes, TypeOK
<1> QED BY <1>1, Inductive, PTL

(* For any number of calls and attempts, the requests that one client      *)
(* sends exceed the refills of its limiter by at most a burst.             *)
THEOREM RateIsBounded == Spec => []RateBound
<1>1. IInv => RateBound
  BY DEF IInv
<1> QED BY <1>1, Inductive, PTL

(* A call that need not wait for the limiter takes at most the timeouts of *)
(* all its attempts and their doubling delays, the jitter included, for    *)
(* any of these constants.                                                 *)
THEOREM DurationIsBounded == Spec => []DurationBound
<1>1. IInv => DurationBound
  <2> SUFFICES ASSUME IInv, NEW c \in Calls PROVE spent[c] <= Budget(MaxAttempts)
    BY DEF DurationBound, Budget
  <2> USE DEF IInv, Clock
  <2>1. CASE pc[c] = "backoff"
    <3> DEFINE n == attempt[c]
    <3>1. n \in Nat /\ n + 1 \in 0..MaxAttempts /\ spent[c] <= Budget(n) + HttpTimeout
      BY <2>1
    <3>2. HttpTimeout \in Nat /\ spent[c] \in Nat
      OBVIOUS
    <3>3. Budget(n) \in Nat /\ Budget(n + 1) \in Nat /\ Budget(n) + HttpTimeout <= Budget(n + 1)
      BY <3>1, BudgetNext
    <3>4. Budget(n + 1) <= Budget(MaxAttempts) /\ Budget(MaxAttempts) \in Nat
      BY <3>1, BudgetGrows, BudgetLemma
    <3> HIDE DEF n
    <3> QED BY <3>1, <3>2, <3>3, <3>4
  <2>2. CASE pc[c] # "backoff"
    <3>1. /\ Budget(attempt[c]) \in Nat /\ Budget(MaxAttempts) \in Nat
          /\ Budget(attempt[c]) <= Budget(MaxAttempts)
      <4>1. attempt[c] \in 0..MaxAttempts /\ attempt[c] \in Nat /\ MaxAttempts \in Nat
        OBVIOUS
      <4> QED BY <4>1, BudgetLemma, BudgetGrows
    <3>2. pc[c] \in {"idle", "wait", "request", "done"}
      BY <2>2 DEF Types
    <3> QED BY <3>1, <3>2
  <2> QED BY <2>1, <2>2
<1> QED BY <1>1, Inductive, PTL

(* The safety part of EmbedCalls: a call is answered once, with the        *)
(* vectors of its own texts in their order or with an error, whatever the  *)
(* order in which the API lists them.                                      *)
THEOREM ImplementsCalls == Spec => EC!CallSafety
<1>1. Init => EC!CallInit
  BY DEF Init, EC!CallInit
<1>2. Types /\ CallOK /\ Types' /\ CallOK' /\ [Next]_vars => [EC!CallNext]_(EC!callVars)
  <2> SUFFICES ASSUME Types, CallOK, Types', CallOK', [Next]_vars
               PROVE  EC!CallNext \/ UNCHANGED EC!callVars
    OBVIOUS
  <2> USE DEF Types, CallOK
  <2>1. ASSUME NEW c \in Calls, NEW batch \in Batches, EmbedBatch(c, batch) PROVE EC!CallNext
    BY <2>1 DEF EmbedBatch, EC!CallNext, EC!Call
  <2>2. ASSUME NEW c \in Calls, arg[c] # NULL, answer[c] = NULL, UNCHANGED arg,
               \E a \in VectorsOf(arg[c], NULL) \cup {Error} : answer' = [answer EXCEPT ![c] = a]
        PROVE  EC!CallNext
    <3>1. arg[c] \in Batches
      BY <2>2
    <3>2. [batch \in Batches |-> VectorsOf(batch, NULL) \cup {Error}][arg[c]]
            = VectorsOf(arg[c], NULL) \cup {Error}
      BY <3>1
    <3>3. EC!Answer(c)
      BY <2>2, <3>2 DEF EC!Answer
    <3> QED BY <3>3 DEF EC!CallNext
  <2>3. ASSUME NEW c \in Calls, Succeed(c) PROVE EC!CallNext
    <3>1. arg[c] \in Batches /\ pc[c] = "request"
      BY <2>3 DEF Succeed
    <3> QED BY <2>2, <2>3, <3>1, PlacedLemma DEF Succeed, Finish
  <2>4. ASSUME NEW c \in Calls, Refuse(c) \/ GiveUp(c) PROVE EC!CallNext
    BY <2>2, <2>4 DEF Refuse, GiveUp, Finish
  <2>5. ASSUME NEW c \in Calls, Retry(c) PROVE EC!CallNext \/ UNCHANGED EC!callVars
    BY <2>2, <2>5 DEF Retry, Again, Finish, EC!callVars
  <2>6. ASSUME NEW c \in Calls, Return(c) PROVE EC!CallNext
    BY <2>6 DEF Return, EC!CallNext, EC!Return
  <2>7. ASSUME NEW c \in Calls, Send(c) \/ FailOnce(c) \/ Cancel(c) PROVE UNCHANGED EC!callVars
    BY <2>7 DEF Send, FailOnce, Cancel, EC!callVars
  <2>8. CASE Refill \/ Waste \/ UNCHANGED vars
    BY <2>8 DEF Refill, Waste, vars, EC!callVars
  <2> QED
    BY <2>1, <2>3, <2>4, <2>5, <2>6, <2>7, <2>8 DEF Next, Step
<1>3. IInv => Types /\ CallOK
  BY DEF IInv
<1> QED BY <1>1, <1>2, <1>3, Inductive, PTL DEF Spec, EC!CallSafety
=============================================================================
