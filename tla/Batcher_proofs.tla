---------------------------- MODULE Batcher_proofs ----------------------------
(* Theorems about Batcher, for any callers, texts, MaxSize and MaxAdds.    *)
EXTENDS Batcher, FiniteSetTheorems, TLAPS

(* A goroutine of a caller is none of a timer.                             *)
LEMMA DisjointFlushers == Callers \cap Timers = {}
  BY BatcherConstants DEF Timers

(* EmbedBatch gives every item of a batch an answer of its own: its vector, *)
(* an error, or none, which is a panic.                                     *)
LEMMA OutcomesLemma ==
  ASSUME NEW texts \in Seq(Texts), NEW answers \in Outcomes(texts)
  PROVE  /\ answers \in Seq(Answers \cup {Absent})
         /\ Len(answers) = Len(texts)
         /\ \A i \in DOMAIN answers : answers[i] \in {texts[i], Error, Absent}
<1>1. Len(texts) \in Nat /\ DOMAIN texts = 1..Len(texts)
      /\ \A i \in 1..Len(texts) : texts[i] \in Texts
  OBVIOUS
<1>2. /\ DOMAIN answers = 1..Len(texts)
      /\ answers = [i \in 1..Len(texts) |-> answers[i]]
      /\ \A i \in 1..Len(texts) : answers[i] \in {texts[i], Error, Absent}
  <2>1. CASE answers = [i \in DOMAIN texts |-> Error]
    BY <1>1, <2>1
  <2>2. ASSUME NEW v \in VectorsOf(texts, Error),
               answers = [i \in DOMAIN texts |-> IF i <= Len(v) THEN v[i] ELSE Absent]
        PROVE  /\ DOMAIN answers = 1..Len(texts)
               /\ answers = [i \in 1..Len(texts) |-> answers[i]]
               /\ \A i \in 1..Len(texts) : answers[i] \in {texts[i], Error, Absent}
    <3>1. PICK m \in 0..Len(texts) : v \in [1..m -> {texts[i] : i \in 1..m} \cup {Error}]
      BY DEF VectorsOf
    <3>2. \A i \in DOMAIN v : v[i] \in {texts[i], Error}
      BY DEF VectorsOf
    <3>3. m \in Nat /\ DOMAIN v = 1..m
      BY <1>1, <3>1
    <3>4. v = [i \in 1..m |-> v[i]]
      BY <3>1
    <3>5. Len(v) = m
      BY <3>3, <3>4
    <3>6. \A i \in 1..Len(texts) : i <= m => v[i] \in {texts[i], Error}
      BY <1>1, <3>2, <3>3
    <3> QED BY <1>1, <2>2, <3>5, <3>6
  <2> QED BY <2>1, <2>2 DEF Outcomes
<1>3. \A i \in 1..Len(texts) : answers[i] \in Answers \cup {Absent}
  BY <1>1, <1>2 DEF Answers
<1>4. answers \in [1..Len(texts) -> Answers \cup {Absent}]
  BY <1>2, <1>3
<1>5. answers \in Seq(Answers \cup {Absent}) /\ Len(answers) = Len(texts)
  BY <1>1, <1>4
<1> QED BY <1>1, <1>2, <1>5

(* A batch after its EmbedBatch call: an answer at the place of each item.  *)
LEMMA AfterEmbed ==
  ASSUME TypeOK, NEW f \in Flushers, EmbedReturns(f)
  PROVE  /\ batch' \in [Flushers -> [items : Seq(Item), answers : Seq(Answers \cup {Absent})]]
         /\ batch'[f].items = batch[f].items /\ batch[f].items # <<>>
         /\ Len(batch'[f].answers) = Len(batch[f].items)
         /\ \A g \in Flushers : g # f => batch'[g] = batch[g]
         /\ \A i \in DOMAIN batch'[f].answers :
              batch'[f].answers[i] \in {batch[f].items[i].text, Error, Absent}
         /\ UNCHANGED <<pending, timer, armed, fired, pc, arg, seen, mailbox, adds>>
<1> DEFINE items == batch[f].items
           texts == [i \in DOMAIN items |-> items[i].text]
<1>1. PICK answers \in Outcomes(texts) : batch' = [batch EXCEPT ![f].answers = answers]
  BY DEF EmbedReturns
<1>2. items \in Seq(Item) /\ items # <<>>
  BY DEF TypeOK, EmbedReturns
<1>3. /\ DOMAIN items = 1..Len(items) /\ Len(items) \in Nat
      /\ \A i \in 1..Len(items) : items[i].text \in Texts
  <2> HIDE DEF items
  <2>1. /\ DOMAIN items = 1..Len(items) /\ Len(items) \in Nat
        /\ \A i \in 1..Len(items) : items[i] \in Item
    BY <1>2
  <2> QED BY <2>1 DEF Item
<1>4. texts \in Seq(Texts) /\ Len(texts) = Len(items)
  <2> HIDE DEF items
  <2> QED BY <1>3
<1>5. /\ answers \in Seq(Answers \cup {Absent}) /\ Len(answers) = Len(items)
      /\ DOMAIN answers = 1..Len(items)
      /\ \A i \in DOMAIN answers : answers[i] \in {texts[i], Error, Absent}
  <2> HIDE DEF texts, items
  <2> QED BY <1>4, OutcomesLemma
<1>6. \A i \in DOMAIN answers : answers[i] \in {items[i].text, Error, Absent}
  <2> HIDE DEF items
  <2> QED BY <1>3, <1>5
<1>7. /\ batch' \in [Flushers -> [items : Seq(Item), answers : Seq(Answers \cup {Absent})]]
      /\ batch'[f].items = items /\ batch'[f].answers = answers
      /\ \A g \in Flushers : g # f => batch'[g] = batch[g]
  BY <1>1, <1>5 DEF TypeOK
<1>8. UNCHANGED <<pending, timer, armed, fired, pc, arg, seen, mailbox, adds>>
  BY DEF EmbedReturns
<1> HIDE DEF texts
<1> QED BY <1>2, <1>5, <1>6, <1>7, <1>8

(* Every step of the batcher keeps its variables in their types. *)
LEMMA TypeStep == TypeOK /\ OneFlush /\ [Next]_vars => TypeOK'
<1> SUFFICES ASSUME TypeOK, OneFlush, [Next]_vars PROVE TypeOK'
  OBVIOUS
<1> USE BatcherConstants DEF TypeOK, Flushers, Timers
<1>1. ASSUME NEW c \in Callers, NEW text \in Texts, Add(c, text) PROVE TypeOK'
  <2>1. pending' \in Seq(Item)
    <3>1. [text |-> text, caller |-> c] \in Item
      BY DEF Item
    <3> QED BY <1>1, <3>1 DEF Add, OpensBucket, FillsBucket
  <2>2. timer' \in {timer, timer + 1} /\ adds' = adds + 1 /\ adds' \in 0..MaxAdds
    BY <1>1 DEF Add, OpensBucket, FillsBucket
  <2>3. timer' \in 0..adds' /\ fired' \subseteq 1..timer'
    BY <2>2, <1>1 DEF Add, OpensBucket, FillsBucket
  <2>8. armed' \subseteq 1..timer'
    <3>1. 1..timer \subseteq 1..timer' /\ (timer' = timer + 1 => timer' \in 1..timer')
      BY <2>2
    <3> QED BY <3>1, <1>1 DEF Add, OpensBucket, FillsBucket
  <2>4. seen' \in [Callers -> 0..timer']
    <3>1. 0..timer \subseteq 0..timer' /\ timer' \in 0..timer'
      BY <2>2
    <3> QED BY <3>1, <1>1 DEF Add, OpensBucket, FillsBucket
  <2>5. pc' \in [Callers -> {"idle", "stop", "flush", "wait"}]
    BY <1>1 DEF Add, OpensBucket, FillsBucket
  <2>6. arg' \in [Callers -> Texts \cup {NULL}]
    BY <1>1 DEF Add, OpensBucket, FillsBucket
  <2>7. UNCHANGED <<batch, mailbox>>
    BY <1>1 DEF Add, OpensBucket, FillsBucket
  <2> QED BY <2>1, <2>2, <2>3, <2>4, <2>5, <2>6, <2>7, <2>8
<1>2. ASSUME NEW c \in Callers, Stop(c) PROVE TypeOK'
  <2>1. armed' \subseteq armed
    BY <1>2 DEF Stop
  <2>2. seen' \in [Callers -> 0..timer] /\ timer' = timer
    BY <1>2 DEF Stop
  <2> QED BY <1>2, <2>1, <2>2 DEF Stop
<1>3. ASSUME NEW f \in Flushers, TakeBucket(f)
      PROVE /\ pending' \in Seq(Item)
            /\ batch' \in [Flushers -> [items : Seq(Item), answers : Seq(Answers \cup {Absent})]]
  BY <1>3 DEF TakeBucket
<1>4. ASSUME NEW c \in Callers, CallerFlush(c) PROVE TypeOK'
  BY <1>3, <1>4 DEF CallerFlush
<1>5. ASSUME NEW t \in Timers, Fire(t) PROVE TypeOK'
  BY <1>5 DEF Fire
<1>6. ASSUME NEW t \in Timers, TimerFlush(t) PROVE TypeOK'
  BY <1>3, <1>6 DEF TimerFlush
<1>7. ASSUME NEW f \in Flushers, EmbedReturns(f) PROVE TypeOK'
  BY <1>7, AfterEmbed
<1>8. ASSUME NEW f \in Flushers, Deliver(f) PROVE TypeOK'
  <2>1. /\ Head(batch[f].answers) \in Answers
        /\ Tail(batch[f].answers) \in Seq(Answers \cup {Absent})
    BY <1>8 DEF Deliver
  <2>2. mailbox' \in [Callers -> Answers \cup {NULL}]
    BY <1>8, <2>1 DEF Deliver
  <2>3. Tail(batch[f].items) \in Seq(Item)
    BY <1>8 DEF Deliver, OneFlush
  <2>4. batch' \in [Flushers -> [items : Seq(Item), answers : Seq(Answers \cup {Absent})]]
    BY <1>8, <2>1, <2>3 DEF Deliver
  <2> QED BY <1>8, <2>2, <2>4 DEF Deliver
<1>9. ASSUME NEW c \in Callers, Return(c) PROVE TypeOK'
  BY <1>9 DEF Return
<1>10. ASSUME NEW f \in Flushers, Panic(f) PROVE TypeOK'
  BY <1>10 DEF Panic, NoBatch
<1> QED BY <1>1, <1>2, <1>4, <1>5, <1>6, <1>7, <1>8, <1>9, <1>10 DEF Next, vars

(* A goroutine that starts a flush has none in progress: a caller returns   *)
(* from Add only after its own, and a timer flushes once.                   *)
LEMMA OneFlushStep == TypeOK /\ OneFlush /\ [Next]_vars => OneFlush'
<1> SUFFICES ASSUME TypeOK, OneFlush, [Next]_vars PROVE OneFlush'
  OBVIOUS
<1> USE BatcherConstants DEF TypeOK, OneFlush, Flushers, Timers
<1>1. ASSUME NEW c \in Callers, NEW text \in Texts, Add(c, text) PROVE OneFlush'
  <2>1. timer' \in {timer, timer + 1} /\ armed' \subseteq armed \cup {timer + 1}
    BY <1>1 DEF Add, OpensBucket, FillsBucket
  <2>2. \A t \in Timers : t \in armed' \cup fired' \/ t > timer' =>
          t \in armed \cup fired \/ t > timer
    BY <1>1, <2>1 DEF Add, OpensBucket, FillsBucket
  <2>3. armed' \cap fired' = {}
    BY <1>1, <2>1 DEF Add, OpensBucket, FillsBucket
  <2>4. \A d \in Callers : pc'[d] # "wait" => batch[d].items = <<>>
    BY <1>1 DEF Add, OpensBucket, FillsBucket
  <2> QED BY <1>1, <2>2, <2>3, <2>4 DEF Add, OpensBucket, FillsBucket
<1>2. ASSUME NEW c \in Callers, Stop(c) PROVE OneFlush'
  BY <1>2 DEF Stop
<1>3. ASSUME NEW f \in Flushers, TakeBucket(f)
      PROVE /\ \A g \in Flushers : batch'[g].answers # <<>> =>
                 Len(batch'[g].answers) = Len(batch'[g].items)
            /\ \A g \in Flushers : g # f => batch'[g] = batch[g]
  BY <1>3 DEF TakeBucket
<1>4. ASSUME NEW c \in Callers, CallerFlush(c) PROVE OneFlush'
  <2>1. c \notin Timers
    OBVIOUS
  <2>2. UNCHANGED <<armed, fired, timer>> /\ \A d \in Callers : pc'[d] # "wait" => d # c /\ pc[d] # "wait"
    BY <1>4 DEF CallerFlush
  <2>3. /\ \A g \in Flushers : batch'[g].answers # <<>> =>
             Len(batch'[g].answers) = Len(batch'[g].items)
        /\ \A g \in Flushers : g # c => batch'[g] = batch[g]
    BY <1>3, <1>4 DEF CallerFlush
  <2>4. /\ \A d \in Callers : pc'[d] # "wait" => batch'[d].items = <<>>
        /\ \A t \in Timers : batch'[t] = batch[t]
    BY <2>1, <2>2, <2>3
  <2> QED BY <2>2, <2>3, <2>4
<1>5. ASSUME NEW t \in Timers, Fire(t) PROVE OneFlush'
  BY <1>5 DEF Fire
<1>6. ASSUME NEW t \in Timers, TimerFlush(t) PROVE OneFlush'
  <2>1. t \notin Callers /\ t \in Flushers /\ TakeBucket(t)
    BY <1>6, DisjointFlushers DEF TimerFlush
  <2>2. t \notin armed' \cup fired' /\ ~(t > timer') /\ armed' \cap fired' = {}
    BY <1>6 DEF TimerFlush
  <2>3. /\ \A g \in Flushers : batch'[g].answers # <<>> =>
             Len(batch'[g].answers) = Len(batch'[g].items)
        /\ \A g \in Flushers : g # t => batch'[g] = batch[g]
    BY <1>3, <2>1
  <2>4. UNCHANGED <<armed, timer, pc>> /\ fired' \subseteq fired
    BY <1>6 DEF TimerFlush
  <2>5. /\ \A d \in Callers : batch'[d] = batch[d]
        /\ \A u \in Timers : u \in armed' \cup fired' \/ u > timer' => batch'[u] = batch[u]
    BY <2>1, <2>2, <2>3
  <2> QED BY <2>2, <2>3, <2>4, <2>5
<1>7. ASSUME NEW f \in Flushers, EmbedReturns(f) PROVE OneFlush'
  BY <1>7, AfterEmbed
<1>8. ASSUME NEW f \in Flushers, Deliver(f) PROVE OneFlush'
  <2>1. batch[f].items # <<>>
    BY <1>8 DEF Deliver
  <2>2. Len(Tail(batch[f].items)) = Len(Tail(batch[f].answers))
    <3>1. /\ batch[f].items \in Seq(Item) /\ batch[f].answers \in Seq(Answers \cup {Absent})
          /\ Len(batch[f].items) = Len(batch[f].answers)
          /\ batch[f].answers # <<>>
      BY <1>8 DEF Deliver
    <3> HIDE DEF TypeOK, OneFlush
    <3> QED BY <2>1, <3>1
  <2> QED BY <1>8, <2>1, <2>2 DEF Deliver
<1>9. ASSUME NEW c \in Callers, Return(c) PROVE OneFlush'
  BY <1>9 DEF Return
<1>10. ASSUME NEW f \in Flushers, Panic(f) PROVE OneFlush'
  BY <1>10 DEF Panic, NoBatch
<1> QED BY <1>1, <1>2, <1>4, <1>5, <1>6, <1>7, <1>8, <1>9, <1>10 DEF Next, vars

(* Type correctness, for every value of the constants. *)
THEOREM TypeCorrect == Spec => [](TypeOK /\ OneFlush)
<1>1. Init => TypeOK /\ OneFlush
  BY BatcherConstants DEF Init, TypeOK, OneFlush, NoBatch, Flushers, Timers
<1>2. TypeOK /\ OneFlush /\ [Next]_vars => (TypeOK /\ OneFlush)'
  BY TypeStep, OneFlushStep
<1> QED BY <1>1, <1>2, PTL DEF Spec

(* No call of Add is left in a bucket that nobody will flush, although the  *)
(* timer a caller stops may be that of a later bucket.                      *)
THEOREM NeverStranded == Spec => []NoStrandedItem
<1>1. Init => NoStrandedItem
  BY DEF Init, NoStrandedItem
<1>2. TypeOK /\ NoStrandedItem /\ [Next]_vars => NoStrandedItem'
  <2> SUFFICES ASSUME TypeOK, NoStrandedItem, [Next]_vars PROVE NoStrandedItem'
    OBVIOUS
  <2> USE DEF TypeOK, NoStrandedItem, Flushing
  <2>1. ASSUME NEW c \in Callers, NEW text \in Texts, Add(c, text) PROVE NoStrandedItem'
    <3>1. CASE pending = <<>>
      BY <2>1, <3>1 DEF Add, OpensBucket, FillsBucket
    <3>2. CASE pending # <<>>
      BY <2>1, <3>2 DEF Add, OpensBucket, FillsBucket
    <3> QED BY <3>1, <3>2
  <2>2. ASSUME NEW c \in Callers, Stop(c) PROVE NoStrandedItem'
    BY <2>2 DEF Stop
  <2>3. ASSUME NEW c \in Callers, CallerFlush(c) PROVE NoStrandedItem'
    BY <2>3 DEF CallerFlush, TakeBucket
  <2>4. ASSUME NEW t \in Timers, Fire(t) PROVE NoStrandedItem'
    BY <2>4 DEF Fire
  <2>5. ASSUME NEW t \in Timers, TimerFlush(t) PROVE NoStrandedItem'
    BY <2>5 DEF TimerFlush, TakeBucket
  <2>6. ASSUME NEW c \in Callers, Return(c) PROVE NoStrandedItem'
    BY <2>6 DEF Return
  <2>7. ASSUME NEW f \in Flushers, Panic(f) PROVE NoStrandedItem'
    BY <2>7 DEF Panic
  <2> QED BY <2>1, <2>2, <2>3, <2>4, <2>5, <2>6, <2>7 DEF Next, vars, EmbedReturns, Deliver
<1> QED BY <1>1, <1>2, TypeCorrect, PTL DEF Spec

(* A bucket exceeds MaxSize by no more than the callers about to flush it.  *)
THEOREM OvershootIsBounded == Spec => []BoundedOvershoot
<1> USE BatcherConstants
<1>0. /\ IsFiniteSet(Flushing) /\ Cardinality(Flushing) \in Nat
      /\ IsFiniteSet(Flushing') /\ Cardinality(Flushing') \in Nat
  BY FS_Subset, FS_CardinalityType DEF Flushing
<1>1. Init => BoundedOvershoot
  BY <1>0 DEF Init, BoundedOvershoot
<1>2. TypeOK /\ BoundedOvershoot /\ [Next]_vars => BoundedOvershoot'
  <2> SUFFICES ASSUME TypeOK, BoundedOvershoot, [Next]_vars PROVE BoundedOvershoot'
    OBVIOUS
  <2> USE <1>0 DEF TypeOK, BoundedOvershoot
  <2>1. ASSUME NEW c \in Callers, NEW text \in Texts, Add(c, text) PROVE BoundedOvershoot'
    <3>1. Len(pending') = Len(pending) + 1
      BY <2>1 DEF Add
    <3>2. CASE FillsBucket
      <4>1. Flushing' = Flushing \cup {c} /\ c \notin Flushing
        BY <2>1, <3>2 DEF Add, FillsBucket, Flushing
      <4>2. Cardinality(Flushing') = Cardinality(Flushing) + 1
        BY <4>1, FS_AddElement
      <4> QED BY <3>1, <4>2
    <3>3. CASE ~FillsBucket
      BY <3>1, <3>3 DEF FillsBucket
    <3> QED BY <3>2, <3>3
  <2>2. ASSUME NEW c \in Callers, Stop(c) PROVE BoundedOvershoot'
    <3>1. Flushing' = Flushing /\ pending' = pending
      BY <2>2 DEF Stop, Flushing
    <3> QED BY <3>1
  <2>3. ASSUME pending' = <<>> PROVE BoundedOvershoot'
    BY <2>3
  <2>4. ASSUME NEW c \in Callers, CallerFlush(c) PROVE BoundedOvershoot'
    BY <2>3, <2>4 DEF CallerFlush, TakeBucket
  <2>5. ASSUME NEW t \in Timers, TimerFlush(t) PROVE BoundedOvershoot'
    BY <2>3, <2>5 DEF TimerFlush, TakeBucket
  <2>6. ASSUME UNCHANGED <<pc, pending>> PROVE BoundedOvershoot'
    BY <2>6 DEF Flushing
  <2>7. ASSUME NEW t \in Timers, Fire(t) PROVE BoundedOvershoot'
    BY <2>6, <2>7 DEF Fire
  <2>8. ASSUME NEW f \in Flushers, EmbedReturns(f) \/ Deliver(f) PROVE BoundedOvershoot'
    BY <2>6, <2>8 DEF EmbedReturns, Deliver
  <2>9. ASSUME NEW c \in Callers, Return(c) PROVE BoundedOvershoot'
    <3>1. Flushing' = Flushing /\ pending' = pending
      BY <2>9 DEF Return, Flushing
    <3> QED BY <3>1
  <2>10. CASE UNCHANGED vars
    BY <2>6, <2>10 DEF vars
  <2>11. ASSUME NEW f \in Flushers, Panic(f) PROVE BoundedOvershoot'
    BY <2>3, <2>11 DEF Panic
  <2> QED BY <2>1, <2>2, <2>4, <2>5, <2>7, <2>8, <2>9, <2>10, <2>11 DEF Next
<1> QED BY <1>1, <1>2, TypeCorrect, PTL DEF Spec

-----------------------------------------------------------------------------
(* The bucket and the batches, seen as sequences of typed items.           *)
LEMMA ItemTypes ==
  ASSUME TypeOK
  PROVE  /\ pending \in Seq(Item)
         /\ \A i \in DOMAIN pending : pending[i].caller \in Callers /\ pending[i].text \in Texts
         /\ \A f \in Flushers : batch[f].items \in Seq(Item) /\ batch[f].answers \in Seq(Answers \cup {Absent})
         /\ \A f \in Flushers : \A i \in DOMAIN batch[f].items :
              batch[f].items[i].caller \in Callers /\ batch[f].items[i].text \in Texts
<1>1. ASSUME NEW s \in Seq(Item), NEW i \in DOMAIN s
      PROVE  s[i].caller \in Callers /\ s[i].text \in Texts
  <2>1. s[i] \in Item
    OBVIOUS
  <2> QED BY <2>1 DEF Item
<1> QED BY <1>1 DEF TypeOK

(* Where the items are after a delivery: those that were behind the head.  *)
LEMMA AfterDelivery ==
  ASSUME TypeOK, OneFlush, NEW f \in Flushers, Deliver(f)
  PROVE  /\ 1 \in DOMAIN batch[f].items /\ 1 \in DOMAIN batch[f].answers
         /\ mailbox' = [mailbox EXCEPT ![batch[f].items[1].caller] = batch[f].answers[1]]
         /\ \A g \in Flushers : g # f => batch'[g] = batch[g]
         /\ \A i \in DOMAIN batch'[f].items :
              i + 1 \in DOMAIN batch[f].items /\ batch'[f].items[i] = batch[f].items[i + 1]
         /\ \A i \in DOMAIN batch'[f].answers :
              i + 1 \in DOMAIN batch[f].answers /\ batch'[f].answers[i] = batch[f].answers[i + 1]
         /\ DOMAIN batch'[f].items \subseteq Nat \ {0}
<1>1. /\ batch[f].items \in Seq(Item) /\ batch[f].answers \in Seq(Answers \cup {Absent})
      /\ batch[f].answers # <<>> /\ Len(batch[f].answers) = Len(batch[f].items)
      /\ batch[f].items # <<>>
  BY DEF TypeOK, OneFlush, Deliver
<1>2. /\ batch'[f] = [items |-> Tail(batch[f].items), answers |-> Tail(batch[f].answers)]
      /\ \A g \in Flushers : g # f => batch'[g] = batch[g]
      /\ mailbox' = [mailbox EXCEPT ![Head(batch[f].items).caller] = Head(batch[f].answers)]
  BY DEF TypeOK, Deliver
<1>3. ASSUME NEW S, NEW s \in Seq(S), s # <<>>
      PROVE  /\ 1 \in DOMAIN s /\ Head(s) = s[1]
             /\ DOMAIN Tail(s) \subseteq Nat \ {0}
             /\ \A i \in DOMAIN Tail(s) : i + 1 \in DOMAIN s /\ Tail(s)[i] = s[i + 1]
  BY <1>3
<1> QED BY <1>1, <1>2, <1>3

(* Who owns the items after one joins the bucket. *)
LEMMA AfterAdd ==
  ASSUME TypeOK, NEW c \in Callers, NEW text \in Texts, Add(c, text)
  PROVE  /\ \A i \in DOMAIN pending' :
              \/ i \in DOMAIN pending /\ pending'[i] = pending[i]
              \/ i = Len(pending) + 1 /\ pending'[i] = [text |-> text, caller |-> c]
         /\ DOMAIN pending \subseteq 1..Len(pending)
         /\ UNCHANGED <<batch, mailbox>>
         /\ pc[c] = "idle" /\ pc'[c] # "idle" /\ arg'[c] = text
         /\ \A d \in Callers : d # c => pc'[d] = pc[d] /\ arg'[d] = arg[d]
  BY DEF TypeOK, Add, OpensBucket, FillsBucket

(* The step that hands the bucket over moves its items and nothing else.   *)
LEMMA AfterTake ==
  ASSUME TypeOK, OneFlush, NEW f \in Flushers, TakeBucket(f)
  PROVE  /\ pending' = <<>> /\ DOMAIN pending' = {}
         /\ batch'[f].items = pending /\ batch'[f].answers = <<>>
         /\ DOMAIN batch'[f].answers = {}
         /\ \A g \in Flushers : g # f => batch'[g] = batch[g]
  BY DEF TypeOK, TakeBucket

(* Every step keeps each item with the call that brought it.               *)
LEMMA OwnershipStep ==
  TypeOK /\ OneFlush /\ Ownership /\ SingleItem /\ [Next]_vars => Ownership'
<1> SUFFICES ASSUME TypeOK, OneFlush, Ownership, SingleItem, [Next]_vars PROVE Ownership'
  OBVIOUS
<1>0. NULL \notin Answers /\ NULL \notin Texts
  BY BatcherConstants DEF Answers
<1>1. ASSUME NEW c \in Callers, NEW text \in Texts, Add(c, text) PROVE Ownership'
  <2>1. \A d \in Callers : (pc'[d] = "idle" <=> arg'[d] = NULL) /\ (pc'[d] = "idle" => mailbox'[d] = NULL)
    BY <1>0, <1>1, AfterAdd DEF Ownership
  <2>2. ASSUME NEW item, item.caller \in Callers, Owned(item) PROVE Owned(item)'
    BY <1>1, <2>2, AfterAdd DEF Owned
  <2>3. Owned([text |-> text, caller |-> c])'
    BY <1>1, AfterAdd DEF Owned, Ownership
  <2>4. \A i \in DOMAIN pending' : Owned(pending[i])'
    BY <1>1, <2>2, <2>3, AfterAdd, ItemTypes DEF Ownership
  <2>5. \A f \in Flushers : \A i \in DOMAIN batch'[f].items : Owned(batch[f].items[i])'
    BY <1>1, <2>2, AfterAdd, ItemTypes DEF Ownership
  <2> QED BY <1>1, <2>1, <2>4, <2>5, AfterAdd DEF Ownership
<1>2. ASSUME NEW c \in Callers, Stop(c) PROVE Ownership'
  <2>1. /\ UNCHANGED <<arg, mailbox, pending, batch>>
        /\ \A d \in Callers : pc'[d] = "idle" <=> pc[d] = "idle"
    BY <1>2 DEF Stop, TypeOK
  <2> QED BY <2>1, ItemTypes DEF Ownership, Owned
<1>3. ASSUME NEW f \in Flushers, TakeBucket(f), UNCHANGED <<arg, mailbox>>,
             \A d \in Callers : pc'[d] = "idle" <=> pc[d] = "idle"
      PROVE Ownership'
  <2>1. ASSUME NEW item, item.caller \in Callers, Owned(item) PROVE Owned(item)'
    BY <1>3, <2>1 DEF Owned
  <2>2. \A g \in Flushers : \A i \in DOMAIN batch'[g].items : Owned(batch[g].items[i])'
    BY <1>3, <2>1, AfterTake, ItemTypes DEF Ownership
  <2>3. \A g \in Flushers : \A i \in DOMAIN batch'[g].answers :
          batch'[g].answers[i] \in {batch'[g].items[i].text, Error, Absent}
    BY <1>3, AfterTake DEF Ownership
  <2> QED BY <1>3, <2>2, <2>3, AfterTake DEF Ownership
<1>4. ASSUME NEW c \in Callers, CallerFlush(c) PROVE Ownership'
  BY <1>3, <1>4 DEF CallerFlush, Flushers, TypeOK
<1>5. ASSUME NEW t \in Timers, TimerFlush(t) PROVE Ownership'
  BY <1>3, <1>5 DEF TimerFlush, Flushers
<1>6. ASSUME NEW f \in Flushers, EmbedReturns(f) PROVE Ownership'
  <2>1. \A g \in Flushers : batch'[g].items = batch[g].items
    BY <1>6, AfterEmbed
  <2>2. UNCHANGED <<pc, arg, mailbox, pending>>
    BY <1>6, AfterEmbed
  <2>3. \A i \in DOMAIN pending' : Owned(pending[i])'
    BY <2>2 DEF Ownership, Owned
  <2>4. \A g \in Flushers : \A i \in DOMAIN batch'[g].items : Owned(batch[g].items[i])'
    BY <2>1, <2>2 DEF Ownership, Owned
  <2>5. \A g \in Flushers : \A i \in DOMAIN batch'[g].answers :
          batch'[g].answers[i] \in {batch'[g].items[i].text, Error, Absent}
    BY <1>6, <2>1, AfterEmbed DEF Ownership
  <2> QED BY <2>2, <2>3, <2>4, <2>5 DEF Ownership
<1>7. ASSUME NEW f \in Flushers, Deliver(f) PROVE Ownership'
  <2> DEFINE head == batch[f].items[1].caller
  <2>1. head \in Callers /\ pc[head] # "idle" /\ UNCHANGED <<pc, arg, pending>>
    BY <1>7, AfterDelivery, ItemTypes DEF Deliver, Ownership, Owned
  <2>2. \A d \in Callers : d # head => mailbox'[d] = mailbox[d]
    BY <1>7, AfterDelivery DEF TypeOK
  <2>3. \A d \in Callers : (pc'[d] = "idle" <=> arg'[d] = NULL) /\ (pc'[d] = "idle" => mailbox'[d] = NULL)
    BY <2>1, <2>2 DEF Ownership
  <2>4. \A i \in DOMAIN pending : pending[i].caller # head
    BY <1>7, AfterDelivery DEF SingleItem
  <2>5. \A i \in DOMAIN pending' : Owned(pending[i])'
    BY <2>1, <2>2, <2>4, ItemTypes DEF Ownership, Owned
  <2>6. ASSUME NEW g \in Flushers, NEW i \in DOMAIN batch'[g].items
        PROVE Owned(batch[g].items[i])'
    <3>1. CASE g = f
      <4>1. i + 1 \in DOMAIN batch[f].items /\ i + 1 # 1
            /\ batch'[f].items[i] = batch[f].items[i + 1]
        BY <1>7, <2>6, <3>1, AfterDelivery
      <4>2. batch[f].items[i + 1].caller # head /\ batch[f].items[i + 1].caller \in Callers
        BY <1>7, <4>1, AfterDelivery, ItemTypes DEF SingleItem
      <4> QED BY <2>1, <2>2, <3>1, <4>1, <4>2 DEF Ownership, Owned
    <3>2. CASE g # f
      <4>1. i \in DOMAIN batch[g].items /\ batch'[g].items = batch[g].items
        BY <1>7, <2>6, <3>2, AfterDelivery
      <4>2. batch[g].items[i].caller # head /\ batch[g].items[i].caller \in Callers
        BY <1>7, <3>2, <4>1, AfterDelivery, ItemTypes DEF SingleItem
      <4> QED BY <2>1, <2>2, <4>1, <4>2 DEF Ownership, Owned
    <3> QED BY <3>1, <3>2
  <2>7. ASSUME NEW g \in Flushers, NEW i \in DOMAIN batch'[g].answers
        PROVE batch'[g].answers[i] \in {batch'[g].items[i].text, Error, Absent}
    <3>1. CASE g = f
      <4>1. i + 1 \in DOMAIN batch[f].answers /\ batch'[f].answers[i] = batch[f].answers[i + 1]
        BY <1>7, <2>7, <3>1, AfterDelivery
      <4>2. batch'[f].items[i] = batch[f].items[i + 1]
        <5>1. /\ batch[f].items \in Seq(Item) /\ batch[f].answers \in Seq(Answers \cup {Absent})
              /\ Len(batch[f].answers) = Len(batch[f].items)
              /\ batch'[f] = [items |-> Tail(batch[f].items), answers |-> Tail(batch[f].answers)]
              /\ batch[f].items # <<>> /\ batch[f].answers # <<>>
          BY <1>7, ItemTypes DEF Deliver, OneFlush, TypeOK
        <5> QED BY <2>7, <3>1, <5>1
      <4> QED BY <3>1, <4>1, <4>2 DEF Ownership
    <3>2. CASE g # f
      BY <1>7, <2>7, <3>2, AfterDelivery DEF Ownership
    <3> QED BY <3>1, <3>2
  <2> QED BY <2>3, <2>5, <2>6, <2>7 DEF Ownership
<1>8. ASSUME NEW c \in Callers, Return(c) PROVE Ownership'
  <2>1. /\ pc' = [pc EXCEPT ![c] = "idle"] /\ arg' = [arg EXCEPT ![c] = NULL]
        /\ mailbox' = [mailbox EXCEPT ![c] = NULL] /\ mailbox[c] # NULL
        /\ UNCHANGED <<pending, batch>>
    BY <1>8 DEF Return
  <2>2. ASSUME NEW item, item.caller \in Callers, Owned(item) PROVE Owned(item)'
    BY <2>1, <2>2 DEF Owned, TypeOK
  <2>3. \A d \in Callers : (pc'[d] = "idle" <=> arg'[d] = NULL) /\ (pc'[d] = "idle" => mailbox'[d] = NULL)
    BY <2>1 DEF Ownership, TypeOK
  <2> QED BY <2>1, <2>2, <2>3, ItemTypes DEF Ownership
<1>9. ASSUME UNCHANGED <<pc, arg, mailbox, pending, batch>> PROVE Ownership'
  BY <1>9 DEF Ownership, Owned
<1>10. ASSUME NEW t \in Timers, Fire(t) PROVE Ownership'
  BY <1>9, <1>10 DEF Fire
<1>11. CASE UNCHANGED vars
  BY <1>9, <1>11 DEF vars
<1>12. ASSUME NEW f \in Flushers, Panic(f) PROVE Ownership'
  BY <1>12 DEF Panic, NoBatch, Ownership
<1> QED BY <1>1, <1>2, <1>4, <1>5, <1>6, <1>7, <1>8, <1>10, <1>11, <1>12 DEF Next

(* No step gives a caller a second item.                                   *)
LEMMA SingleItemStep ==
  TypeOK /\ OneFlush /\ Ownership /\ SingleItem /\ [Next]_vars => SingleItem'
<1> SUFFICES ASSUME TypeOK, OneFlush, Ownership, SingleItem, [Next]_vars PROVE SingleItem'
  OBVIOUS
<1>1. ASSUME NEW c \in Callers, NEW text \in Texts, Add(c, text) PROVE SingleItem'
  <2>1. \A i \in DOMAIN pending : pending[i].caller # c
    BY <1>1, AfterAdd DEF Ownership, Owned
  <2>2. \A f \in Flushers : \A i \in DOMAIN batch[f].items : batch[f].items[i].caller # c
    BY <1>1, AfterAdd DEF Ownership, Owned
  <2>3. \A i, j \in DOMAIN pending' : pending'[i].caller = pending'[j].caller => i = j
    BY <1>1, <2>1, AfterAdd DEF SingleItem
  <2>4. \A f \in Flushers : \A i \in DOMAIN batch[f].items : \A j \in DOMAIN pending' :
          batch[f].items[i].caller # pending'[j].caller
    BY <1>1, <2>2, AfterAdd DEF SingleItem
  <2> QED BY <1>1, <2>3, <2>4, AfterAdd DEF SingleItem
<1>2. ASSUME NEW f \in Flushers, TakeBucket(f), batch[f].items = <<>> PROVE SingleItem'
  <2>1. ASSUME NEW g \in Flushers, NEW i \in DOMAIN batch'[g].items,
               NEW h \in Flushers, NEW j \in DOMAIN batch'[h].items,
               batch'[g].items[i].caller = batch'[h].items[j].caller
        PROVE g = h /\ i = j
    BY <1>2, <2>1, AfterTake DEF SingleItem
  <2> QED BY <1>2, <2>1, AfterTake DEF SingleItem
<1>3. ASSUME NEW c \in Callers, CallerFlush(c) PROVE SingleItem'
  BY <1>2, <1>3 DEF CallerFlush, OneFlush, Flushers
<1>4. ASSUME NEW t \in Timers, TimerFlush(t) PROVE SingleItem'
  BY <1>2, <1>4 DEF TimerFlush, OneFlush, Flushers
<1>5. ASSUME NEW f \in Flushers, Deliver(f) PROVE SingleItem'
  <2> DEFINE from(g, i) == IF g = f THEN i + 1 ELSE i
  <2>1. pending' = pending
    BY <1>5 DEF Deliver
  <2>2. ASSUME NEW g \in Flushers, NEW i \in DOMAIN batch'[g].items
        PROVE from(g, i) \in DOMAIN batch[g].items
              /\ batch'[g].items[i] = batch[g].items[from(g, i)]
    BY <1>5, <2>2, AfterDelivery
  <2>3. ASSUME NEW g \in Flushers, NEW i \in DOMAIN batch'[g].items,
               NEW h \in Flushers, NEW j \in DOMAIN batch'[h].items,
               batch'[g].items[i].caller = batch'[h].items[j].caller
        PROVE g = h /\ i = j
    <3>1. g = h /\ from(g, i) = from(h, j)
      <4> HIDE DEF from
      <4> QED BY <2>2, <2>3 DEF SingleItem
    <3>2. CASE g = f
      BY <1>5, <2>3, <3>1, <3>2, AfterDelivery
    <3>3. CASE g # f
      BY <3>1, <3>3
    <3> QED BY <3>1, <3>2, <3>3
  <2>4. ASSUME NEW g \in Flushers, NEW i \in DOMAIN batch'[g].items, NEW j \in DOMAIN pending
        PROVE batch'[g].items[i].caller # pending[j].caller
    <3> HIDE DEF from
    <3> QED BY <2>2 DEF SingleItem
  <2> QED BY <2>1, <2>3, <2>4 DEF SingleItem
<1>6. ASSUME UNCHANGED pending, \A f \in Flushers : batch'[f].items = batch[f].items
      PROVE SingleItem'
  BY <1>6 DEF SingleItem
<1>7. ASSUME NEW f \in Flushers, EmbedReturns(f) PROVE SingleItem'
  <2>1. \A g \in Flushers : batch'[g].items = batch[g].items
    BY <1>7, AfterEmbed
  <2> QED BY <1>6, <1>7, <2>1, AfterEmbed
<1>8. ASSUME NEW c \in Callers, Stop(c) \/ Return(c) PROVE SingleItem'
  BY <1>6, <1>8 DEF Stop, Return
<1>9. ASSUME NEW t \in Timers, Fire(t) PROVE SingleItem'
  BY <1>6, <1>9 DEF Fire
<1>10. CASE UNCHANGED vars
  BY <1>6, <1>10 DEF vars
<1>11. ASSUME NEW f \in Flushers, Panic(f) PROVE SingleItem'
  BY <1>11 DEF Panic, NoBatch, SingleItem
<1> QED BY <1>1, <1>3, <1>4, <1>5, <1>7, <1>8, <1>9, <1>10, <1>11 DEF Next

(* No call of Add has two items and none is answered twice: an item, in     *)
(* the bucket or in a batch, belongs to a call without an answer, and has   *)
(* that call's text.                                                        *)
THEOREM ItemsAreOwned == Spec => [](Ownership /\ SingleItem)
<1>1. Init => Ownership /\ SingleItem
  BY DEF Init, Ownership, SingleItem, NoBatch
<1>2. TypeOK /\ OneFlush /\ Ownership /\ SingleItem /\ [Next]_vars => (Ownership /\ SingleItem)'
  BY OwnershipStep, SingleItemStep
<1> QED BY <1>1, <1>2, TypeCorrect, PTL DEF Spec

(* A call in progress is never lost: it is answered, or its item is in the  *)
(* bucket, or in the batch of a flusher.                                    *)
Kept ==
  \A c \in Callers : pc[c] # "idle" =>
    \/ mailbox[c] # NULL
    \/ \E i \in DOMAIN pending : pending[i].caller = c
    \/ \E f \in Flushers : \E i \in DOMAIN batch[f].items : batch[f].items[i].caller = c

(* What Append and Tail leave at the places of a sequence.                  *)
LEMMA AppendLemma ==
  ASSUME NEW S, NEW s \in Seq(S), NEW e \in S
  PROVE  /\ Len(s) + 1 \in DOMAIN Append(s, e) /\ Append(s, e)[Len(s) + 1] = e
         /\ \A i \in DOMAIN s : i \in DOMAIN Append(s, e) /\ Append(s, e)[i] = s[i]
OBVIOUS

(* The same of Tail.                                                        *)
LEMMA TailLemma ==
  ASSUME NEW S, NEW s \in Seq(S), s # <<>>, NEW i \in DOMAIN s, i # 1
  PROVE  i - 1 \in DOMAIN Tail(s) /\ Tail(s)[i - 1] = s[i]
OBVIOUS

(* No step loses a call: the bucket is emptied only into a batch with       *)
(* nothing in it, and an item leaves its batch with an answer.              *)
LEMMA KeptStep == TypeOK /\ OneFlush /\ Ownership /\ Kept /\ [Next]_vars => Kept'
<1> SUFFICES ASSUME TypeOK, OneFlush, Ownership, Kept, [Next]_vars PROVE Kept'
  OBVIOUS
<1>0. NULL \notin Answers
  BY BatcherConstants DEF Answers
<1>1. ASSUME NEW c \in Callers, NEW text \in Texts, Add(c, text) PROVE Kept'
  <2>1. [text |-> text, caller |-> c] \in Item
    BY DEF Item
  <2>2. pending' = Append(pending, [text |-> text, caller |-> c]) /\ UNCHANGED <<batch, mailbox>>
    BY <1>1 DEF Add
  <2>3. /\ Len(pending) + 1 \in DOMAIN pending' /\ pending'[Len(pending) + 1].caller = c
        /\ \A i \in DOMAIN pending : i \in DOMAIN pending' /\ pending'[i] = pending[i]
    BY <2>1, <2>2, AppendLemma DEF TypeOK
  <2>4. \A d \in Callers : d # c => pc'[d] = pc[d]
    BY <1>1, AfterAdd
  <2> QED BY <2>2, <2>3, <2>4 DEF Kept
<1>2. ASSUME NEW f \in Flushers, TakeBucket(f), batch[f].items = <<>>, UNCHANGED mailbox,
             \A c \in Callers : pc'[c] = "idle" <=> pc[c] = "idle"
      PROVE  Kept'
  <2> SUFFICES ASSUME NEW c \in Callers, pc'[c] # "idle", mailbox'[c] = NULL
               PROVE  \E g \in Flushers : \E i \in DOMAIN batch'[g].items :
                        batch'[g].items[i].caller = c
    BY DEF Kept
  <2>1. CASE \E i \in DOMAIN pending : pending[i].caller = c
    BY <1>2, <2>1, AfterTake
  <2>2. ASSUME NEW g \in Flushers, NEW i \in DOMAIN batch[g].items, batch[g].items[i].caller = c
        PROVE  \E h \in Flushers : \E j \in DOMAIN batch'[h].items :
                 batch'[h].items[j].caller = c
    <3>1. g # f
      BY <1>2, <2>2
    <3> QED BY <1>2, <2>2, <3>1, AfterTake
  <2> QED BY <1>2, <2>1, <2>2 DEF Kept
<1>3. ASSUME NEW c \in Callers, CallerFlush(c) PROVE Kept'
  BY <1>2, <1>3 DEF CallerFlush, OneFlush, Flushers, TypeOK
<1>4. ASSUME NEW t \in Timers, TimerFlush(t) PROVE Kept'
  BY <1>2, <1>4 DEF TimerFlush, OneFlush, Flushers
<1>5. ASSUME UNCHANGED <<pending, mailbox>>,
             \A f \in Flushers : batch'[f].items = batch[f].items,
             \A c \in Callers : pc'[c] # "idle" => pc[c] # "idle"
      PROVE  Kept'
  BY <1>5 DEF Kept
<1>6. ASSUME NEW f \in Flushers, EmbedReturns(f) PROVE Kept'
  <2>1. \A g \in Flushers : batch'[g].items = batch[g].items
    BY <1>6, AfterEmbed
  <2> QED BY <1>5, <1>6, <2>1, AfterEmbed
<1>7. ASSUME NEW f \in Flushers, Deliver(f) PROVE Kept'
  <2> DEFINE head == batch[f].items[1].caller
  <2>1. head \in Callers /\ UNCHANGED <<pc, pending>>
    BY <1>7, AfterDelivery, ItemTypes DEF Deliver
  <2>2. mailbox'[head] # NULL
    <3>1. mailbox' \in [Callers -> Answers \cup {NULL}] /\ mailbox'[head] = batch[f].answers[1]
      BY <1>7, <2>1, AfterDelivery, TypeStep DEF TypeOK
    <3>2. batch[f].answers \in Seq(Answers \cup {Absent}) /\ batch[f].answers # <<>>
      BY <1>7, ItemTypes DEF Deliver
    <3>3. batch[f].answers[1] \in Answers
      BY <1>7, <3>2 DEF Deliver
    <3> QED BY <1>0, <3>1, <3>3
  <2>3. \A c \in Callers : c # head => mailbox'[c] = mailbox[c]
    BY <1>7, AfterDelivery DEF TypeOK
  <2>4. ASSUME NEW c \in Callers, c # head, NEW g \in Flushers,
               NEW i \in DOMAIN batch[g].items, batch[g].items[i].caller = c
        PROVE  \E h \in Flushers : \E j \in DOMAIN batch'[h].items :
                 batch'[h].items[j].caller = c
    <3>1. CASE g = f
      <4>1. i # 1 /\ batch[f].items \in Seq(Item) /\ batch[f].items # <<>>
        BY <1>7, <2>4, <3>1, AfterDelivery, ItemTypes
      <4>2. batch'[f].items = Tail(batch[f].items)
        BY <1>7 DEF Deliver, TypeOK
      <4>3. i - 1 \in DOMAIN batch'[f].items /\ batch'[f].items[i - 1] = batch[f].items[i]
        BY <2>4, <3>1, <4>1, <4>2, TailLemma
      <4> QED BY <2>4, <3>1, <4>3
    <3>2. CASE g # f
      BY <1>7, <2>4, <3>2, AfterDelivery
    <3> QED BY <3>1, <3>2
  <2> HIDE DEF head
  <2> QED BY <2>1, <2>2, <2>3, <2>4 DEF Kept
<1>8. ASSUME NEW c \in Callers, Return(c) PROVE Kept'
  <2>1. /\ pc'[c] = "idle" /\ UNCHANGED <<pending, batch>>
        /\ \A d \in Callers : d # c => pc'[d] = pc[d] /\ mailbox'[d] = mailbox[d]
    BY <1>8 DEF Return, TypeOK
  <2> QED BY <2>1 DEF Kept
<1>9. ASSUME NEW f \in Flushers, Panic(f) PROVE Kept'
  BY <1>9 DEF Panic, Kept
<1>10. ASSUME NEW c \in Callers, Stop(c) PROVE Kept'
  BY <1>5, <1>10 DEF Stop, TypeOK
<1>11. ASSUME NEW t \in Timers, Fire(t) PROVE Kept'
  BY <1>5, <1>11 DEF Fire
<1>12. CASE UNCHANGED vars
  BY <1>5, <1>12 DEF vars
<1> QED BY <1>1, <1>3, <1>4, <1>6, <1>7, <1>8, <1>9, <1>10, <1>11, <1>12 DEF Next

(* The call in progress of each caller is in one place at every moment:     *)
(* answered, in the bucket or in one batch, and nowhere twice.              *)
THEOREM CallsInOnePlace == Spec => []OnePlace
<1>1. Init => Kept
  BY DEF Init, Kept
<1>2. Kept /\ SingleItem => OnePlace
  BY DEF Kept, OnePlace
<1> QED BY <1>1, <1>2, KeptStep, TypeCorrect, ItemsAreOwned, PTL DEF Spec

(* The batcher implements EmbedCalls: whatever the interleaving of callers, *)
(* timers and batches, each call of Add gets one answer, the vector of its  *)
(* own text or an error.  (That the answer comes is left to TLC.)           *)
THEOREM ImplementsCalls == Spec => EC!CallSafety
<1>1. Init => EC!CallInit
  BY DEF Init, EC!CallInit
<1>2. TypeOK /\ OneFlush /\ Ownership /\ [Next]_vars => [EC!CallNext]_(EC!callVars)
  <2> SUFFICES ASSUME TypeOK, OneFlush, Ownership, [Next]_vars
               PROVE [EC!CallNext]_(EC!callVars)
    OBVIOUS
  <2>0. NULL \notin Answers /\ NULL \notin Texts
    BY BatcherConstants DEF Answers
  <2>1. ASSUME NEW c \in Callers, NEW text \in Texts, Add(c, text) PROVE EC!CallNext
    <3>1. EC!Call(c, text)
      BY <2>1 DEF Add, EC!Call, Ownership
    <3> QED BY <3>1 DEF EC!CallNext
  <2>2. ASSUME NEW f \in Flushers, Deliver(f) PROVE EC!CallNext
    <3> DEFINE head == batch[f].items[1]
    <3>1. head.caller \in Callers /\ Owned(head) /\ head.text \in Texts
      BY <2>2, AfterDelivery, ItemTypes DEF Ownership
    <3>2. batch[f].answers[1] \in {head.text, Error}
      <4>1. batch[f].answers[1] \in {head.text, Error, Absent}
        BY <2>2, AfterDelivery DEF Ownership
      <4>2. batch[f].answers \in Seq(Answers \cup {Absent}) /\ batch[f].answers # <<>>
        BY <2>2, ItemTypes DEF Deliver
      <4>3. batch[f].answers[1] # Absent
        BY <2>2, <4>2 DEF Deliver
      <4> QED BY <4>1, <4>3
    <3>3. EC!Answer(head.caller)
      <4>1. mailbox' = [mailbox EXCEPT ![head.caller] = batch[f].answers[1]]
        BY <2>2, AfterDelivery
      <4>2. arg[head.caller] = head.text /\ arg[head.caller] # NULL
            /\ mailbox[head.caller] = NULL
        BY <2>0, <3>1 DEF Owned
      <4>3. batch[f].answers[1] \in [text \in Texts |-> {text, Error}][arg[head.caller]]
        BY <3>1, <3>2, <4>2
      <4>4. UNCHANGED arg
        BY <2>2 DEF Deliver
      <4> HIDE DEF head
      <4> QED BY <4>1, <4>2, <4>3, <4>4 DEF EC!Answer
    <3> QED BY <3>1, <3>3 DEF EC!CallNext
  <2>3. ASSUME NEW c \in Callers, Return(c) PROVE EC!CallNext
    <3>1. EC!Return(c)
      BY <2>3 DEF Return, EC!Return, Ownership
    <3> QED BY <3>1 DEF EC!CallNext
  <2>4. CASE UNCHANGED <<arg, mailbox>>
    BY <2>4 DEF EC!callVars
  <2>5. ASSUME NEW f \in Flushers, Panic(f) PROVE EC!CallNext
    BY <2>5 DEF Panic, EC!Crash, EC!CallNext
  <2> QED BY <2>1, <2>2, <2>3, <2>4, <2>5
          DEF Next, vars, Stop, CallerFlush, Fire, TimerFlush, EmbedReturns
<1> QED BY <1>1, <1>2, TypeCorrect, ItemsAreOwned, PTL DEF Spec, EC!CallSafety
=============================================================================
