----------------------------- MODULE EmbedClient ------------------------------
(***************************************************************************)
(* internal/embed/client.go: EmbedBatch, called by several goroutines that *)
(* share one rate limiter, with its retries and its backoff.               *)
(*                                                                         *)
(* A vector is identified with its text, so a good answer to a batch is    *)
(* the batch itself.  Time is counted per call, from the first request on, *)
(* in a unit that the constants choose, and without the waits for the      *)
(* limiter.  An empty batch, which EmbedBatch answers at once, is not      *)
(* modelled.                                                               *)
(***************************************************************************)
EXTENDS Integers, SequencesExt, Vectors

CONSTANTS
  Calls,        \* goroutines that call EmbedBatch
  Texts,
  Batches,      \* the batches of texts that are asked for
  Cancellable,  \* calls whose context can be cancelled (not the batcher's)
  Error,
  NULL,         \* no answer yet; in an answer: a nil vector; in the limiter:
                \* the turn of a call that has given up
  Burst,        \* burst of the rate limiter (10)
  MaxAttempts,  \* 5
  BaseDelay,    \* 1 s
  MaxJitter,    \* 200 ms, the bound of the random part of a delay
  HttpTimeout   \* 30 s

ASSUME ClientConstants ==
  /\ Batches \subseteq Seq(Texts) \ {<<>>}
  /\ Cancellable \subseteq Calls
  /\ NULL \notin Batches \cup Seq(Texts \cup {NULL}) \cup {Error} \cup Calls
  /\ Burst \in Nat \ {0} /\ MaxAttempts \in Nat \ {0}
  /\ BaseDelay \in Nat /\ MaxJitter \in Nat /\ HttpTimeout \in Nat

VARIABLES
  tokens,     \* tokens in the limiter
  waiting,    \* the reservations, in the order of their turns
  pc,         \* where each call is
  arg,        \* its batch, NULL for none
  attempt,    \* attempts that have failed
  answer,     \* what it returns
  cancelled,  \* calls whose context is done
  spent,      \* time since the first request
  ahead       \* ghost: requests sent beyond those the refills allowed for

vars == <<tokens, waiting, pc, arg, attempt, answer, cancelled, spent, ahead>>

(* Type correctness of the whole state. *)
TypeOK ==
  /\ tokens \in 0..Burst
  /\ waiting \in Seq(Calls \cup {NULL})
  /\ pc \in [Calls -> {"idle", "wait", "request", "backoff", "done"}]
  /\ arg \in [Calls -> Batches \cup {NULL}]
  /\ attempt \in [Calls -> 0..MaxAttempts]
  /\ answer \in [Calls -> Seq(Texts \cup {NULL}) \cup {Error, NULL}]
  /\ cancelled \subseteq Cancellable
  /\ spent \in [Calls -> Nat]
  /\ ahead \in Nat

Init ==
  /\ tokens = Burst
  /\ waiting = <<>>
  /\ pc = [c \in Calls |-> "idle"]
  /\ arg = [c \in Calls |-> NULL]
  /\ attempt = [c \in Calls |-> 0]
  /\ answer = [c \in Calls |-> NULL]
  /\ cancelled = {}
  /\ spent = [c \in Calls |-> 0]
  /\ ahead = 0

-----------------------------------------------------------------------------
(* The rate limiter of golang.org/x/time/rate: calls wait in turn.         *)
Refill ==
  /\ tokens < Burst
  /\ tokens' = tokens + 1
  /\ ahead' = IF ahead > 0 THEN ahead - 1 ELSE 0
  /\ UNCHANGED <<waiting, pc, arg, attempt, answer, cancelled, spent>>

Take(c) ==
  /\ waiting # <<>> /\ Head(waiting) = c
  /\ tokens > 0
  /\ tokens' = tokens - 1
  /\ waiting' = Tail(waiting)

(* The turn of a call that has given up comes: its token is lost.          *)
Waste ==
  /\ Take(NULL)
  /\ UNCHANGED <<pc, arg, attempt, answer, cancelled, spent, ahead>>

(* A call gives up: its token is there for others only when it reserved    *)
(* last and its turn has not come.                                         *)
LeaveQueue(c) ==
  IF pc[c] = "wait"
    THEN \E i \in DOMAIN waiting :
           /\ waiting[i] = c
           /\ waiting' = IF i = Len(waiting) /\ i > tokens
                           THEN Front(waiting) ELSE [waiting EXCEPT ![i] = NULL]
    ELSE UNCHANGED waiting

-----------------------------------------------------------------------------
EmbedBatch(c, batch) ==
  /\ pc[c] = "idle"
  /\ pc' = [pc EXCEPT ![c] = "wait"]
  /\ arg' = [arg EXCEPT ![c] = batch]
  /\ waiting' = Append(waiting, c)
  /\ UNCHANGED <<tokens, attempt, answer, cancelled, spent, ahead>>

(* limiter.Wait returns and doRequest sends the request; with a context    *)
(* that is done by then nothing is sent.                                   *)
Send(c) ==
  /\ pc[c] = "wait"
  /\ Take(c)
  /\ pc' = [pc EXCEPT ![c] = "request"]
  /\ ahead' = IF c \in cancelled THEN ahead ELSE ahead + 1
  /\ UNCHANGED <<arg, attempt, answer, cancelled, spent>>

(* Mutant: the vectors are appended in the order of the response. *)
PlacedAsListed(batch, listing) == [k \in DOMAIN listing |-> batch[listing[k]]]

(* The response lists items of a batch as the API likes, each with its     *)
(* index; the vectors are put where the indices say, in a list as long as  *)
(* that of the response.                                                   *)
Placed(batch, listing) ==
  [i \in DOMAIN listing |->
     IF \E k \in DOMAIN listing : listing[k] = i THEN batch[i] ELSE NULL]

(* No item twice, perhaps none: a body without data is JSON too.           *)
Listings(batch) == UNION {Injection(1..m, DOMAIN batch) : m \in 0..Len(batch)}

Finish(c, a) ==
  /\ answer' = [answer EXCEPT ![c] = a]
  /\ pc' = [pc EXCEPT ![c] = "done"]

Succeed(c) ==
  /\ pc[c] = "request" /\ c \notin cancelled
  /\ \E listing \in Listings(arg[c]) : Finish(c, Placed(arg[c], listing))
  /\ UNCHANGED <<tokens, waiting, arg, attempt, cancelled, spent, ahead>>

(* Any status but 200, 429 and 5xx, or a body that is not JSON. *)
Refuse(c) ==
  /\ pc[c] = "request" /\ c \notin cancelled
  /\ Finish(c, Error)
  /\ UNCHANGED <<tokens, waiting, arg, attempt, cancelled, spent, ahead>>

(* 429, 5xx, or no response: at once, or after the timeout of the client. *)
FailOnce(c) ==
  /\ pc[c] = "request"
  /\ \E seconds \in {0, HttpTimeout} : spent' = [spent EXCEPT ![c] = @ + seconds]
  /\ pc' = [pc EXCEPT ![c] = "backoff"]
  /\ UNCHANGED <<tokens, waiting, arg, attempt, answer, cancelled, ahead>>

(* Mutant: a shift by the number of the next attempt. *)
DelaysDoubled(c) == {BaseDelay * 2^(attempt[c] + 1) + jitter : jitter \in 0..MaxJitter}

Delays(c) == {BaseDelay * 2^attempt[c] + jitter : jitter \in 0..MaxJitter}

(* Mutant: one attempt too many. *)
LastAttemptOneMore(c) == attempt[c] + 1 > MaxAttempts

LastAttempt(c) == attempt[c] + 1 >= MaxAttempts

(* Mutant: the limiter is asked once, before the loop. *)
AgainUnlimited(c) ==
  /\ pc' = [pc EXCEPT ![c] = "request"]
  /\ ahead' = ahead + 1
  /\ UNCHANGED waiting

(* The loop begins anew: limiter.Wait. *)
Again(c) ==
  /\ pc' = [pc EXCEPT ![c] = "wait"]
  /\ waiting' = Append(waiting, c)
  /\ UNCHANGED ahead

(* The delay of a failed attempt ends, the last one's too; the limiter     *)
(* returns at once when the context is done.                               *)
Retry(c) ==
  /\ pc[c] = "backoff"
  /\ \E delay \in Delays(c) : spent' = [spent EXCEPT ![c] = @ + delay]
  /\ attempt' = [attempt EXCEPT ![c] = @ + 1]
  /\ IF LastAttempt(c) \/ c \in cancelled
       THEN Finish(c, Error) /\ UNCHANGED <<waiting, ahead>>
       ELSE Again(c) /\ UNCHANGED answer
  /\ UNCHANGED <<tokens, arg, cancelled>>

(* The context of a call is done: it may pass the select of the limiter or *)
(* of the backoff once more, but returns its error sooner or later.        *)
Cancel(c) ==
  /\ c \in Cancellable \ cancelled
  /\ pc[c] \notin {"idle", "done"}
  /\ cancelled' = cancelled \cup {c}
  /\ UNCHANGED <<tokens, waiting, pc, arg, attempt, answer, spent, ahead>>

GiveUp(c) ==
  /\ c \in cancelled
  /\ pc[c] \in {"wait", "backoff"}
  /\ Finish(c, Error)
  /\ LeaveQueue(c)
  /\ UNCHANGED <<tokens, arg, attempt, cancelled, spent, ahead>>

Return(c) ==
  /\ pc[c] = "done"
  /\ pc' = [pc EXCEPT ![c] = "idle"]
  /\ arg' = [arg EXCEPT ![c] = NULL]
  /\ answer' = [answer EXCEPT ![c] = NULL]
  /\ attempt' = [attempt EXCEPT ![c] = 0]
  /\ spent' = [spent EXCEPT ![c] = 0]
  /\ cancelled' = cancelled \ {c}
  /\ UNCHANGED <<tokens, waiting, ahead>>

-----------------------------------------------------------------------------
Step(c) ==
  \/ Send(c) \/ Succeed(c) \/ Refuse(c) \/ FailOnce(c)
  \/ Retry(c) \/ GiveUp(c) \/ Return(c)

Next ==
  \/ Refill \/ Waste
  \/ \E c \in Calls : (\E batch \in Batches : EmbedBatch(c, batch)) \/ Cancel(c) \/ Step(c)

Spec == Init /\ [][Next]_vars

(* Time passes: the limiter refills and turns come, requests end at the    *)
(* latest with their timeout, and so do delays.                            *)
Fairness == WF_vars(Refill) /\ WF_vars(Waste) /\ \A c \in Calls : WF_vars(Step(c))

FairSpec == Spec /\ Fairness

-----------------------------------------------------------------------------
(* Whatever the calls do, retries included, one client sends at most a     *)
(* burst of requests beyond one per refill.  Every process has a client of *)
(* its own: the bound is not one of the API key, which they share.         *)
RateBound == ahead + tokens <= Burst

(* Five attempts of thirty seconds, the delays of one, two, four, eight    *)
(* and sixteen, and five times the jitter: a call that need not wait for   *)
(* the limiter takes no longer.                                            *)
DurationBound ==
  \A c \in Calls :
    spent[c] <= MaxAttempts * (HttpTimeout + MaxJitter) + BaseDelay * (2^MaxAttempts - 1)

(* A call gets one answer, vectors of its own texts, each at the place of  *)
(* its text, or an error, and returns, whatever the API answers: this is   *)
(* what Batcher assumes of EmbedBatch.                                     *)
EC == INSTANCE EmbedCalls WITH
        Callers <- Calls, Texts <- Batches,
        Replies <- [batch \in Batches |-> VectorsOf(batch, NULL) \cup {Error}]
ImplementsEmbedCalls == EC!CallSpec
=============================================================================
