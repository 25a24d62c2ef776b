------------------------------ MODULE EmbedCalls ------------------------------
(***************************************************************************)
(* What the batcher and the client promise to the goroutines of a worker:  *)
(* every call gets one answer, one that its text may get, and returns,     *)
(* unless the process dies with all its calls.                             *)
(***************************************************************************)
CONSTANTS
  Callers, Texts,
  Replies,   \* the answers that the call of a text may get
  NULL

VARIABLES
  arg,      \* the text of the call in progress, NULL for none
  answer    \* its answer, NULL until there is one

callVars == <<arg, answer>>

CallInit ==
  /\ arg = [c \in Callers |-> NULL]
  /\ answer = [c \in Callers |-> NULL]

Call(c, text) ==
  /\ arg[c] = NULL
  /\ arg' = [arg EXCEPT ![c] = text]
  /\ UNCHANGED answer

Answer(c) ==
  /\ arg[c] # NULL /\ answer[c] = NULL
  /\ \E a \in Replies[arg[c]] : answer' = [answer EXCEPT ![c] = a]
  /\ UNCHANGED arg

Return(c) ==
  /\ arg[c] # NULL /\ answer[c] # NULL
  /\ arg' = [arg EXCEPT ![c] = NULL]
  /\ answer' = [answer EXCEPT ![c] = NULL]

Crash ==
  /\ arg' = [c \in Callers |-> NULL]
  /\ answer' = [c \in Callers |-> NULL]

CallNext ==
  \/ \E c \in Callers : (\E text \in Texts : Call(c, text)) \/ Answer(c) \/ Return(c)
  \/ Crash

CallSafety == CallInit /\ [][CallNext]_callVars

CallSpec ==
  CallSafety /\ \A c \in Callers : WF_callVars(Answer(c)) /\ WF_callVars(Return(c))
=============================================================================
