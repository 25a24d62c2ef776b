------------------------------- MODULE Delivery --------------------------------
(***************************************************************************)
(* What a worker pod promises to the queue and to Kubernetes: it holds     *)
(* what it has received, until it deletes it or leaves it to the           *)
(* visibility timeout; once it has been told to stop it takes and deletes  *)
(* nothing more, and it stops with nothing in its hands.                   *)
(***************************************************************************)
CONSTANT Messages

VARIABLES
  phase,   \* running, told to stop, or stopped
  held,    \* messages the pod has received and works on
  done     \* messages it has deleted

podVars == <<phase, held, done>>

PodInit == phase = "running" /\ held = {} /\ done = {}

Take(ms) ==
  /\ phase = "running"
  /\ ms \cap (held \cup done) = {}
  /\ held' = held \cup ms
  /\ UNCHANGED <<phase, done>>

Finish(m) ==
  /\ phase = "running" /\ m \in held
  /\ held' = held \ {m}
  /\ done' = done \cup {m}
  /\ UNCHANGED phase

PutBack(m) ==
  /\ m \in held
  /\ held' = held \ {m}
  /\ UNCHANGED <<phase, done>>

Tell ==
  /\ phase = "running"
  /\ phase' = "stopping"
  /\ UNCHANGED <<held, done>>

Stop ==
  /\ phase = "stopping"
  /\ phase' = "stopped"
  /\ held' = {}
  /\ UNCHANGED done

PodNext ==
  \/ \E ms \in SUBSET Messages : Take(ms)
  \/ \E m \in Messages : Finish(m) \/ PutBack(m)
  \/ Tell \/ Stop

PodSafety == PodInit /\ [][PodNext]_podVars

PodSpec ==
  /\ PodSafety
  /\ WF_podVars(Stop)
  /\ \A m \in Messages : WF_podVars(Finish(m) \/ PutBack(m))
=============================================================================
