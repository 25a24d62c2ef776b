------------------------------- MODULE Requests -------------------------------
(***************************************************************************)
(* What the HTTP API promises of a request.  A request takes effect in a   *)
(* fixed number of steps, calls on the table and the queue, in order and   *)
(* at most once each, all for the tenant of its token.  It is answered     *)
(* once: "done" after all of its steps, "refused" if none of them was or   *)
(* will be taken, and "error" or "cut", a lost connection, at any time;    *)
(* after these two, steps may still be taken.                              *)
(***************************************************************************)
EXTENDS Naturals, Sequences

CONSTANTS Requests, Tenants, NULL

VARIABLES
  asked,     \* tenant and steps of a request, NULL before it is made
  effects,   \* for whom each step was taken
  reply      \* what the client has got, NULL for nothing yet

requestVars == <<asked, effects, reply>>

RequestInit ==
  /\ asked = [r \in Requests |-> NULL]
  /\ effects = [r \in Requests |-> <<>>]
  /\ reply = [r \in Requests |-> NULL]

(* A request without a valid token has no tenant, hence no effect. *)
Ask(r, tenant, steps) ==
  /\ asked[r] = NULL
  /\ asked' = [asked EXCEPT ![r] = [tenant |-> tenant, steps |-> steps]]
  /\ UNCHANGED <<effects, reply>>

Effect(r) ==
  /\ asked[r] # NULL /\ asked[r].tenant \in Tenants
  /\ reply[r] # "refused"
  /\ Len(effects[r]) < asked[r].steps
  /\ effects' = [effects EXCEPT ![r] = Append(@, asked[r].tenant)]
  /\ UNCHANGED <<asked, reply>>

Reply(r) ==
  /\ asked[r] # NULL /\ reply[r] = NULL
  /\ \E answer \in {"done", "refused", "error", "cut"} :
       /\ answer = "done" => Len(effects[r]) = asked[r].steps
       /\ answer = "refused" => effects[r] = <<>>
       /\ reply' = [reply EXCEPT ![r] = answer]
  /\ UNCHANGED <<asked, effects>>

(* The connections of several requests are lost at once. *)
Cut(rs) ==
  /\ \A r \in rs : asked[r] # NULL /\ reply[r] = NULL
  /\ reply' = [r \in Requests |-> IF r \in rs THEN "cut" ELSE reply[r]]
  /\ UNCHANGED <<asked, effects>>

RequestNext ==
  \/ \E r \in Requests :
       \/ \E tenant \in Tenants \cup {NULL}, steps \in {1, 2} : Ask(r, tenant, steps)
       \/ Effect(r)
       \/ Reply(r)
  \/ \E rs \in SUBSET Requests : Cut(rs)

RequestSafety == RequestInit /\ [][RequestNext]_requestVars

RequestSpec == RequestSafety /\ \A r \in Requests : WF_requestVars(Reply(r))
=============================================================================
