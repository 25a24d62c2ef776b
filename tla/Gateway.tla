-------------------------------- MODULE Gateway --------------------------------
(***************************************************************************)
(* HTTP requests on their way through the gateway to a handler of the      *)
(* ingest or search service: authentication at the edge and again in the   *)
(* service, the context of the request, which ends with its connection,    *)
(* and the shutdown of either side.                                        *)
(*                                                                         *)
(* A handler is seen as its calls on the table and the queue; what they do *)
(* there is in IngestPipeline and Search.  One pod stands for each         *)
(* service; a request is made once.                                        *)
(***************************************************************************)
EXTENDS Naturals, Sequences

CONSTANTS
  Requests,
  Tokens,     \* tokens signed with the secret of the services
  Tenants,
  Claims,     \* the tenant a token was issued for
  Asks,       \* what each request may ask for, with which token
  NULL        \* no token or one that does not verify, no answer

Ops == {"post", "get", "delete", "search"}
Ask == [op : Ops, token : Tokens \cup {NULL}]

ASSUME GatewayConstants ==
  /\ Claims \in [Tokens -> Tenants]
  /\ Asks \in [Requests -> SUBSET Ask]
  /\ NULL \notin Ask \cup Tokens \cup Tenants \cup {"done", "refused", "error", "cut"}
  /\ NULL \notin [tenant : Tenants \cup {NULL}, steps : {1, 2}]

Service(op) == IF op = "search" THEN "search" ELSE "ingest"
Services == {Service(a.op) : a \in UNION {Asks[r] : r \in Requests}}

(* The calls of a handler: the row and then the job of a post, one call    *)
(* for the others (of a search, what reads its results).                   *)
Steps(op) == IF op = "post" THEN 2 ELSE 1

VARIABLES
  gateway,    \* the process of the gateway
  server,     \* the process of each service
  ask,        \* what a request asks for
  edge,       \* where its HTTP handler is
  wire,       \* the token in the metadata of its RPC
  rpc,        \* where its RPC is
  issued,     \* calls its service handler has made
  effects,    \* those that were executed, each with its tenant
  seen,       \* what its client has got
  cancelled,  \* requests whose context is done
  failed      \* requests with a failed call, or in a pod that was killed

requestState == <<ask, edge, wire, rpc, issued, effects, seen, cancelled, failed>>
vars == <<gateway, server, requestState>>

Answers == {"done", "refused", "error"}
Open == {"auth", "handle", "wait"} \cup Answers
Handling == {"run", "call"}

(* Type correctness of the whole state. *)
TypeOK ==
  /\ gateway \in {"serving", "stopping", "exited"}
  /\ server \in [Services -> {"serving", "draining", "exited"}]
  /\ ask \in [Requests -> Ask \cup {NULL}]
  /\ edge \in [Requests -> Open \cup {"idle", "closed"}]
  /\ wire \in [Requests -> Tokens \cup {NULL}]
  /\ rpc \in [Requests -> Handling \cup {"none", "sent", "ok", "error"}]
  /\ issued \in [Requests -> 0..2]
  /\ effects \in [Requests -> Seq(Tenants)]
  /\ seen \in [Requests -> Answers \cup {"cut", NULL}]
  /\ cancelled \subseteq Requests /\ failed \subseteq Requests
  /\ \A r \in Requests : /\ edge[r] # "idle" => ask[r] \in Asks[r]
                         /\ rpc[r] \in Handling => wire[r] \in Tokens

Init ==
  /\ gateway = "serving"
  /\ server = [s \in Services |-> "serving"]
  /\ ask = [r \in Requests |-> NULL]
  /\ edge = [r \in Requests |-> "idle"]
  /\ wire = [r \in Requests |-> NULL]
  /\ rpc = [r \in Requests |-> "none"]
  /\ issued = [r \in Requests |-> 0]
  /\ effects = [r \in Requests |-> <<>>]
  /\ seen = [r \in Requests |-> NULL]
  /\ cancelled = {} /\ failed = {}

-----------------------------------------------------------------------------
(* Mutant: the error of the parser is dropped. *)
VerdictsDropped(t) == {TRUE}

(* What ParseToken may say of a token: a signed one expires sooner or      *)
(* later, perhaps between its two checks.                                  *)
Verdicts(t) == IF t \in Tokens THEN BOOLEAN ELSE {FALSE}

Processes == <<gateway, server>>

(* Edges and RPCs move from place to place; the rest of a request stays.   *)
EdgeTo(r, place) ==
  /\ edge' = [edge EXCEPT ![r] = place]
  /\ UNCHANGED <<Processes, ask, issued, effects, failed>>

RpcTo(r, place) ==
  /\ rpc' = [rpc EXCEPT ![r] = place]
  /\ UNCHANGED <<Processes, ask, edge, wire, effects, seen, cancelled>>

-----------------------------------------------------------------------------
(* The gateway.                                                            *)

Arrive(r, a) ==
  /\ gateway = "serving"
  /\ edge[r] = "idle"
  /\ edge' = [edge EXCEPT ![r] = "auth"]
  /\ ask' = [ask EXCEPT ![r] = a]
  /\ UNCHANGED <<Processes, wire, rpc, issued, effects, seen, cancelled, failed>>

(* authMiddleware: 401, or on to the handler. *)
Authenticate(r) ==
  /\ edge[r] = "auth"
  /\ \E valid \in Verdicts(ask[r].token) : EdgeTo(r, IF valid THEN "handle" ELSE "refused")
  /\ UNCHANGED <<wire, rpc, seen, cancelled>>

(* 400: a body that is no JSON, a search without a query. *)
BadRequest(r) ==
  /\ edge[r] = "handle" /\ ask[r].op \in {"post", "search"}
  /\ EdgeTo(r, "refused")
  /\ UNCHANGED <<wire, rpc, seen, cancelled>>

(* Mutant: the token is kept in the gateway, not in the request. *)
ForwardedOfAny(r) == CHOOSE t \in Tokens : TRUE

(* grpcCtx: the token that was put in the context of the request. *)
Forwarded(r) == ask[r].token

Call(r) ==
  /\ edge[r] = "handle"
  /\ EdgeTo(r, "wait")
  /\ wire' = [wire EXCEPT ![r] = Forwarded(r)]
  /\ rpc' = [rpc EXCEPT ![r] = "sent"]
  /\ UNCHANGED <<seen, cancelled>>

(* Mutant: no return after writeGRPCError. *)
OutcomeAccepted(r) == "done"

(* Any error of the RPC is answered with 500. *)
Outcome(r) == IF rpc[r] = "ok" THEN "done" ELSE "error"

StubReturns(r) ==
  /\ edge[r] = "wait" /\ rpc[r] \in {"ok", "error"}
  /\ EdgeTo(r, Outcome(r))
  /\ UNCHANGED <<wire, rpc, seen, cancelled>>

(* The context of the request is done, or main has closed the connection   *)
(* to the service on its way out: the RPC is given up, on the other side   *)
(* its context is done.                                                    *)
StubFails(r) ==
  /\ edge[r] = "wait"
  /\ r \in cancelled \/ gateway = "stopping"
  /\ EdgeTo(r, "error")
  /\ cancelled' = cancelled \cup {r}
  /\ UNCHANGED <<wire, rpc, seen>>

(* The answer is written, and reaches the client unless the write timeout  *)
(* is over or the client has gone.                                         *)
Respond(r) ==
  /\ edge[r] \in Answers
  /\ EdgeTo(r, "closed")
  /\ \E got \in {edge[r], "cut"} :
       seen' = [seen EXCEPT ![r] = IF @ = NULL THEN got ELSE @]
  /\ UNCHANGED <<wire, rpc, cancelled>>

(* The connection is lost: net/http cancels the context of the request. *)
ClientLeaves(r) ==
  /\ edge[r] \in Open /\ seen[r] = NULL
  /\ seen' = [seen EXCEPT ![r] = "cut"]
  /\ cancelled' = cancelled \cup {r}
  /\ UNCHANGED <<Processes, ask, edge, wire, rpc, issued, effects, failed>>

(* SIGTERM: Shutdown closes the listener, ListenAndServe returns at once. *)
GatewayTerm ==
  /\ gateway = "serving"
  /\ gateway' = "stopping"
  /\ UNCHANGED <<server, requestState>>

(* main returns: the requests in progress are cut. *)
GatewayExit ==
  /\ gateway = "stopping"
  /\ gateway' = "exited"
  /\ edge' = [r \in Requests |-> IF edge[r] \in Open THEN "closed" ELSE edge[r]]
  /\ seen' = [r \in Requests |->
                IF edge[r] \in Open /\ seen[r] = NULL THEN "cut" ELSE seen[r]]
  /\ cancelled' = cancelled \cup {r \in Requests : edge[r] \in Open}
  /\ UNCHANGED <<server, ask, wire, rpc, issued, effects, failed>>

(* The next pod. *)
GatewayStart ==
  /\ gateway = "exited"
  /\ gateway' = "serving"
  /\ UNCHANGED <<server, requestState>>

-----------------------------------------------------------------------------
(* A service.                                                              *)
ServerOf(r) == server[Service(ask[r].op)]

(* UnaryInterceptor: the token is verified again, it may have expired.     *)
Intercept(r) ==
  /\ rpc[r] = "sent" /\ ServerOf(r) = "serving"
  /\ \E valid \in Verdicts(wire[r]) : RpcTo(r, IF valid THEN "run" ELSE "error")
  /\ UNCHANGED <<issued, failed>>

(* A pod that drains or is gone takes no RPC; one given up may not arrive. *)
Refused(r) ==
  /\ rpc[r] = "sent" /\ (ServerOf(r) # "serving" \/ r \in cancelled)
  /\ RpcTo(r, "error")
  /\ UNCHANGED <<issued, failed>>

(* Before any call: the request is not valid, or its query is not          *)
(* embedded.  Later: the context is done and the next call is not made.    *)
Reject(r) ==
  /\ rpc[r] = "run" /\ (issued[r] = 0 \/ r \in cancelled)
  /\ RpcTo(r, "error")
  /\ UNCHANGED <<issued, failed>>

Issue(r) ==
  /\ rpc[r] = "run" /\ r \notin cancelled
  /\ RpcTo(r, "call")
  /\ issued' = [issued EXCEPT ![r] = @ + 1]
  /\ UNCHANGED failed

(* The store executes the call, perhaps long after the handler gave it up. *)
Execute(r) ==
  /\ Len(effects[r]) < issued[r]
  /\ effects' = [effects EXCEPT ![r] = Append(@, Claims[wire[r]])]
  /\ UNCHANGED <<Processes, ask, edge, wire, rpc, issued, seen, cancelled, failed>>

CallReturns(r) ==
  /\ rpc[r] = "call" /\ Len(effects[r]) = issued[r]
  /\ RpcTo(r, IF issued[r] = Steps(ask[r].op) THEN "ok" ELSE "run")
  /\ UNCHANGED <<issued, failed>>

(* The call fails, or its answer is lost: the handler returns the error.   *)
CallFails(r) ==
  /\ rpc[r] = "call"
  /\ RpcTo(r, "error")
  /\ failed' = IF r \in cancelled THEN failed ELSE failed \cup {r}
  /\ UNCHANGED issued

Running(s) == {r \in Requests : rpc[r] \in Handling /\ Service(ask[r].op) = s}

ServerTo(s, state) ==
  /\ server' = [server EXCEPT ![s] = state]
  /\ UNCHANGED <<gateway, ask, edge, wire, issued, effects, seen, cancelled>>

(* SIGTERM: GracefulStop refuses what is new. *)
ServerTerm(s) ==
  /\ server[s] = "serving"
  /\ ServerTo(s, "draining")
  /\ UNCHANGED <<rpc, failed>>

(* Mutant: Stop instead of GracefulStop. *)
ServerExitAtOnce(s) ==
  /\ server[s] = "draining"
  /\ ServerTo(s, "exited")
  /\ rpc' = [r \in Requests |-> IF r \in Running(s) THEN "error" ELSE rpc[r]]
  /\ UNCHANGED <<failed>>

(* Mutant: the stop also waits for the connection of the gateway. *)
ServerExitAfterGateway(s) ==
  /\ server[s] = "draining" /\ Running(s) = {} /\ gateway = "exited"
  /\ ServerTo(s, "exited")
  /\ UNCHANGED <<rpc, failed>>

(* GracefulStop has waited for every handler, Serve and main return. *)
ServerExit(s) ==
  /\ server[s] = "draining" /\ Running(s) = {}
  /\ ServerTo(s, "exited")
  /\ UNCHANGED <<rpc, failed>>

(* The pod dies, or its grace period is over: the handlers end with it.    *)
ServerKilled(s) ==
  /\ server[s] # "exited"
  /\ ServerTo(s, "exited")
  /\ rpc' = [r \in Requests |-> IF r \in Running(s) THEN "error" ELSE rpc[r]]
  /\ failed' = failed \cup Running(s)

ServerStart(s) ==
  /\ server[s] = "exited"
  /\ ServerTo(s, "serving")
  /\ UNCHANGED <<rpc, failed>>

-----------------------------------------------------------------------------
EdgeStep(r) ==
  \/ Authenticate(r) \/ BadRequest(r) \/ Call(r)
  \/ StubReturns(r) \/ StubFails(r) \/ Respond(r)

HandlerStep(r) ==
  \/ Intercept(r) \/ Refused(r) \/ Reject(r) \/ Issue(r)
  \/ CallReturns(r) \/ CallFails(r)

Next ==
  \/ \E r \in Requests :
       \/ \E a \in Asks[r] : Arrive(r, a)
       \/ EdgeStep(r) \/ ClientLeaves(r) \/ HandlerStep(r) \/ Execute(r)
  \/ GatewayTerm \/ GatewayExit \/ GatewayStart
  \/ \E s \in Services : ServerTerm(s) \/ ServerExit(s) \/ ServerKilled(s) \/ ServerStart(s)

Spec == Init /\ [][Next]_vars

(* Handlers run, and a call on a store returns or fails.  A process that   *)
(* was told to stop ends when it may.  Clients and signals owe nothing, no *)
(* pod need be started, no store has to execute a call that was given up.  *)
Fairness ==
  /\ \A r \in Requests : WF_vars(EdgeStep(r)) /\ WF_vars(HandlerStep(r))
  /\ WF_vars(GatewayExit)
  /\ \A s \in Services : WF_vars(ServerExit(s))

FairSpec == Spec /\ Fairness

-----------------------------------------------------------------------------
(* A request is done completely or not at all, however gateway and service *)
(* are stopped, unless one of its calls failed, its service was killed, or *)
(* its context ended: with the connection of the client, or with the       *)
(* gateway, which does not wait for its handlers as a service does.        *)
AllOrNothing ==
  \A r \in Requests :
    rpc[r] \in {"ok", "error"} /\ r \notin cancelled \cup failed =>
      /\ Len(effects[r]) = issued[r]
      /\ issued[r] = IF rpc[r] = "ok" THEN Steps(ask[r].op) ELSE 0

(* A service that was told to stop does: its handlers end, and no new one  *)
(* begins.                                                                 *)
ServicesStop == \A s \in Services : server[s] = "draining" ~> server[s] # "draining"

(* Every request is answered, or its connection is lost; 202 and 200 mean  *)
(* that all its calls were executed, 401 and 400 that none was and none    *)
(* will be; and all of them for the tenant of its own token.               *)
Asked ==
  [r \in Requests |->
     IF edge[r] = "idle" THEN NULL
       ELSE [tenant |-> IF ask[r].token = NULL THEN NULL ELSE Claims[ask[r].token],
             steps  |-> Steps(ask[r].op)]]

API == INSTANCE Requests WITH asked <- Asked, reply <- seen
ImplementsRequests == API!RequestSpec
=============================================================================
