---------------------------- MODULE Gateway_proofs -----------------------------
(***************************************************************************)
(* Proofs about Gateway: its types, that only the named causes leave a     *)
(* request half done, and that it keeps the promises of Requests.          *)
(***************************************************************************)
EXTENDS Gateway, TLAPS

(* What is known of one request at any moment, whatever the edge and the   *)
(* handler do: how far either has got bounds what the stores have done.    *)
Coherent(r) ==
  /\ edge[r] = "idle" => rpc[r] = "none" /\ seen[r] = NULL
  /\ edge[r] \in {"auth", "handle", "refused"} => rpc[r] = "none"
  /\ seen[r] = "refused" => rpc[r] = "none" /\ edge[r] = "closed"
  /\ edge[r] = "done" \/ seen[r] = "done" => rpc[r] = "ok"
  /\ rpc[r] # "none" => edge[r] # "idle" /\ wire[r] = ask[r].token
  /\ rpc[r] \in {"none", "sent"} => issued[r] = 0
  /\ rpc[r] = "run" => issued[r] = Len(effects[r]) /\ issued[r] < Steps(ask[r].op)
  /\ rpc[r] = "ok" => issued[r] = Len(effects[r]) /\ issued[r] = Steps(ask[r].op)
  /\ rpc[r] = "error" /\ r \notin cancelled \cup failed => issued[r] = 0
  /\ issued[r] > 0 => wire[r] \in Tokens /\ issued[r] <= Steps(ask[r].op)
  /\ Len(effects[r]) \in {issued[r], issued[r] - 1}

(* The inductive invariant. *)
IInv == TypeOK /\ \A r \in Requests : Coherent(r)

(* The processes come and go; what is known of a request does not depend   *)
(* on them.                                                                *)
ProcessesOK ==
  /\ gateway \in {"serving", "stopping", "exited"}
  /\ server \in [Services -> {"serving", "draining", "exited"}]

RequestsOK ==
  /\ ask \in [Requests -> Ask \cup {NULL}]
  /\ edge \in [Requests -> Open \cup {"idle", "closed"}]
  /\ wire \in [Requests -> Tokens \cup {NULL}]
  /\ rpc \in [Requests -> Handling \cup {"none", "sent", "ok", "error"}]
  /\ issued \in [Requests -> 0..2]
  /\ effects \in [Requests -> Seq(Tenants)]
  /\ seen \in [Requests -> Answers \cup {"cut", NULL}]
  /\ cancelled \subseteq Requests /\ failed \subseteq Requests
  /\ \A r \in Requests : /\ edge[r] # "idle" => ask[r] \in Asks[r]
                         /\ rpc[r] \in Handling => wire[r] \in Tokens
                         /\ Coherent(r)

(* The invariant splits into what concerns the processes and what concerns *)
(* the requests.                                                           *)
LEMMA Split == IInv <=> ProcessesOK /\ RequestsOK
  BY DEF IInv, TypeOK, ProcessesOK, RequestsOK

(* The same of the state after a step.                                     *)
LEMMA SplitNext == IInv' <=> ProcessesOK' /\ RequestsOK'
  BY DEF IInv, TypeOK, ProcessesOK, RequestsOK

(* A request asks for an operation with a token of its own, or without.    *)
LEMMA AskFields ==
  \A r \in Requests : \A a \in Asks[r] :
    a \in Ask /\ a.op \in Ops /\ a.token \in Tokens \cup {NULL}
  BY GatewayConstants DEF Ask

(* NULL is none of the values it stands beside.                            *)
LEMMA NullIsNone ==
  /\ NULL \notin Tokens /\ NULL \notin Ask /\ NULL \notin Tenants
  /\ NULL # "done" /\ NULL # "refused" /\ NULL # "error" /\ NULL # "cut"
  BY GatewayConstants

(* Initially nothing was asked. *)
LEMMA InitCoherent == Init => IInv
<1> SUFFICES ASSUME Init PROVE IInv
  OBVIOUS
<1>1. ProcessesOK
  BY DEF Init, ProcessesOK
<1>2. \A r \in Requests : Coherent(r)
  <2> TAKE r \in Requests
  <2>1. /\ edge[r] = "idle" /\ rpc[r] = "none" /\ seen[r] = NULL
        /\ issued[r] = 0 /\ effects[r] = <<>>
    BY DEF Init
  <2>2. Len(effects[r]) = 0
    BY <2>1
  <2> QED
    BY <2>1, <2>2, NullIsNone DEF Coherent
<1>3. RequestsOK
  BY <1>2 DEF Init, RequestsOK, Open, Handling, Answers
<1> QED
  BY <1>1, <1>3, Split

(* The steps of the edge keep what is known of every request. *)
LEMMA EdgeCoherent ==
  ASSUME IInv, NEW r \in Requests, EdgeStep(r) \/ ClientLeaves(r)
  PROVE  RequestsOK'
<1> USE Split, AskFields, NullIsNone
<1>1. CASE Authenticate(r)
  BY <1>1 DEF Authenticate, EdgeTo, RequestsOK, Coherent, Open, Answers, Processes
<1>2. CASE BadRequest(r)
  BY <1>2 DEF BadRequest, EdgeTo, RequestsOK, Coherent, Open, Answers, Processes
<1>3. CASE Call(r)
  <2>1. /\ edge[r] = "handle" /\ ask[r].token \in Tokens \cup {NULL} /\ Coherent(r)
    BY <1>3 DEF Call, RequestsOK
  <2>2. /\ edge' = [edge EXCEPT ![r] = "wait"]
        /\ wire' = [wire EXCEPT ![r] = ask[r].token]
        /\ rpc' = [rpc EXCEPT ![r] = "sent"]
        /\ UNCHANGED <<ask, issued, effects, failed, seen, cancelled>>
    BY <1>3 DEF Call, EdgeTo, Forwarded
  <2>3. \A q \in Requests : q # r => edge'[q] = edge[q] /\ wire'[q] = wire[q] /\ rpc'[q] = rpc[q]
    BY <2>2 DEF RequestsOK
  <2>4. \A q \in Requests : q # r => (Coherent(q) => Coherent(q)')
    BY <2>2, <2>3 DEF Coherent
  <2>5. Coherent(r)'
    BY <2>1, <2>2 DEF RequestsOK, Coherent, Open, Answers, Handling
  <2>6. /\ edge' \in [Requests -> Open \cup {"idle", "closed"}]
        /\ wire' \in [Requests -> Tokens \cup {NULL}]
        /\ rpc' \in [Requests -> Handling \cup {"none", "sent", "ok", "error"}]
        /\ \A q \in Requests : rpc'[q] \in Handling => wire'[q] \in Tokens
    BY <2>1, <2>2, <2>3 DEF RequestsOK, Open, Handling
  <2> QED
    BY <2>1, <2>2, <2>3, <2>4, <2>5, <2>6 DEF RequestsOK
<1>4. CASE StubReturns(r)
  BY <1>4 DEF StubReturns, Outcome, EdgeTo, RequestsOK, Coherent, Open, Answers, Processes
<1>5. CASE StubFails(r)
  BY <1>5 DEF StubFails, EdgeTo, RequestsOK, Coherent, Open, Answers, Processes
<1>6. CASE Respond(r)
  BY <1>6 DEF Respond, EdgeTo, RequestsOK, Coherent, Open, Answers, Processes
<1>7. CASE ClientLeaves(r)
  BY <1>7 DEF ClientLeaves, RequestsOK, Coherent, Open, Answers, Processes
<1> QED
  BY <1>1, <1>2, <1>3, <1>4, <1>5, <1>6, <1>7 DEF EdgeStep

(* So do the steps of the service handler. *)
LEMMA HandlerCoherent ==
  ASSUME IInv, NEW r \in Requests, HandlerStep(r)
  PROVE  RequestsOK'
<1> USE Split, AskFields, NullIsNone
<1>1. CASE Intercept(r)
  <2>1. PICK place \in {"run", "error"} :
          RpcTo(r, place) /\ (place = "run" => wire[r] \in Tokens)
    BY <1>1 DEF Intercept, Verdicts
  <2>2. edge[r] # "idle" /\ issued[r] = 0 /\ Len(effects[r]) = 0
    <3>1. effects[r] \in Seq(Tenants) /\ Coherent(r) /\ rpc[r] = "sent"
      BY <1>1 DEF Intercept, RequestsOK
    <3>2. Len(effects[r]) \in Nat
      BY <3>1
    <3> QED
      BY <3>1, <3>2 DEF Coherent
  <2> QED
    BY <1>1, <2>1, <2>2 DEF Intercept, RpcTo, RequestsOK, Coherent, Handling, Steps
<1>2. CASE Refused(r)
  BY <1>2 DEF Refused, RpcTo, RequestsOK, Coherent, Handling
<1>3. CASE Reject(r)
  BY <1>3 DEF Reject, RpcTo, RequestsOK, Coherent, Handling
<1>4. CASE Issue(r)
  BY <1>4 DEF Issue, RpcTo, RequestsOK, Coherent, Handling, Steps
<1>5. CASE CallReturns(r)
  BY <1>5 DEF CallReturns, RpcTo, RequestsOK, Coherent, Handling, Steps
<1>6. CASE CallFails(r)
  BY <1>6 DEF CallFails, RpcTo, RequestsOK, Coherent, Handling
<1> QED
  BY <1>1, <1>2, <1>3, <1>4, <1>5, <1>6 DEF HandlerStep

(* A request that arrives has done nothing yet.                            *)
LEMMA ArriveCoherent ==
  ASSUME IInv, NEW r \in Requests, NEW a \in Asks[r], Arrive(r, a)
  PROVE  RequestsOK'
BY Split, AskFields, NullIsNone DEF Arrive, RequestsOK, Coherent, Open, Processes

(* A store executes the calls of a request one by one, as issued.          *)
LEMMA ExecuteCoherent ==
  ASSUME IInv, NEW r \in Requests, Execute(r)
  PROVE  RequestsOK'
<1>1. RequestsOK /\ issued[r] \in 0..2 /\ effects[r] \in Seq(Tenants) /\ Coherent(r)
  BY Split DEF RequestsOK
<1>2. Len(effects[r]) \in Nat /\ issued[r] > 0 /\ wire[r] \in Tokens
  BY <1>1 DEF Execute, Coherent
<1>3. Claims[wire[r]] \in Tenants
  BY <1>2, GatewayConstants
<1>4. /\ Append(effects[r], Claims[wire[r]]) \in Seq(Tenants)
      /\ Len(Append(effects[r], Claims[wire[r]])) = Len(effects[r]) + 1
  BY <1>1, <1>3
<1>5. effects' \in [Requests -> Seq(Tenants)]
  BY <1>1, <1>4 DEF Execute, RequestsOK
<1>6. ASSUME NEW q \in Requests PROVE Coherent(q)'
  <2>1. CASE q # r
    BY <1>1, <2>1 DEF Execute, RequestsOK, Coherent, Processes
  <2>2. CASE q = r
    <3>1. Len(effects'[r]) = Len(effects[r]) + 1
      BY <1>1, <1>4 DEF Execute, RequestsOK
    <3>2. Len(effects'[r]) = issued[r]
      BY <1>1, <1>2, <3>1 DEF Execute, Coherent
    <3> QED
      BY <1>1, <1>2, <2>2, <3>2 DEF Execute, Coherent, Processes
  <2> QED
    BY <2>1, <2>2
<1> QED
  BY <1>1, <1>5, <1>6 DEF Execute, RequestsOK, Processes

(* The gateway's end cuts requests and cancels their contexts. *)
LEMMA GatewayCoherent ==
  ASSUME IInv, GatewayTerm \/ GatewayExit \/ GatewayStart
  PROVE  IInv'
<1> USE Split
<1>1. ProcessesOK'
  BY DEF GatewayTerm, GatewayExit, GatewayStart, ProcessesOK
<1>2. CASE GatewayTerm \/ GatewayStart
  BY <1>1, <1>2, SplitNext DEF GatewayTerm, GatewayStart, requestState, RequestsOK, Coherent
<1>3. CASE GatewayExit
  <2>1. ASSUME NEW q \in Requests PROVE Coherent(q)'
    BY <1>3, NullIsNone DEF GatewayExit, RequestsOK, Coherent, Open, Answers
  <2>2. RequestsOK'
    <3>1. edge' \in [Requests -> Open \cup {"idle", "closed"}]
      BY <1>3 DEF GatewayExit, RequestsOK
    <3>2. seen' \in [Requests -> Answers \cup {"cut", NULL}]
      BY <1>3 DEF GatewayExit, RequestsOK
    <3>3. \A q \in Requests : edge'[q] # "idle" => edge[q] # "idle"
      BY <1>3 DEF GatewayExit, RequestsOK, Open, Answers
    <3> QED
      BY <1>3, <2>1, <3>1, <3>2, <3>3 DEF GatewayExit, RequestsOK
  <2> QED
    BY <1>1, <2>2, SplitNext
<1> QED
  BY <1>2, <1>3

(* A killed service takes its handlers with it, and says so in failed. *)
LEMMA ServerCoherent ==
  ASSUME IInv, NEW s \in Services,
         ServerTerm(s) \/ ServerExit(s) \/ ServerKilled(s) \/ ServerStart(s)
  PROVE  IInv'
<1> USE Split
<1>1. ProcessesOK'
  BY DEF ServerTerm, ServerExit, ServerKilled, ServerStart, ServerTo, ProcessesOK
<1>2. CASE ServerTerm(s) \/ ServerExit(s) \/ ServerStart(s)
  BY <1>1, <1>2, SplitNext DEF ServerTerm, ServerExit, ServerStart, ServerTo, RequestsOK, Coherent
<1>3. CASE ServerKilled(s)
  <2>1. ASSUME NEW q \in Requests PROVE Coherent(q)'
    BY <1>3 DEF ServerKilled, ServerTo, Running, RequestsOK, Coherent, Handling
  <2>2. RequestsOK'
    BY <1>3, <2>1 DEF ServerKilled, ServerTo, Running, RequestsOK, Handling
  <2> QED
    BY <1>1, <2>2, SplitNext
<1> QED
  BY <1>2, <1>3

(* Every step keeps the invariant. *)
LEMMA NextCoherent == IInv /\ [Next]_vars => IInv'
<1> SUFFICES ASSUME IInv, [Next]_vars PROVE IInv'
  OBVIOUS
<1>1. CASE UNCHANGED vars
  BY <1>1, Split, SplitNext DEF vars, requestState, ProcessesOK, RequestsOK, Coherent
<1>2. ASSUME NEW r \in Requests,
             \/ \E a \in Asks[r] : Arrive(r, a)
             \/ EdgeStep(r) \/ ClientLeaves(r) \/ HandlerStep(r) \/ Execute(r)
      PROVE  IInv'
  <2>1. RequestsOK'
    BY <1>2, ArriveCoherent, EdgeCoherent, HandlerCoherent, ExecuteCoherent
  <2>2. UNCHANGED <<gateway, server>>
    BY <1>2 DEF Arrive, EdgeStep, Authenticate, BadRequest, Call, StubReturns, StubFails,
                Respond, ClientLeaves, HandlerStep, Intercept, Refused, Reject, Issue,
                CallReturns, CallFails, Execute, EdgeTo, RpcTo, Processes
  <2> QED
    BY <2>1, <2>2, Split, SplitNext DEF ProcessesOK
<1>3. CASE GatewayTerm \/ GatewayExit \/ GatewayStart
  BY <1>3, GatewayCoherent
<1>4. ASSUME NEW s \in Services,
             ServerTerm(s) \/ ServerExit(s) \/ ServerKilled(s) \/ ServerStart(s)
      PROVE  IInv'
  BY <1>4, ServerCoherent
<1> QED
  BY <1>1, <1>2, <1>3, <1>4 DEF Next

(* What is known of a request is known for ever. *)
THEOREM Inductive == Spec => []IInv
  BY InitCoherent, NextCoherent, PTL DEF Spec

(* The edge and the services stay within their types. *)
THEOREM TypeCorrect == Spec => []TypeOK
<1>1. IInv => TypeOK
  BY DEF IInv
<1> QED
  BY <1>1, Inductive, PTL

(* A request is half done only if one of its calls failed, its service was *)
(* killed or its context ended, for any number of requests and tenants.    *)
THEOREM DoneOrNot == Spec => []AllOrNothing
<1>1. IInv => AllOrNothing
  <2> SUFFICES ASSUME IInv, NEW r \in Requests, rpc[r] \in {"ok", "error"},
                      r \notin cancelled \cup failed
               PROVE  /\ Len(effects[r]) = issued[r]
                      /\ issued[r] = IF rpc[r] = "ok" THEN Steps(ask[r].op) ELSE 0
    BY DEF AllOrNothing
  <2>1. Coherent(r) /\ effects[r] \in Seq(Tenants)
    BY DEF IInv, TypeOK
  <2>2. Len(effects[r]) \in Nat
    BY <2>1
  <2> QED
    BY <2>1, <2>2 DEF Coherent
<1> QED
  BY <1>1, Inductive, PTL

-----------------------------------------------------------------------------
(* The refinement of Requests.                                             *)

(* What a request asks for stays as it is while its edge moves on.         *)
LEMMA AskedStays ==
  ASSUME ask' = ask, \A r \in Requests : edge'[r] = "idle" <=> edge[r] = "idle"
  PROVE  Asked' = Asked
BY DEF Asked

(* Before anything is asked for, nothing is promised. *)
LEMMA InitImplements == Init => API!RequestInit
  BY DEF Init, API!RequestInit, Asked

(* What Asked says of a request that was made. *)
LEMMA AskedFields ==
  ASSUME IInv, NEW r \in Requests, edge[r] # "idle"
  PROVE  /\ Asked[r] # NULL
         /\ Asked[r].steps = Steps(ask[r].op)
         /\ ask[r].token \in Tokens =>
              Asked[r].tenant = Claims[ask[r].token] /\ Asked[r].tenant \in Tenants
<1>1. ask[r] \in Asks[r]
  BY DEF IInv, TypeOK
<1>2. ask[r].token \in Tokens \cup {NULL} /\ Steps(ask[r].op) \in {1, 2}
  BY <1>1, AskFields DEF Steps
<1>3. Asked[r] = [tenant |-> IF ask[r].token = NULL THEN NULL ELSE Claims[ask[r].token],
                  steps  |-> Steps(ask[r].op)]
  BY DEF Asked
<1>4. ask[r].token \in Tokens => Claims[ask[r].token] \in Tenants /\ ask[r].token # NULL
  BY GatewayConstants
<1>5. Asked[r] \in [tenant : Tenants \cup {NULL}, steps : {1, 2}]
  BY <1>2, <1>3, <1>4
<1> QED
  BY <1>3, <1>4, <1>5, GatewayConstants

(* An arrival is a request made. *)
LEMMA ArriveImplements ==
  ASSUME IInv, NEW r \in Requests, NEW a \in Asks[r], Arrive(r, a)
  PROVE  API!RequestNext
<1> DEFINE tenant == IF a.token = NULL THEN NULL ELSE Claims[a.token]
<1>1. tenant \in Tenants \cup {NULL} /\ Steps(a.op) \in {1, 2}
  BY AskFields, GatewayConstants DEF Steps
<1>2. Asked[r] = NULL
  BY DEF Arrive, Asked
<1>3. Asked' = [Asked EXCEPT ![r] = [tenant |-> tenant, steps |-> Steps(a.op)]]
  <2>1. ask \in [Requests -> Ask \cup {NULL}] /\ edge \in [Requests -> Open \cup {"idle", "closed"}]
    BY DEF IInv, TypeOK
  <2>2. ask'[r] = a /\ edge'[r] = "auth"
    BY <2>1 DEF Arrive
  <2>3. \A q \in Requests : q # r => ask'[q] = ask[q] /\ edge'[q] = edge[q]
    BY <2>1 DEF Arrive
  <2> QED
    BY <2>2, <2>3 DEF Asked
<1>4. API!Ask(r, tenant, Steps(a.op))
  BY <1>2, <1>3 DEF API!Ask, Arrive
<1> QED
  BY <1>1, <1>4 DEF API!RequestNext

(* A call that a store executes is a step of the request, for the tenant   *)
(* of its token.                                                           *)
LEMMA ExecuteImplements ==
  ASSUME IInv, NEW r \in Requests, Execute(r)
  PROVE  API!RequestNext
<1>1. Coherent(r) /\ issued[r] \in 0..2 /\ effects[r] \in Seq(Tenants)
  BY DEF IInv, TypeOK
<1>2. Len(effects[r]) \in Nat /\ issued[r] > 0
  BY <1>1 DEF Execute
<1>3. /\ rpc[r] # "none" /\ edge[r] # "idle" /\ seen[r] # "refused"
      /\ wire[r] = ask[r].token /\ wire[r] \in Tokens /\ issued[r] <= Steps(ask[r].op)
  BY <1>1, <1>2 DEF Coherent
<1>4. /\ Asked[r] # NULL /\ Asked[r].tenant \in Tenants
      /\ Asked[r].tenant = Claims[wire[r]] /\ Asked[r].steps = Steps(ask[r].op)
  BY <1>3, AskedFields
<1>5. Steps(ask[r].op) \in Nat
  BY DEF Steps
<1>6. Asked' = Asked
  BY AskedStays DEF Execute
<1>7. API!Effect(r)
  BY <1>1, <1>2, <1>3, <1>4, <1>5, <1>6 DEF Execute, API!Effect
<1> QED
  BY <1>7 DEF API!RequestNext

(* A client that has no answer yet gets one, and it is true.               *)
LEMMA RespondImplements ==
  ASSUME IInv, NEW r \in Requests, Respond(r) \/ ClientLeaves(r)
  PROVE  [API!RequestNext]_(API!requestVars)
<1> USE NullIsNone
<1>1. /\ Coherent(r) /\ effects[r] \in Seq(Tenants) /\ issued[r] \in 0..2
      /\ seen \in [Requests -> Answers \cup {"cut", NULL}]
      /\ edge \in [Requests -> Open \cup {"idle", "closed"}]
  BY DEF IInv, TypeOK
<1>2. edge[r] \in Open
  BY DEF Respond, ClientLeaves, Open
<1>3. edge[r] # "idle" /\ edge'[r] # "idle"
  BY <1>1, <1>2 DEF Respond, ClientLeaves, EdgeTo, Open, Answers
<1>4. Asked' = Asked
  <2>1. \A q \in Requests : edge'[q] = "idle" <=> edge[q] = "idle"
    BY <1>1, <1>3 DEF Respond, ClientLeaves, EdgeTo
  <2> QED
    BY <2>1, AskedStays DEF Respond, ClientLeaves, EdgeTo
<1>5. effects' = effects
  BY DEF Respond, ClientLeaves, EdgeTo
<1>6. CASE seen[r] # NULL
  <2>1. seen' = seen
    BY <1>1, <1>6 DEF Respond, ClientLeaves
  <2> QED
    BY <1>4, <1>5, <2>1 DEF API!requestVars
<1>7. CASE seen[r] = NULL
  <2>1. PICK got \in {edge[r], "cut"} :
          /\ seen' = [seen EXCEPT ![r] = got]
          /\ got # "cut" => edge[r] \in Answers
    BY <1>1, <1>7 DEF Respond, ClientLeaves
  <2>2. got \in {"done", "refused", "error", "cut"}
    <3>1. got = edge[r] \/ got = "cut"
      BY <2>1
    <3>2. got # "cut" => edge[r] = "done" \/ edge[r] = "refused" \/ edge[r] = "error"
      BY <2>1 DEF Answers
    <3> QED
      BY <3>1, <3>2
  <2>3. got = "done" => Len(effects[r]) = Asked[r].steps
    <3>1. got = "done" => rpc[r] = "ok"
      BY <1>1, <2>1 DEF Coherent
    <3> QED
      BY <1>1, <1>3, <3>1, AskedFields DEF Coherent
  <2>4. got = "refused" => effects[r] = <<>>
    <3>1. got = "refused" => issued[r] = 0
      BY <1>1, <2>1 DEF Coherent
    <3>2. Len(effects[r]) \in Nat
      BY <1>1
    <3>3. got = "refused" => Len(effects[r]) = 0
      BY <1>1, <3>1, <3>2 DEF Coherent
    <3> QED
      BY <1>1, <3>3
  <2>5. Asked[r] # NULL
    BY <1>3, AskedFields
  <2>6. API!Reply(r)
    <3>1. \E answer \in {"done", "refused", "error", "cut"} :
            /\ answer = "done" => Len(effects[r]) = Asked[r].steps
            /\ answer = "refused" => effects[r] = <<>>
            /\ seen' = [seen EXCEPT ![r] = answer]
      <4> WITNESS got \in {"done", "refused", "error", "cut"}
      <4> QED
        BY <2>1, <2>3, <2>4
    <3> QED
      BY <1>4, <1>5, <1>7, <2>5, <3>1 DEF API!Reply
  <2> QED
    BY <2>6 DEF API!RequestNext
<1> QED
  BY <1>6, <1>7

(* The end of the gateway cuts the connections that are open. *)
LEMMA GatewayImplements ==
  ASSUME IInv, GatewayTerm \/ GatewayExit \/ GatewayStart
  PROVE  [API!RequestNext]_(API!requestVars)
<1>1. CASE GatewayTerm \/ GatewayStart
  <2>1. UNCHANGED <<ask, edge, effects, seen>>
    BY <1>1 DEF GatewayTerm, GatewayStart, requestState
  <2> QED
    BY <2>1 DEF API!requestVars, Asked
<1>2. CASE GatewayExit
  <2> DEFINE rs == {r \in Requests : edge[r] \in Open /\ seen[r] = NULL}
  <2>1. /\ edge \in [Requests -> Open \cup {"idle", "closed"}]
        /\ seen \in [Requests -> Answers \cup {"cut", NULL}]
    BY DEF IInv, TypeOK
  <2>2. Asked' = Asked
    <3>1. \A q \in Requests : edge'[q] = "idle" <=> edge[q] = "idle"
      BY <1>2, <2>1 DEF GatewayExit, Open, Answers
    <3> QED
      BY <1>2, <3>1, AskedStays DEF GatewayExit
  <2>3. \A r \in rs : Asked[r] # NULL /\ seen[r] = NULL
    <3> TAKE r \in rs
    <3>1. edge[r] # "idle"
      BY DEF Open, Answers
    <3> QED
      BY <3>1, AskedFields
  <2>4. seen' = [r \in Requests |-> IF r \in rs THEN "cut" ELSE seen[r]]
    BY <1>2 DEF GatewayExit
  <2>5. API!Cut(rs)
    BY <1>2, <2>2, <2>3, <2>4 DEF GatewayExit, API!Cut
  <2> QED
    BY <2>5 DEF API!RequestNext
<1> QED
  BY <1>1, <1>2

(* The other steps are invisible to the client and to the stores. *)
LEMMA InvisibleSteps ==
  ASSUME IInv, NEW r \in Requests,
         \/ Authenticate(r) \/ BadRequest(r) \/ Call(r) \/ StubReturns(r) \/ StubFails(r)
         \/ HandlerStep(r)
  PROVE  UNCHANGED API!requestVars
<1>1. edge \in [Requests -> Open \cup {"idle", "closed"}]
  BY DEF IInv, TypeOK
<1>2. UNCHANGED <<ask, effects, seen>>
  BY DEF Authenticate, BadRequest, Call, StubReturns, StubFails, HandlerStep, Intercept,
         Refused, Reject, Issue, CallReturns, CallFails, EdgeTo, RpcTo
<1>3. \A q \in Requests : edge'[q] = "idle" <=> edge[q] = "idle"
  <2>1. CASE HandlerStep(r)
    BY <2>1 DEF HandlerStep, Intercept, Refused, Reject, Issue, CallReturns, CallFails, RpcTo
  <2>2. CASE \/ Authenticate(r) \/ BadRequest(r) \/ Call(r) \/ StubReturns(r) \/ StubFails(r)
    <3>1. PICK place : edge' = [edge EXCEPT ![r] = place] /\ place # "idle"
      BY <2>2 DEF Authenticate, BadRequest, Call, StubReturns, StubFails, EdgeTo, Outcome
    <3>2. edge[r] # "idle"
      BY <2>2 DEF Authenticate, BadRequest, Call, StubReturns, StubFails
    <3> QED
      BY <1>1, <3>1, <3>2
  <2> QED
    BY <2>1, <2>2
<1> QED
  BY <1>2, <1>3, AskedStays DEF API!requestVars

(* Neither does the client see a service stop or start. *)
LEMMA ServerInvisible ==
  ASSUME NEW s \in Services,
         ServerTerm(s) \/ ServerExit(s) \/ ServerKilled(s) \/ ServerStart(s)
  PROVE  UNCHANGED API!requestVars
BY DEF ServerTerm, ServerExit, ServerKilled, ServerStart, ServerTo, API!requestVars, Asked

(* The gateway and the services implement what the API promises: an answer *)
(* of success after all the calls of the request, a refusal before any,    *)
(* every call for the tenant of the token (the safety part of Requests).   *)
THEOREM ImplementsAPI == Spec => API!RequestSafety
<1>1. IInv /\ [Next]_vars => [API!RequestNext]_(API!requestVars)
  <2> SUFFICES ASSUME IInv, [Next]_vars PROVE [API!RequestNext]_(API!requestVars)
    OBVIOUS
  <2>1. CASE UNCHANGED vars
    BY <2>1 DEF vars, requestState, API!requestVars, Asked
  <2>2. ASSUME NEW r \in Requests,
               \/ \E a \in Asks[r] : Arrive(r, a)
               \/ EdgeStep(r) \/ ClientLeaves(r) \/ HandlerStep(r) \/ Execute(r)
        PROVE  [API!RequestNext]_(API!requestVars)
    BY <2>2, ArriveImplements, RespondImplements, ExecuteImplements, InvisibleSteps DEF EdgeStep
  <2>3. CASE GatewayTerm \/ GatewayExit \/ GatewayStart
    BY <2>3, GatewayImplements
  <2>4. ASSUME NEW s \in Services,
               ServerTerm(s) \/ ServerExit(s) \/ ServerKilled(s) \/ ServerStart(s)
        PROVE  [API!RequestNext]_(API!requestVars)
    BY <2>4, ServerInvisible
  <2> QED
    BY <2>1, <2>2, <2>3, <2>4 DEF Next
<1> QED
  BY <1>1, InitImplements, Inductive, PTL DEF Spec, API!RequestSafety
=============================================================================
