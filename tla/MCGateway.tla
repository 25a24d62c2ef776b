------------------------------ MODULE MCGateway -------------------------------
(* An instance of Gateway for TLC. *)
EXTENDS Gateway

CONSTANTS r1, r2, k1, k2

(* A token for each of two tenants. *)
TwoClaims ==
  LET t1 == CHOOSE t \in Tenants : TRUE
  IN [k \in Tokens |-> IF k = k1 THEN t1 ELSE CHOOSE t \in Tenants : t # t1]

(* A post, beside a post or a delete of another tenant or a request that   *)
(* is refused. *)
TwoAsks ==
  [r \in Requests |->
     IF r = r1 THEN {[op |-> "post", token |-> k1]}
       ELSE {[op |-> "post", token |-> k2], [op |-> "delete", token |-> k2],
             [op |-> "post", token |-> NULL]}]
=============================================================================
