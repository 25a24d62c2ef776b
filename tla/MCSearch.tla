------------------------------- MODULE MCSearch -------------------------------
(* Instances of Search for TLC. *)
EXTENDS Search, TLC

CONSTANTS d1, d2, t1, t2, x1, x2

(* One id is the first tenant's own, with either text; the other is posted *)
(* for both tenants, for each with a text of its own.                      *)
OneSharedId ==
  {[doc |-> d1, tenant |-> t1, text |-> x1], [doc |-> d1, tenant |-> t1, text |-> x2],
   [doc |-> d2, tenant |-> t1, text |-> x1], [doc |-> d2, tenant |-> t2, text |-> x2]}
=============================================================================
