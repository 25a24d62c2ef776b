--------------------------- MODULE MCIngestPipeline ---------------------------
(* Instances of IngestPipeline for TLC. *)
EXTENDS IngestPipeline, TLC

CONSTANTS d1, d2, s1, s2, s3, t1, t2, text1, text2, text3

(* Anything under any id; with one tenant both documents share a message   *)
(* group.                                                                  *)
AnyUpload == [doc : Docs, tenant : Tenants, text : Texts]

(* The first id is the first tenant's own, once perhaps with the text that *)
(* the API rejects; the second is posted for both tenants, for each with a *)
(* text of its own.                                                        *)
OneSharedId ==
  {[doc |-> d1, tenant |-> t1, text |-> text1], [doc |-> d1, tenant |-> t1, text |-> text2],
   [doc |-> d2, tenant |-> t1, text |-> text2], [doc |-> d2, tenant |-> t2, text |-> text3]}

OnePod == [s \in Slots |-> CHOOSE p \in Pods : TRUE]

(* Two of three slots are in one pod. *)
TwoPods ==
  LET p1 == CHOOSE p \in Pods : TRUE
  IN [s \in Slots |-> IF s = s3 THEN CHOOSE p \in Pods : p # p1 ELSE p1]

(* Sound where the instance tells no two of them apart: one tenant, one    *)
(* pod, no rejected text, no liveness.                                     *)
AllSymmetry == Permutations(Docs) \cup Permutations(Texts) \cup Permutations(Slots)
=============================================================================
