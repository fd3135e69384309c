------------------------------ MODULE Patches ------------------------------
(***************************************************************************)
(* What a merge patch of the controller-runtime client does to a record of *)
(* fields, such as the status of a ZarfPackage.                            *)
(***************************************************************************)

(* client.MergeFrom(from) applied to base: only what differs is sent. *)
MergePatch(from, to, base) ==
    [f \in DOMAIN base |-> IF to[f] # from[f] THEN to[f] ELSE base[f]]

(* The reply to a patch is decoded over the object that was sent: fields the
   reply omits because they are empty (zero) keep their value in memory. *)
DecodeOver(zero, sent, reply) ==
    [f \in DOMAIN reply |-> IF reply[f] = zero[f] THEN sent[f] ELSE reply[f]]
=============================================================================
