---------------------------- MODULE Notification ----------------------------
(***************************************************************************)
(* The domain type: what identifies a notification and which states it can *)
(* be in.  Recipient, channel, content and priority decide the topic and   *)
(* the text of a message but no transition, so only the identity is kept.  *)
(***************************************************************************)

CONSTANT Ids                \* the notifications' UUIDs

Statuses == {"pending", "queued", "processing", "delivered", "failed", "cancelled"}

IsCancellable(status) == status \in {"pending", "queued"}
=============================================================================
