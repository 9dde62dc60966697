--------------------------- MODULE MCMessageQueue ---------------------------
(* MessageQueue on small instances: two messages, one or two inboxes. *)
EXTENDS MessageQueue, TLC

CONSTANTS m1, m2, d1, d2, s1, s2, p1, p2

OneInbox   == (m1 :> d1) @@ (m2 :> d1)
TwoInboxes == (m1 :> d1) @@ (m2 :> d2)

HandlerSymmetry == Permutations({s1, s2}) \cup Permutations({p1, p2})
=============================================================================
