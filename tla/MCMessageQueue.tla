--------------------------- MODULE MCMessageQueue ---------------------------
(* An invitation and a proof, polled while their webhooks arrive. *)
EXTENDS MessageQueue

CONSTANTS i1, i2, p1
=============================================================================
