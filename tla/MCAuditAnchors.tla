--------------------------- MODULE MCAuditAnchors ---------------------------
(* AuditAnchors on small instances: one session and one writer suffice,    *)
(* the days and the order of commits are what the anchors depend on.       *)
EXTENDS AuditAnchors
=============================================================================
