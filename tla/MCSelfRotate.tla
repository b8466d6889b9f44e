---------------------------- MODULE MCSelfRotate ----------------------------
(***************************************************************************)
(* SelfRotate with two replicas.                                            *)
(***************************************************************************)
EXTENDS SelfRotate

CONSTANTS r1, r2

=============================================================================
