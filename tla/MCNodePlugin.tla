---------------------------- MODULE MCNodePlugin ----------------------------
(***************************************************************************)
(* NodePlugin on small instances: two volumes on one document, and up to   *)
(* four versions of it, which they need not render alike.                  *)
(***************************************************************************)
EXTENDS NodePlugin, TLC

\* Every volume names the one key and asks the one question.
OneKey == [v \in Vols |-> 1]

\* Each asks a question of its own.
Own == [v \in Vols |-> v]

\* Each volume renders a document in its own way; document 3 does not render.
Whole == [v \in Vols |-> [d \in Docs |-> IF d = 3 THEN Bad ELSE 10 * v + d]]

\* Document 2 is news to volume 2 alone; document 4 does not render for it.
Apart == <<<<11, 11, 13, 14>>, <<21, 22, 23, Bad>>>>

Symmetric == Permutations(Watches)

=============================================================================
