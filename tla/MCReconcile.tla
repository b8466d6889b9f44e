---------------------------- MODULE MCReconcile -----------------------------
(***************************************************************************)
(* A Render that moves between a class of its namespace and one of the      *)
(* cluster, a ConfigMap and a Secret, and documents of which one lacks a    *)
(* key of the other and one does not render.                                *)
(***************************************************************************)
EXTENDS Reconcile

RenderSpec(kind, to, shape, file, retain) ==
  [kind |-> kind, target |-> to, shape |-> shape, file |-> file, retain |-> retain]

MCSpecs ==
  {RenderSpec("own", "configMap", "entries", FALSE, FALSE),
   RenderSpec("cluster", "secret", "entries", FALSE, TRUE)}

MCClassSpecs ==
  {[store |-> "s", vault |-> FALSE, allows |-> TRUE], [store |-> "s", vault |-> TRUE, allows |-> FALSE]}

MCView ==
  [shape \in {"file", "entries"} |->
     [d \in Docs |->
        CASE d = 1 -> {[a |-> "1", b |-> "1"]}
          [] d = 2 -> {[a |-> "2"]}
          [] d = 3 -> {}]]
=============================================================================
