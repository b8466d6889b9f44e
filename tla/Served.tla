------------------------------- MODULE Served -------------------------------
(***************************************************************************)
(* What the agent promises the application that reads its files, whatever   *)
(* the store, the network and the process do: each file changes on its own *)
(* and as a whole, and only to the text of a document the store has held   *)
(* that rendered and satisfied the schema.  A file with a document in it   *)
(* is blanked only where a policy says so (MayBlank), and other bytes are  *)
(* in it only where something else writes to the volume (MayTamper).       *)
(***************************************************************************)
CONSTANTS Docs, Valid, Outs, Text, Missing, Empty, Foreign, MayBlank, MayTamper

VARIABLES offered, file

vars == <<offered, file>>

Init ==
  /\ offered \subseteq Docs
  /\ file = [o \in Outs |-> Missing]

Offer(d) ==
  /\ offered' = offered \cup {d}
  /\ UNCHANGED file

Serve(o, d) ==
  /\ file' = [file EXCEPT ![o] = Text[d][o]]
  /\ UNCHANGED offered

Blank(blanked) ==
  /\ MayBlank \/ \A o \in blanked : file[o] \in {Missing, Empty}
  /\ file' = [o \in Outs |-> IF o \in blanked THEN Empty ELSE file[o]]
  /\ UNCHANGED offered

Overwrite(o) ==
  /\ MayTamper
  /\ file' = [file EXCEPT ![o] = Foreign]
  /\ UNCHANGED offered

Next ==
  \/ \E d \in Docs : Offer(d)
  \/ \E o \in Outs, d \in offered \cap Valid : Serve(o, d)
  \/ \E blanked \in SUBSET Outs : Blank(blanked)
  \/ \E o \in Outs : Overwrite(o)

Spec == Init /\ [][Next]_vars

=============================================================================
