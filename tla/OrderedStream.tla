---------------------------- MODULE OrderedStream ----------------------------
(***************************************************************************)
(* What the game is promised for guaranteed sequential messages: a stream. *)
(* Messages go in at one end and come out at the other in the same order,  *)
(* each once, several at a time if they were waiting for each other, and   *)
(* nothing that went in stays inside forever.                              *)
(***************************************************************************)
EXTENDS Naturals, Sequences

CONSTANT Message

VARIABLES
  written,  \* messages submitted, in order
  read      \* messages handed to the game, in order

streamVars == <<written, read>>

Init ==
  /\ written = << >>
  /\ read = << >>

Submit(m) ==
  /\ written' = Append(written, m)
  /\ UNCHANGED read

Release(n) ==
  /\ read' = SubSeq(written, 1, n)
  /\ UNCHANGED written

Next ==
  \/ \E m \in Message : Submit(m)
  \/ \E n \in (Len(read) + 1) .. Len(written) : Release(n)

Spec ==
  /\ Init
  /\ [][Next]_streamVars
  /\ WF_streamVars(\E n \in (Len(read) + 1) .. Len(written) : Release(n))
=============================================================================
