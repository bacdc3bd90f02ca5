---------------------------- MODULE MCPartyPump -----------------------------
(***************************************************************************)
(* Small instances of the pump for TLC.                                    *)
(***************************************************************************)
EXTENDS PartyPump, TLC

Ordered == {"guaranteed", "sequential"}

\* Two guaranteed sequential messages.
OrderedFrames == {[id |-> 1, seq |-> 1, options |-> Ordered],
                  [id |-> 2, seq |-> 2, options |-> Ordered]}
OneFrame == {[id |-> 1, seq |-> 1, options |-> Ordered]}
\* Two messages without a sequence number, delivered as often as they come.
LooseFrames == {[id |-> 1, seq |-> 0, options |-> {}],
                [id |-> 2, seq |-> 0, options |-> {}]}

NetSymmetry == Permutations(Nets)

\* The history of messages decides no step and no property of a run that
\* uses this view.
WithoutMessageHistory ==
  <<up, networks, net, pending, in_flight, batch_outstanding, members,
    {sc \in finished : IsControl(sc)}>>
=============================================================================
