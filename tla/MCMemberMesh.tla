---------------------------- MODULE MCMemberMesh ----------------------------
(***************************************************************************)
(* Three small instances of the membership protocol in one run.  The       *)
(* initial state chooses one and no step changes it.                       *)
(*   Mesh:     two prompt players and a broker that restarts.              *)
(*   Alone:    one prompt player that leaves, rejoins and lists its box    *)
(*             again, with an unanswered request, a broker restart and a   *)
(*             dead broker thread.  It has the constants of this module.   *)
(*   Numbered: one client that numbers its boxes with a member_seq, as the *)
(*             broker's tests do and the shim does not, and requests of    *)
(*             any duration.  A box listed again has no number of its own, *)
(*             so that there is none here.                                 *)
(***************************************************************************)
EXTENDS PartyMembership, TLC

CONSTANTS a, b, c

VARIABLE which

Mesh == INSTANCE PartyMembership WITH
  Entities <- {a, b}, Settle <- 3, MaxBoxes <- 1, MaxReadds <- 0,
  MaxPolls <- 3, MaxTicks <- 3, MaxGiveUps <- 0, MaxDeaths <- 0

Numbered == INSTANCE PartyMembership WITH
  SendsSeq <- TRUE, Prompt <- FALSE, Settle <- 3, MaxReadds <- 0,
  MaxPolls <- 3, MaxTicks <- 2

MeshInit ==
  \/ which = "Alone" /\ Init
  \/ which = "Mesh" /\ Mesh!Init
  \/ which = "Numbered" /\ Numbered!Init
MeshNext ==
  /\ \/ which = "Alone" /\ Next
     \/ which = "Mesh" /\ Mesh!Next
     \/ which = "Numbered" /\ Numbered!Next
  /\ UNCHANGED which
MeshSpec == MeshInit /\ [][MeshNext]_<<which, vars>>

\* The two players are interchangeable: no property names one.
PlayerSymmetry == Permutations({a, b})

-----------------------------------------------------------------------------
(***************************************************************************)
(* SettledIsListed of both prompt instances: whoever has been connected    *)
(* for the settling time is listed by the broker under its own port.       *)
(***************************************************************************)
EverySettledIsListed ==
  /\ which = "Alone" => SettledIsListed
  /\ which = "Mesh" => Mesh!SettledIsListed

(***************************************************************************)
(* SettledKnowEachOther of both prompt instances: the settled players have *)
(* applied listings with their own row and the other's current port.       *)
(***************************************************************************)
EverySettledKnows ==
  /\ which = "Alone" => SettledKnowEachOther
  /\ which = "Mesh" => Mesh!SettledKnowEachOther

(***************************************************************************)
(* What the broker's comparison of numbers is for: with a client that      *)
(* numbers its requests no request, handled late or overtaken in the       *)
(* queue, deletes or changes the unexpired row of a newer registration.    *)
(* Only a restart of the broker does.                                      *)
(***************************************************************************)
FreshRowKept ==
  [][which = "Numbered" /\ used'.restarts = used.restarts
       => FreshKept]_<<which, vars>>
=============================================================================
