--------------------------- MODULE PartyRegistry ----------------------------
(***************************************************************************)
(* The broker's party registry, handle_party of lan-server/src/main.rs,    *)
(* for one network id: a map from entities to rows [port, age,             *)
(* member_seq].  One lock guards the App, so a request is one step.  The   *)
(* age of a row stands for now - seen, and member_seq 0 means that the     *)
(* client sent none.                                                       *)
(***************************************************************************)
EXTENDS Integers, FiniteSets, Functions

CONSTANTS
  Entities,  \* the players
  MeshCap,   \* configured_mesh_cap()
  Ttl        \* PARTY_SEEN_TTL_SECS, in ticks

ASSUME RegistryAssumption == MeshCap \in Nat \ {0} /\ Ttl \in Nat

NoRows == [e \in {} |-> [port |-> 0, age |-> 0, member_seq |-> 0]]

\* net.retain(..): rows not seen for longer than the TTL go
Retained(party) == Restrict(party, {e \in DOMAIN party : party[e].age <= Ttl})

\* the mesh is full
Refused(live, e) ==
  e \notin DOMAIN live /\ Cardinality(DOMAIN live) >= MeshCap

\* The request answers to an older registration than the row's.
\* (StaleNever forgets to compare.)
StaleNever(party, e, seq) == FALSE
Stale(party, e, seq) ==
  seq # 0 /\ e \in DOMAIN party /\ party[e].member_seq > seq

\* the row that party/join leaves for e
JoinedRow(live, e, port, seq) ==
  IF Stale(live, e, seq) THEN [live[e] EXCEPT !.age = 0]
  ELSE [port |-> port, age |-> 0,
        member_seq |-> IF e \in DOMAIN live /\ live[e].member_seq > seq
                       THEN live[e].member_seq ELSE seq]

PartyJoin(party, e, port, seq) ==
  LET live == Retained(party)
  IN  IF Refused(live, e) THEN live
      ELSE [x \in DOMAIN live \cup {e} |->
              IF x = e THEN JoinedRow(live, e, port, seq) ELSE live[x]]

PartyLeave(party, e, seq) ==
  IF Stale(party, e, seq) THEN party
  ELSE Restrict(party, DOMAIN party \ {e})

\* party/peers: a caller that names itself is refreshed before the sweep.
\* The listing in the answer is what remains.
PartyPeers(party, callers) ==
  Retained([e \in DOMAIN party |->
              IF e \in callers THEN [party[e] EXCEPT !.age = 0] ELSE party[e]])

\* a tick of the clock; ages beyond the TTL are alike
Aged(party) == [e \in DOMAIN party |->
                  [party[e] EXCEPT !.age = IF @ > Ttl THEN @ ELSE @ + 1]]
=============================================================================
