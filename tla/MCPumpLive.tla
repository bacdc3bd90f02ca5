----------------------------- MODULE MCPumpLive -----------------------------
(***************************************************************************)
(* Liveness of the pump, from two states the process can be in.  The       *)
(* initial state chooses one; no step changes which.                       *)
(*   First:  nothing is up yet and one network is left to join; the box of *)
(*           the other one was closed by a cleanup.  The game makes its    *)
(*           calls in any order.                                           *)
(*   Second: the game is on one network, with every peer introduced, and   *)
(*           may join the other, so that a hold on either one defers the   *)
(*           messages of both.  The game awaits its completions.           *)
(* No fair action depends on GameWaits: one Fairness serves both.          *)
(***************************************************************************)
EXTENDS MCPartyPump

VARIABLE which

Waiting == INSTANCE PartyPump WITH GameWaits <- TRUE

N == CHOOSE n \in Nets : TRUE

\* reached by PartyInitialize, PartyConnectToNetwork, PartyCleanup
ClosedBefore ==
  /\ up = FALSE /\ networks = << >>
  /\ net = [[m \in Nets |-> FreeBox] EXCEPT ![N].used = TRUE]
  /\ pending = << >> /\ in_flight = << >> /\ batch_outstanding = FALSE
  /\ members = {} /\ finished = {} /\ seen = {}

\* reached when a guest has connected, has its endpoint and was handed the
\* type 12 of every peer
Introduced ==
  /\ up = TRUE /\ networks = <<N>>
  /\ net = [[m \in Nets |-> FreeBox] EXCEPT
              ![N] = [@ EXCEPT !.used = TRUE, !.udp = TRUE,
                        !.connect_completed = TRUE, !.local_endpoint = TRUE,
                        !.remotes = Peers,
                        !.type10_delivered = TRUE, !.type12_delivered = TRUE]]
  /\ pending = << >> /\ in_flight = << >> /\ batch_outstanding = FALSE
  /\ members = Peers
  /\ finished = {Change(t, N) : t \in {3, 4, 10}}
                  \cup {PeerChange(N, p) : p \in Peers}
  /\ seen = {}

LiveInit ==
  \/ which = "First" /\ ClosedBefore
  \/ which = "Second" /\ Introduced
LiveNext ==
  /\ \/ which = "First" /\ Next
     \/ which = "Second" /\ Waiting!Next
  /\ UNCHANGED which
LiveSpec == LiveInit /\ [][LiveNext]_<<which, vars>> /\ Fairness
=============================================================================
