----------------------------- MODULE PartyPump ------------------------------
(***************************************************************************)
(* The state-change pump of party-shim/src/lib.rs: one process, its        *)
(* global Handle and its Network boxes.  The game calls the Party API and  *)
(* pumps Start/Finish; the transport thread receives datagrams under the   *)
(* same mutex; peer-poll results and the game's own member list decide     *)
(* when a remote endpoint may appear.                                      *)
(*                                                                         *)
(* State changes are records of their type number (2, 3, 4, 10, 12, 19 and *)
(* 21), the network and, where they name one, the remote peer and message. *)
(* A box of the set Nets is used once: a network left and joined again is  *)
(* a new box, as in connect_network.  Sending is the business of           *)
(* ReliableLink: an arriving datagram is any frame of Frames from any peer,*)
(* at any time and any number of times.                                    *)
(***************************************************************************)
EXTENDS Reliable

SeqExt == INSTANCE SequencesExt

CONSTANTS
  Nets,       \* Network boxes the process may allocate
  Peers,      \* remote entities
  Frames,     \* [id, seq, options]: the messages each peer sends
  ScCap,      \* PENDING_CAP of lib.rs: type-21s are dropped at this depth
  RxCap,      \* the 128 of recv_udp: frames kept in pending_rx
  PeerCap,    \* the 16 of queue_pending_peer
  RemoteCap,  \* the 8 of ensure_remote
  BatchCap,   \* the 32 of StartProcessing
  RecvBatch,  \* RECV_BATCH: datagrams one recv_udp cycle takes
  GameWaits,  \* TRUE: the game makes its next call after the last completed
  MaxBuffered \* model bound: no frame arrives beyond this many in pending_rx

ASSUME PumpLimitsAssumption ==
  /\ {ScCap, RxCap, PeerCap, RemoteCap, BatchCap, RecvBatch, MaxBuffered}
       \subseteq Nat \ {0}
  /\ GameWaits \in BOOLEAN
  /\ \A f \in Frames : f.id \in Nat \ {NoPayload} /\ f.seq \in Seqs

VARIABLES
  up,                 \* PartyInitialize has been called, PartyCleanup not
  networks,           \* h.networks
  net,                \* the Network boxes
  pending,            \* h.pending
  in_flight,          \* h.in_flight
  batch_outstanding,  \* h.batch_outstanding
  members,            \* the game's live member list
  finished,           \* history: the changes the game has returned
  seen                \* history: <<network, peer, id>> queued as type 21

vars == <<up, networks, net, pending, in_flight, batch_outstanding, members,
          finished, seen>>

Change(type, n) == [type |-> type, net |-> n]
PeerChange(n, p) == [type |-> 12, net |-> n, peer |-> p]
MessageChange(n, p, id) == [type |-> 21, net |-> n, peer |-> p, id |-> id]

FreeBox ==
  [local_endpoint |-> FALSE, remotes |-> {}, udp |-> FALSE,
   connect_completed |-> FALSE, pending_rx |-> << >>, pending_peers |-> << >>,
   type10_delivered |-> FALSE, type12_delivered |-> FALSE,
   hold |-> "none", used |-> FALSE,
   rx |-> [p \in Peers |-> ReceiverNew]]

(***************************************************************************)
(* The helpers thread the part of the state they change, a record          *)
(* [net, pending, seen], through their calls.                              *)
(***************************************************************************)
Core == [net |-> net, pending |-> pending, seen |-> seen]

Becomes(core) ==
  \E c \in {core} : net' = c.net /\ pending' = c.pending /\ seen' = c.seen

\* (QueueScDropAny forgets that only type 21 may be dropped, QueueScLate
\* drops one too late.)
QueueScDropAny(c, sc) ==
  IF Len(c.pending) >= ScCap THEN c
  ELSE [c EXCEPT !.pending = Append(@, sc)]
QueueScLate(c, sc) ==
  IF sc.type = 21 /\ Len(c.pending) > ScCap THEN c
  ELSE [c EXCEPT !.pending = Append(@, sc)]
QueueSc(c, sc) ==
  IF sc.type = 21 /\ Len(c.pending) >= ScCap THEN c
  ELSE [c EXCEPT !.pending = Append(@, sc)]

DeliverType21(c, n, p, id) ==
  LET d == QueueSc(c, MessageChange(n, p, id))
  IN  [d EXCEPT !.seen = IF d.pending = c.pending THEN @
                         ELSE @ \cup {<<n, p, id>>}]

DeliverReliable(c, n, p, f) ==
  LET o == OnMessage(c.net[n].rx[p], f.seq, f.options, f.id)
      Hand(d, id) == IF id = NoPayload THEN d ELSE DeliverType21(d, n, p, id)
  IN  SeqExt!FoldLeft(Hand, [c EXCEPT !.net[n].rx[p] = o.rx], o.out)

\* How many buffered frames flush_pending_rx replays: it stops at the first
\* one whose sender has no remote endpoint.
Flushable(b) ==
  IF ~ (b.local_endpoint /\ b.type12_delivered) THEN 0
  ELSE Max({k \in 0 .. Len(b.pending_rx) :
              \A i \in 1 .. k : b.pending_rx[i].peer \in b.remotes})
FlushPendingRx(c, n) ==
  LET b == c.net[n]
      k == Flushable(b)
  IN  SeqExt!FoldLeft(LAMBDA d, e : DeliverReliable(d, n, e.peer, e.frame),
               [c EXCEPT !.net[n].pending_rx = SubSeq(@, k + 1, Len(@))],
               SubSeq(b.pending_rx, 1, k))

(***************************************************************************)
(* Remote endpoints.                                                       *)
(***************************************************************************)
\* (MayAppearEarly lets a peer appear before the type 10 is finished,
\* MayAppearShort misreads the cap.)
MayAppearShort(b, p) ==
  /\ b.connect_completed
  /\ b.local_endpoint /\ b.type10_delivered
  /\ p \notin b.remotes
  /\ p \in members
  /\ Cardinality(b.remotes) + 1 < RemoteCap
MayAppearEarly(b, p) ==
  /\ b.connect_completed
  /\ b.local_endpoint
  /\ p \notin b.remotes
  /\ p \in members
  /\ Cardinality(b.remotes) < RemoteCap
MayAppear(b, p) ==
  /\ b.connect_completed
  /\ b.local_endpoint /\ b.type10_delivered
  /\ p \notin b.remotes
  /\ p \in members
  /\ Cardinality(b.remotes) < RemoteCap
EnsureRemote(c, n, p) ==
  IF ~ MayAppear(c.net[n], p) THEN c
  ELSE QueueSc([c EXCEPT !.net[n].remotes = @ \cup {p},
                         !.net[n].rx[p] = ReceiverNew],
               PeerChange(n, p))

\* A peer first seen on the wire waits for the game's thread.
QueuePendingPeer(b, p) ==
  IF p \in Range(b.pending_peers) \/ Len(b.pending_peers) >= PeerCap THEN b
  ELSE [b EXCEPT !.pending_peers = Append(@, p)]

DrainPendingPeers(c, n) ==
  SeqExt!FoldLeft(LAMBDA d, p : EnsureRemote(d, n, p),
           [c EXCEPT !.net[n].pending_peers = << >>],
           c.net[n].pending_peers)

\* poll_peers_apply of a result that lists these members, in this order.
PollPeersApply(c, n, listed) ==
  IF ~ c.net[n].connect_completed THEN c
  ELSE SeqExt!FoldLeft(LAMBDA d, p : EnsureRemote(d, n, p), c, listed)

(***************************************************************************)
(* recv_udp.                                                               *)
(***************************************************************************)
BufferFrame(b, p, f) ==
  [b EXCEPT !.pending_rx =
     Append(IF Len(@) >= RxCap THEN Tail(@) ELSE @, [peer |-> p, frame |-> f])]

\* (ReceiveMsgAcks runs the receiver on a frame it then only buffers.)
ReceiveMsgAcks(c, n, p, f) ==
  LET b == c.net[n] IN
  IF ~ b.local_endpoint \/ ~ b.type12_delivered
    THEN [c EXCEPT !.net[n] =
            [BufferFrame(b, p, f) EXCEPT
               !.rx[p] = OnMessage(@, f.seq, f.options, f.id).rx]]
  ELSE DeliverReliable(c, n, p, f)
ReceiveMsg(c, n, p, f) ==
  LET b == c.net[n] IN
  IF p \notin b.remotes \/ ~ b.local_endpoint \/ ~ b.type12_delivered
    THEN [c EXCEPT !.net[n] = BufferFrame(b, p, f)]
  ELSE IF b.pending_rx # << >>
    THEN FlushPendingRx([c EXCEPT !.net[n].pending_rx =
                           Append(@, [peer |-> p, frame |-> f])], n)
  ELSE DeliverReliable(c, n, p, f)

\* The sender of any datagram is a candidate peer, unless it is known.
NoteSender(c, n, p) ==
  LET b == c.net[n] IN
  IF ~ b.connect_completed \/ p \in b.remotes THEN c
  ELSE [c EXCEPT !.net[n] = QueuePendingPeer(b, p)]

\* A datagram holds one frame, or none if it is a HELLO or a bare ACK; the
\* poll that these request may run at any Start.
Datagrams ==
  [net : Nets, peer : Peers, frames : {<< >>} \cup {<<f>> : f \in Frames}]
Arrived(c, d) ==
  SeqExt!FoldLeft(LAMBDA e, f : ReceiveMsg(e, d.net, d.peer, f),
                  NoteSender(c, d.net, d.peer), d.frames)

\* One cycle replays what it can and then takes the datagrams that have
\* arrived, network by network.
RecvCycle(arrivals) ==
  LET For(n) == SelectSeq(arrivals, LAMBDA d : d.net = n)
  IN  SeqExt!FoldLeft(
        LAMBDA c, n : SeqExt!FoldLeft(Arrived, FlushPendingRx(c, n), For(n)),
        Core, networks)

RecvUdp(arrivals) ==
  /\ up
  /\ \A n \in Nets :
       LET framed(d) == d.net = n /\ d.frames # << >> IN
       /\ (\E d \in Range(arrivals) : d.net = n) => net[n].udp
       /\ (\E d \in Range(arrivals) : framed(d)) =>
            Len(net[n].pending_rx) + Len(SelectSeq(arrivals, framed))
              <= MaxBuffered
  /\ Becomes(RecvCycle(arrivals))
  /\ UNCHANGED <<up, networks, in_flight, batch_outstanding, members, finished>>

\* A cycle, or the inline fallback of Start, that finds the sockets empty.
RecvIdle == RecvUdp(<< >>)

(***************************************************************************)
(* StartProcessing.                                                        *)
(***************************************************************************)
Type12Owed(b) == b.type10_delivered /\ ~ b.type12_delivered /\ b.remotes # {}

\* note_type12_hold: a hold starts when it is first observed.  "old" is a
\* hold that has outlived TYPE12_HOLD_TIMEOUT_MS.
NoteType12Hold(boxes) ==
  [n \in Nets |->
     IF n \notin Range(networks) THEN boxes[n]
     ELSE [boxes[n] EXCEPT !.hold = IF ~ Type12Owed(boxes[n]) THEN "none"
                                    ELSE IF @ = "none" THEN "young"
                                    ELSE @]]
\* (HoldingAnywhere also looks at networks that were left.)
HoldingAnywhere(boxes) ==
  /\ \E n \in Nets : boxes[n].hold = "young"
  /\ \A n \in Nets : boxes[n].hold # "old"
Holding(boxes) ==
  /\ \E n \in Range(networks) : boxes[n].hold = "young"
  /\ \A n \in Range(networks) : boxes[n].hold # "old"

\* The drain loop on queue q: type 21 is set aside while `defer`, anything
\* else is handed out, and the loop ends after a type 12 or a full batch.
\* (DrainedPastPeer does not stop at a type 12.)
Handed(q, defer, i) == ~ (defer /\ q[i].type = 21)
HandedUpTo(q, defer, i) == {j \in 1 .. i : Handed(q, defer, j)}
DrainedPastPeer(q, defer) ==
  Min({Len(q)} \cup
      {i \in 1 .. Len(q) : Cardinality(HandedUpTo(q, defer, i)) = BatchCap})
Drained(q, defer) ==
  Min({Len(q)} \cup
      {i \in HandedUpTo(q, defer, Len(q)) :
         q[i].type = 12 \/ Cardinality(HandedUpTo(q, defer, i)) = BatchCap})
IsMessage(sc) == sc.type = 21
IsControl(sc) == sc.type # 21
Batch(q, defer) ==
  LET scanned == SubSeq(q, 1, Drained(q, defer))
  IN  IF defer THEN SelectSeq(scanned, IsControl) ELSE scanned
\* The deferred messages go back to the front, in their order.
\* (LeftBehind puts them back at the end, LeftLoses drops the change the
\* loop popped when it found the batch full.)
LeftBehind(q, defer) ==
  LET k == Drained(q, defer)
  IN  SubSeq(q, k + 1, Len(q))
        \o (IF defer THEN SelectSeq(SubSeq(q, 1, k), IsMessage) ELSE << >>)
LeftLoses(q, defer) ==
  LET k == Drained(q, defer)
      full == Cardinality(HandedUpTo(q, defer, k)) = BatchCap
  IN  (IF defer THEN SelectSeq(SubSeq(q, 1, k), IsMessage) ELSE << >>)
        \o SubSeq(q, IF full THEN k + 2 ELSE k + 1, Len(q))
Left(q, defer) ==
  LET k == Drained(q, defer)
  IN  (IF defer THEN SelectSeq(SubSeq(q, 1, k), IsMessage) ELSE << >>)
        \o SubSeq(q, k + 1, Len(q))

\* What a Start does before it builds a batch: the poll results that have
\* arrived, then the peers seen on the wire, network by network.
NewPeers(listed) ==
  LET polled == SeqExt!FoldLeft(LAMBDA c, n : PollPeersApply(c, n, listed[n]),
                                Core, networks)
  IN  SeqExt!FoldLeft(DrainPendingPeers, polled, networks)

Start(listed) ==
  /\ up
  /\ \E c \in {NewPeers(listed)} :
       IF batch_outstanding
         THEN /\ net' = c.net /\ pending' = c.pending
              /\ UNCHANGED <<in_flight, batch_outstanding>>
         ELSE \E boxes \in {NoteType12Hold(c.net)} :
                /\ net' = boxes
                /\ in_flight' = Batch(c.pending, Holding(boxes))
                /\ pending' = Left(c.pending, Holding(boxes))
                /\ batch_outstanding' = (in_flight' # << >>)
  /\ UNCHANGED <<up, networks, members, finished, seen>>

\* Finish: the game returns the batch it was handed.
\* (FinishKeepsBatch forgets that the batch is no longer outstanding.)
Returned(type, n) == \E sc \in Range(in_flight) : sc.type = type /\ sc.net = n
FinishKeepsBatch ==
  /\ up /\ in_flight # << >>
  /\ net' = [n \in Nets |->
               [net[n] EXCEPT !.type10_delivered = @ \/ Returned(10, n),
                              !.type12_delivered = @ \/ Returned(12, n)]]
  /\ finished' = finished \cup Range(in_flight)
  /\ in_flight' = << >>
  /\ UNCHANGED <<up, networks, pending, members, seen, batch_outstanding>>
Finish ==
  /\ up /\ in_flight # << >>
  /\ net' = [n \in Nets |->
               [net[n] EXCEPT !.type10_delivered = @ \/ Returned(10, n),
                              !.type12_delivered = @ \/ Returned(12, n)]]
  /\ finished' = finished \cup Range(in_flight)
  /\ in_flight' = << >> /\ batch_outstanding' = FALSE
  /\ UNCHANGED <<up, networks, pending, members, seen>>

(***************************************************************************)
(* The other calls of the game.                                            *)
(***************************************************************************)
NewHandle ==
  networks' = << >> /\ pending' = << >> /\ in_flight' = << >>
    /\ batch_outstanding' = FALSE

PartyInitialize ==
  /\ ~ up /\ up' = TRUE
  /\ NewHandle
  /\ UNCHANGED <<net, members, finished, seen>>

Queue(sc) == pending' = QueueSc(Core, sc).pending

\* The exe connects from CreateNewNetworkCompleted, authenticates once it
\* is connected and creates its endpoint once it is authenticated.
Awaited(sc) == GameWaits => sc \in finished

PartyCreateNewNetwork(n) ==
  /\ up /\ ~ net[n].used
  /\ net' = [net EXCEPT ![n].used = TRUE, ![n].udp = TRUE]
  /\ networks' = Append(networks, n)
  /\ Queue(Change(2, n))
  /\ UNCHANGED <<up, in_flight, batch_outstanding, members, finished, seen>>

\* The host connects to the network it created, a guest to a fresh box; a
\* second connect of either queues nothing.
PartyConnectToNetwork(n) ==
  /\ up
  /\ (n \in Range(networks) /\ Awaited(Change(2, n))) \/ ~ net[n].used
  /\ ~ net[n].connect_completed
  /\ net' = [net EXCEPT ![n].used = TRUE, ![n].connect_completed = TRUE,
                        ![n].udp = @ \/ ~ net[n].used]
  /\ networks' = IF net[n].used THEN networks ELSE Append(networks, n)
  /\ Queue(Change(3, n))
  /\ UNCHANGED <<up, in_flight, batch_outstanding, members, finished, seen>>

\* The game authenticates on a network it is connected to, and waits for
\* the completion before it asks again.
PartyNetworkAuthenticateLocalUser(n) ==
  /\ up /\ n \in Range(networks) /\ net[n].connect_completed
  /\ Awaited(Change(3, n))
  /\ Change(4, n) \notin Range(pending) \cup Range(in_flight) \cup finished
  /\ Queue(Change(4, n))
  /\ UNCHANGED <<up, networks, net, in_flight, batch_outstanding, members,
                 finished, seen>>

\* The game creates its endpoint once per network.
PartyNetworkCreateEndpoint(n) ==
  /\ up /\ n \in Range(networks) /\ ~ net[n].local_endpoint
  /\ Awaited(Change(4, n))
  /\ Becomes(FlushPendingRx(
               QueueSc([Core EXCEPT !.net[n].local_endpoint = TRUE],
                       Change(10, n)), n))
  /\ UNCHANGED <<up, networks, in_flight, batch_outstanding, members, finished>>

\* The socket is closed and every receiver starts anew; the box stays.
Closed(b) ==
  [b EXCEPT !.udp = FALSE, !.connect_completed = FALSE,
            !.rx = [p \in Peers |-> ReceiverNew]]

PartyNetworkLeaveNetwork(n) ==
  /\ up /\ n \in Range(networks)
  /\ Queue(Change(19, n))
  /\ net' = [net EXCEPT ![n] = Closed(@)]
  /\ networks' = SelectSeq(networks, LAMBDA m : m # n)
  /\ UNCHANGED <<up, in_flight, batch_outstanding, members, finished, seen>>

PartyCleanup ==
  /\ up /\ up' = FALSE
  /\ net' = [n \in Nets |-> IF n \in Range(networks) THEN Closed(net[n])
                            ELSE net[n]]
  /\ NewHandle
  /\ UNCHANGED <<members, finished, seen>>

(***************************************************************************)
(* The environment: the game inserts a lobby member into its own list, and *)
(* a hold outlives its timeout.                                            *)
(***************************************************************************)
MemberInserted(p) ==
  /\ p \notin members /\ members' = members \cup {p}
  /\ UNCHANGED <<up, networks, net, pending, in_flight, batch_outstanding,
                 finished, seen>>

HoldExpires(n) ==
  /\ net[n].hold = "young" /\ net' = [net EXCEPT ![n].hold = "old"]
  /\ UNCHANGED <<up, networks, pending, in_flight, batch_outstanding, members,
                 finished, seen>>

\* A poll result per network: any of the peers, in any order.
PeerLists == UNION {SeqExt!SetToSeqs(S) : S \in SUBSET Peers}

Init ==
  /\ up = FALSE /\ networks = << >> /\ net = [n \in Nets |-> FreeBox]
  /\ pending = << >> /\ in_flight = << >> /\ batch_outstanding = FALSE
  /\ members = {} /\ finished = {} /\ seen = {}

Next ==
  \/ PartyInitialize
  \/ PartyCleanup
  \/ \E n \in Nets : \/ PartyCreateNewNetwork(n)
                     \/ PartyConnectToNetwork(n)
                     \/ PartyNetworkAuthenticateLocalUser(n)
                     \/ PartyNetworkCreateEndpoint(n)
                     \/ PartyNetworkLeaveNetwork(n)
                     \/ HoldExpires(n)
  \/ \E listed \in [Nets -> PeerLists] : Start(listed)
  \/ Finish
  \/ RecvIdle
  \/ \E k \in 1 .. RecvBatch :
       \E arrivals \in [1 .. k -> Datagrams] : RecvUdp(arrivals)
  \/ \E p \in Peers : MemberInserted(p)

Spec == Init /\ [][Next]_vars

\* The game keeps pumping, the transport thread keeps running, and the
\* broker keeps listing every peer: it is asked again every 200 ms.
ListsAll(listed) == \A n \in Nets : Range(listed[n]) = Peers
\* When an idle cycle changes something: weak fairness of RecvIdle is
\* written with its enabling condition spelled out.
CanReplay == up /\ \E n \in Range(networks) : Flushable(net[n]) > 0
Fairness ==
  /\ WF_vars(Finish)
  /\ <>[]CanReplay => []<><<RecvIdle>>_vars
  /\ WF_vars(\E listed \in [Nets -> PeerLists] :
               ListsAll(listed) /\ Start(listed))
FairSpec == Spec /\ Fairness

(***************************************************************************)
(* Properties                                                              *)
(***************************************************************************)
Changes ==
  {Change(t, n) : t \in {2, 3, 4, 10, 19}, n \in Nets}
    \cup {PeerChange(n, p) : n \in Nets, p \in Peers}
    \cup {MessageChange(n, p, f.id) : n \in Nets, p \in Peers, f \in Frames}

\* Type invariant: queues hold state changes the shim emits, a batch is
\* outstanding exactly while the game holds one, and h.networks lists open
\* boxes once each.
PumpTypeOK ==
  /\ up \in BOOLEAN
  /\ networks \in Seq(Nets) /\ SeqExt!IsInjective(networks)
  /\ Range(pending) \cup Range(in_flight) \cup finished \subseteq Changes
  /\ batch_outstanding = (in_flight # << >>)
  /\ \A n \in Nets : /\ net[n].remotes \subseteq Peers
                     /\ net[n].hold \in {"none", "young", "old"}
                     /\ Range(net[n].pending_peers) \subseteq Peers

\* A message is handed to the game only when the game has returned the
\* type 12 that introduced its sender (docs/party-transport.md: "replayed
\* only after the remote's type 12 has been handed back"), although one
\* type12_delivered flag serves every remote of the network.
PeerBeforeMessage ==
  \A sc \in Range(in_flight) :
    IsMessage(sc) => PeerChange(sc.net, sc.peer) \in finished

\* A type 12 is handed out once per remote, after the game finished the
\* type 10 of its network ("the exe is not handed 10+12 in one pump") and no
\* earlier than the type 3 that gave the game the network handle.
PeerIntroduction ==
  \A i \in 1 .. Len(in_flight) :
    in_flight[i].type = 12 =>
      LET n == in_flight[i].net IN
      /\ in_flight[i] \notin finished \cup Range(pending)
      /\ Change(10, n) \in finished
      /\ Change(3, n) \in finished \cup Range(SubSeq(in_flight, 1, i - 1))

\* A guaranteed message the receiver acknowledges has been queued for the
\* game: buffering a frame in pending_rx, or evicting it there, never lets
\* its sender stop retransmitting it.
AckedIsQueued ==
  \A n \in Nets, p \in Peers, f \in Frames :
    Guaranteed(f.options) /\ f.seq \in 1 .. ack_value(net[n].rx[p])
      => <<n, p, f.id>> \in seen

\* No completion the game waits for is lost, however full the queue: each
\* network connected, endpoint created and remote registered has its type
\* 3, 10 or 12 queued, in the game's hands or returned.  ensure_remote never
\* retries a registered peer, so a lost type 12 would hide it for good.
CompletionsKept ==
  up => \A n \in Range(networks) :
    LET kept == Range(pending) \cup Range(in_flight) \cup finished IN
    /\ net[n].connect_completed => Change(3, n) \in kept
    /\ net[n].local_endpoint => Change(10, n) \in kept
    /\ \A p \in net[n].remotes : PeerChange(n, p) \in kept

\* The queue is bounded although control changes are never dropped: the
\* type-21s in it stay below the cap.
MessagesBounded == Len(SelectSeq(pending, IsMessage)) <= ScCap

\* No step loses, repeats or reorders what is queued.  A step that hands
\* out a batch keeps the messages in order and the control changes in
\* order, and only appends; every other step only appends.  (PartyCleanup
\* throws the whole handle away.)
PumpIsFIFO ==
  [][up /\ up' =>
       IF in_flight = << >> /\ in_flight' # << >>
         THEN /\ SelectSeq(in_flight' \o pending', IsMessage)
                   = SelectSeq(pending, IsMessage)
              /\ SeqExt!IsPrefix(SelectSeq(pending, IsControl),
                                 SelectSeq(in_flight' \o pending', IsControl))
         ELSE SeqExt!IsPrefix(pending, pending')]_vars

\* A buffered frame is replayed once its sender's endpoint and the local
\* one exist and the type 12 is finished, unless the game leaves: "Replayed
\* in FIFO order once both exist" (Network.pending_rx).
Buffered(n, p) ==
  \E i \in 1 .. Len(net[n].pending_rx) : net[n].pending_rx[i].peer = p
BufferedIsReplayed ==
  \A n \in Nets, p \in Peers :
    (/\ Buffered(n, p)
     /\ net[n].local_endpoint /\ net[n].type12_delivered
     /\ p \in net[n].remotes)
      ~> (~ Buffered(n, p) \/ n \notin Range(networks))

\* Whatever is queued is handed out and returned, unless the game throws
\* the handle away: no batch cap or outstanding batch keeps a change back
\* forever, and the messages that another network's hold defers come out
\* although that hold may start again, be left behind by the game or never
\* reach its timeout.
EverythingHandedOut ==
  \A sc \in Changes : sc \in Range(pending) ~> (sc \in finished \/ ~ up)

\* A peer the game lists and the broker reports gets its remote endpoint,
\* whatever order type 3, type 10, the member row and the poll come in,
\* unless the game leaves first.
PeerAppears ==
  \A n \in Nets, p \in Peers :
    (p \in members /\ net[n].connect_completed /\ net[n].type10_delivered)
      ~> (p \in net[n].remotes \/ ~ net[n].connect_completed)
=============================================================================
