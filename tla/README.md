# A TLA+ verification of GBFR-LAN-Server

GBFR-LAN-Server replaces the online services of a game by programs on a local
network. Every player's machine loads shims in place of the vendor's DLLs; one
machine runs the broker. This directory models the parts that are concurrent,
distributed or fallible, model-checks them with TLC on small instances, and
proves the central properties of the delivery protocol with TLAPS.

Contents: 1 the system, 2 modules and correspondence, 3 runs, 4 proofs,
5 findings, 6 what is not modelled, 7 plan, 8 how to run.

## 1. The system

    game  <->  party-shim       <-- UDP -->  party-shim  <->  game
               playfab-mp-shim  --- HTTP -->  lan-server (broker)
               steam-http-shim  --- HTTP -->  lan-server

### Components, their state and operations

| Component (source) | State it keeps | Operations | What makes it hard |
|---|---|---|---|
| Reliable delivery layer (`party-shim/src/reliable.rs`) | per pairing a `Sender` (two counters, pending map with retry counts) and a `Receiver` (`g_next`, out-of-order buffer, best-effort high-water mark, ack timer) | `send`, `on_ack`, `due`, `on_message`, `forced_ack`, `piggyback_ack`, `drop_all` | UDP loses, duplicates, delays, reorders; both maps have caps; retries are bounded; u32 sequence numbers wrap |
| State-change pump (`party-shim/src/lib.rs`) | `Handle`: queue, outstanding batch, networks; `Network` box: flags, remotes, `pending_rx`, `pending_peers`, type-12 hold | Party API calls, `StartProcessing`, `FinishProcessing`, `recv_udp`, `poll_peers_apply`, `ensure_remote` | game thread and transport thread share it; peers appear by poll, by datagram and in the game's own member list in any order; every queue has a cap |
| Transport thread and outbox (same file) | outbox, `TRANSPORT_UP` | enqueue, service, inline fallback, drain at leave | hand-over between threads; the thread may die |
| Broker queue and peer polling (same file) | task queue, `BROKER_UP`, result slots, poll epochs | Register, Leave, PollPeers, coalescing, watchdog | blocking HTTP; timed-out requests still reach the broker |
| Party registry (`lan-server/src/main.rs`, `handle_party`) | rows per network: address, last seen, `member_seq` | join, leave, peers | expiry against keep-alive, late requests, mesh cap |
| Lobby service (`lan-server/src/main.rs`, `handle_playfab`) | lobbies, members, owner, properties, version | create, join, find, leave, update, get | owner migration, owners of several lobbies |
| Search filter (`lan-server/src/lobby_filter.rs`) | none | tokenize, parse, evaluate | pure algorithm |
| Listeners and connections (`lan-server/src/main.rs`) | connection count | accept, serve, release | none: a guard object returns the slot |
| Sessions and title services (same file) | session table | login, canned responses | none |
| PlayFab Multiplayer shim (`playfab-mp-shim/src/lib.rs`) | lobby boxes, queue, worker jobs, generation, parked joins | create, join, leave, find, update, poll | worker results against leave and re-initialise |
| Steam HTTP shim (`steam-http-shim/src/*`) | requests, call results, callbacks | create, send, run callbacks | callback lifetime across threads |
| Shared helpers (`common/*`), wire formats, diagnostics, scripts | none or read-only | parsing, logging, copying | none shared |

### Correctness, component by component

* **Delivery layer**: guaranteed sequential messages come out in order, once, and
  never ahead of an earlier guaranteed message; a guaranteed message is delivered,
  retained, or its eviction reported; duplicates occur only where the buffer had to
  forget; everything arrives while losses stay within the retry budget; a lost ack is
  made good by the next copy of its message.
* **Pump**: a peer is introduced (type 12) before its messages (type 21), and after
  the network completions it depends on; what is queued is handed out once and in
  order; completions are never dropped; what is acknowledged is queued.
* **Registry with broker queue**: a member that keeps pumping is listed under its
  newest address and learns everyone else's, whatever the broker and its own thread
  went through; poll results are applied in order by the box that asked, and none is
  lost but by the sweep or with the thread; late requests do not harm a newer
  registration of a client that numbers its requests (the shim does not, see section 5);
  the mesh keeps its size *(the last: planned as a theorem)*.
* **Lobbies**: one owner who is a member; the counts agree; a completion is delivered
  for every call. *(planned)*

The hazards, each at its source line, are listed in `PROJECT.json` with the
properties that cover them, or the reason none does yet.

## 2. Modules and correspondence

| Module | Models |
|---|---|
| `Reliable` | `reliable.rs` as pure operators on a `Sender` and a `Receiver`: `Send`, `OnAck`, `Due`, `OnMessage`, `AckSent`, serial comparison `seq_le` |
| `ReliableLink` | one direction of a pairing: a sender, a receiver and two unreliable channels |
| `OrderedStream` | the abstract promise: a FIFO stream that loses nothing |
| `ReliableLinkInv` | the inductive invariant of the link |
| `ReliableLinkProofs` | the theorems and their proofs |
| `PartyPump` | the state-change pump of one process; an arriving frame goes through `OnMessage` of `Reliable` |
| `PartyRegistry` | `handle_party` of the broker as pure operators on the rows of one network: join, leave, peers, expiry |
| `PartyMembership` | the shims' broker queues and peer polling, composed with `PartyRegistry` |
| `MCReliableLink`, `MCPartyPump` | constants and symmetry for TLC |
| `MCPumpLive` | the pump from two reachable states, for liveness with two networks |
| `MCMemberMesh` | three instances of `PartyMembership` in one run |

Operators named like a source function with a suffix (`OnGuaranteedSkip`,
`QueueScDropAny`, ...) are deliberately faulty variants. No specification uses
them; each shows that some property is sensitive to that mistake.

**Delivery layer.** `tx` and `rx` are the two structs. Clocks are abstracted: a
retransmission timer that has expired is a nondeterministic subset of the awaiting
messages (`Retransmit`), the forced-ack delay an action that may happen whenever an
ack is due. `net` is a set of datagrams, told apart by their retry count; `acks`
counts packets carrying each cumulative ack. `sent`, `log`, `evicted` and
`forgotten` are history variables. A payload is the index of its message;
`NoPayload` is the marker left in `g_buf` for a nonsequential message already
delivered. The traffic counters are left out.

**Pump.** `pending`, `in_flight`, `batch_outstanding` and `networks` are the fields of
`Handle`; `net[n]` is a `Network` box. One mutex guards all of it, so every API call
and every receive cycle of the transport thread is one action: `RecvUdp` replays each
network's buffer once and then takes up to `RecvBatch` datagrams. `Start` takes the set
of peers the latest poll listed as an arbitrary subset of the peers: the broker is
not part of this module. `members` is the game's live member list, which the shim
reads; `MemberInserted` changes it. `HoldExpires` is the timeout of the type-12 hold.
A box is used once, as `connect_network` allocates a new box per connect. The game
authenticates only on networks it is in.

**Membership.** `shim[e]` is a process: its newest `Network` box, the task queue, the
request in progress and the stored poll results. The handle mutex makes each call of
the game one action, except `StartProcessing`, whose two halves (`PumpRequest`,
`PumpApply`) the broker thread may separate because it never takes that mutex.
A left box stays allocated, and `PartyNetworkAuthenticateLocalUser` lists the newest one
again with the poll flag and timers of its earlier stay; connecting then reuses it.
`TakeTask`, `Serve` and `Answered` are one HTTP request: between the broker's answer
and the storing of the result anything may happen. `GiveUp` is a timeout or an error;
the request may still reach the broker (`ServeLate`). After `ThreadDies` the game
thread drains the queue itself: `inline` is true while it does, and the game makes no
other call. A box binds its own UDP port, and its epoch names the port. The shim's requests
carry no `member_seq`; `SendsSeq` is true only for a client, outside this repository, that
numbers them as the broker's tests do.
Time is a tick of one keep-alive period (10 s), so the TTL is 3 and the watchdog 1.
`Prompt` restricts the clock, not the program: a tick passes only when what was due has
been done, which holds when games pump every frame and requests take seconds. A poll that
is lost, and the queue of a dead thread, are not due until the watchdog or the next
dispatch, so the clock goes on over them. `swept`, `stay` and `told` are history.

## 3. Runs

| Run | Question | Instance |
|---|---|---|
| `link_safety` | order, accountability, duplicates and caps in all five send modes, with one of each network fault and both caps overflowing; also `IndInv` | 3 messages, retries 0, caps 2 and 1, one loss, ack loss, duplicate, piggyback; 1,145,788 states |
| `link_liveness` | every guaranteed message arrives, the link implements `OrderedStream`, the pending map empties for good, lost acks are made good by later copies | 2 messages, one loss, one lost ack, one retry; 10,447 states |
| `link_gives_up` *(violation)* | does a guaranteed message always arrive? | two losses, one retry |
| `pump_one_net` | introductions, FIFO hand-out, acknowledged means queued | 1 network, 2 peers, 2 datagrams a cycle; 272,498 states |
| `pump_two_nets` | cross-network holds, overflowing queue, completions kept | 2 networks, 1 peer, queue cap 3, batches of 2; 773,472 states |
| `pump_liveness` | everything queued is handed out and returned, also across another network's hold; a listed peer appears | 2 networks, 1 peer, batches of 1, two start states; 8,875 states |
| `pump_acked_drop` *(violation)* | is what was acknowledged queued, at the queue's cap? | queue cap 1 |
| `pump_stall` *(violation)* | is a buffered frame of a known peer replayed? | 2 peers, one never a member |
| `member_faults` | order of polls, and what can lose one, under every fault at once | 1 player, 2 boxes, one listed again, 3 polls, 2 ticks; 3,038,863 states |
| `member_mesh` | settled players are listed and have fresh listings; a numbering client's newer row survives late requests | Mesh: 2 players, broker restart, 3 ticks. Alone: 1 player, 2 boxes, one listed again, every fault, 4 ticks. Numbered: 1 client, 2 boxes, every fault. 3,303,724 states |
| `member_late_request` *(violation)* | is a request that the broker handles late harmless? | 1 player, 2 boxes, one unanswered request |
| `member_rejoin` *(violation)* | is a player whose requests are all answered registered? | 1 player, 2 boxes, no fault |

**Bounds.** The caps of the code (4096, 256, 128, 32, 16, 8) become 1 to 4, so that the
overflow paths of the link and the pump are taken (the mesh cap's is not, see section 6). Three messages are the fewest with a gap, a buffered
successor and an eviction at once. `MaxSend`, `MaxLoss`, `MaxAckLoss`, `MaxDup` and
`MaxReturn` bound the link. In `link_safety` a message gets no retransmission; a network duplicate
stands in for it at the receiver. The proved properties hold for every retry budget;
`DuplicatesOnlyAfterEviction`, `MapsBounded` and `BestEffortMonotone`, which are not
proved, are checked with budget 0 only, and the plan has their proofs. `MaxBuffered` bounds the pump: the code itself does not
bound `pending_rx` behind a frame that cannot be delivered, so no frame arrives beyond that length.
`pump_liveness` starts from two states that the full model reaches: nothing up, with one
network left to join and the game calling in any order; and a game that is on one network
with its peer introduced and may join a second, which is where a hold defers messages (a
network whose own type 12 is owed has no message queued yet).
In `pump_two_nets` and for that second start the constant `GameWaits` makes the game await each completion
before its next call. In `pump_two_nets` the two networks are symmetric, and the view leaves out the
history of messages, which none of that run's properties reads and no guard depends on.
The link and membership runs switch deadlock checking off: when every message is sent
and acknowledged or given up, or every bound is used, the bounded system rightly stops.
Membership is bounded by `MaxBoxes`, `MaxReadds`, `MaxPolls`, `MaxTicks`, `MaxGiveUps`,
`MaxRestarts` and `MaxDeaths`; two boxes are what a rejoin needs, two ticks make the
watchdog fire with a poll still queued, and `Settle` ticks must fit after a fault. That a
player is listed "in the end" is stated with a deadline, as an invariant
(`SettledIsListed`, `SettledKnowEachOther`: two periods for one player, three for a mesh),
which says more than a leads-to. What fairness would assume is assumed by `Prompt`
instead: `member_mesh` says nothing of a game that stops pumping or a broker slower than a
keep-alive period. Only Alone has more ticks than the TTL, and with them expiry.

**Fairness.** Link: the transport thread calls `due` and `forced_ack` forever, so an
armed timer is eventually acted on; a datagram that is not lost arrives. Nothing
obliges the game to send, or the peer to send packets that piggyback an ack. Pump:
the game keeps calling Start and Finish (it does so every frame) and the receive
cycle keeps running. Receiving a message is not fair. Fairness of the idle cycle is
written with its enabling condition spelled out, which is the same property and
cheaper to evaluate. The hold's timeout is not assumed fair: the properties hold
without it.

## 4. Proofs

`ReliableLinkProofs` proves, for every cap, retry budget, set of send options and
bound on faults:

* `IndInvariant`: `Spec => []IndInv`
* `TypeCorrect`: `Spec => []TypeOK`
* `OrderedDeliveryHolds`: `Spec => []OrderedDelivery`
* `NoSilentLossHolds`: `Spec => []NoSilentLoss`

**Assumptions.** The named assumptions on the constants in `Reliable` and
`ReliableLink` (naturals, positive caps, options built from the flags), and
`NoWrapAssumption`: `2 * MaxSend + 2 < SeqMod`, a pairing sends fewer than half of the
sequence space. With `SeqMod` = 2^32 that is two thousand million messages. Beyond it
`next_gseq` passes through the reserved number 0 (`reliable.rs:194`) and the maps are no
longer in send order, so the assumption is needed.

**Argument.** Neither property is inductive. An ack that is years old may arrive now,
so `NoSilentLoss` needs that every ack *in flight* covers only released messages
(`AcksSound`), which needs that everything below `g_next` has been released
(`PrefixReleased`). That needs what the buffer says to be true (`BufferFaithful`: a
payload under its own number, or the marker of a message already released), which
needs the same of datagrams and the pending map (`WireFaithful`, `PendingFaithful`)
and numbers that increase with send order (`SentNumbered`). For order,
`ReleasedFaithful` says that no ordered message at or beyond `g_next` has been
released. Below half of the sequence space `seq_le` is `<=`; that lemma carries all
the arithmetic. Each action then preserves each conjunct.

**Only model-checked.** Liveness and the refinement of `OrderedStream` (which contains
liveness), `DuplicatesOnlyAfterEviction`, `BestEffortMonotone`, `MapsBounded`, and
everything about the pump and membership.

Many leaves cite `SMTT(30)`: they need a few seconds of Z3, and the longer limit keeps the
result independent of the machine's load.

## 5. Findings

1. `due` gives a message up after `MAX_RETRIES`; the module's contract says it arrives
   unless the endpoint is destroyed (`link_gives_up`).
2. At `PENDING_CAP` a message already acknowledged is dropped (`pump_acked_drop`).
3. A frame from a peer that never becomes a member keeps back all later frames
   (`pump_stall`).
4. Requests of the shim carry no `member_seq`, so one that the broker handles late
   overwrites or deletes the row of the player's newer box; the docs call reordered joins
   and leaves harmless (`member_late_request`).
5. A Register coalesces into one queued before a Leave, so the Leave comes last and the
   player who rejoined is unregistered until the next keep-alive (`member_rejoin`).

## 6. Not modelled

Diagnostics and probes of process memory, PE patching, ABI layouts, scripts: I/O
without protocol state. Sessions and title services: lookup tables. Wire and text
formats: pure parsing, covered by unit tests. In the pump: local users, endpoint
addresses, authenticating again on a network that was left (membership has it). In the link: `drop_all`.
In membership: several listed boxes in one process, and with them the eviction of another
network's Register at the queue's cap and an older box listed again beside the newest; a broker thread that ends before `BROKER_UP` is
stored. Mesh cap: the refusal is modelled, but in every run there is room for all.
Listeners: I/O on sockets; a guard object's destructor returns the connection slot. All other
components of section 1 are planned.

## 7. Plan

In order of importance:

1. `LobbyBroker`: lobby life cycle and ownership; abstract specification of a lobby.
2. `PartyTransport` (outbox, thread death, inline path) and `PartyMesh` (both ends of a
   pairing with leave, rejoin and `drop_all`, reusing `Reliable`).
3. `LobbyClient`, composed with `LobbyBroker`: generations, parked joins, diffs.
4. `SteamCalls`, `LobbyFilter` (evaluation against a reference).
5. Proofs: the link implements the stream (safety part), `MapsBounded`,
   `BestEffortMonotone`, `DuplicatesOnlyAfterEviction`; `PollOrder`, `MeshBounded`
   and the lobby's invariants.

## 8. How to run

    tlc -workers 2 -config LinkSafety.cfg MCReliableLink
    tlapm ReliableLinkProofs.tla

`PROJECT.json` lists every run with its module and configuration.
