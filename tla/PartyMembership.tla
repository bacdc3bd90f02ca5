-------------------------- MODULE PartyMembership ---------------------------
(***************************************************************************)
(* Membership of one Party network: the shims' broker queues and peer      *)
(* polling (party-shim/src/lib.rs) composed with the broker's registry.    *)
(*                                                                         *)
(* A shim's game thread dispatches Register, Leave and PollPeers tasks;    *)
(* its broker thread performs one HTTP request at a time.  The broker may  *)
(* restart with an empty registry, an answer may not come in time while    *)
(* the request still reaches the broker later, and the broker thread may   *)
(* die, after which the game thread runs the requests itself.              *)
(*                                                                         *)
(* Epochs number the Network boxes of a process; each box binds its own    *)
(* UDP port, named by its epoch.  A box that was left stays allocated, and *)
(* PartyNetworkAuthenticateLocalUser lists it again with all that its      *)
(* earlier stay left in it; the model keeps the newest box of a process.   *)
(* A tick is the keep-alive period.                                        *)
(***************************************************************************)
EXTENDS PartyRegistry, Sequences

CONSTANTS
  Period,       \* keep-alive period of poll_peers_request, in ticks
  Watchdog,     \* PEER_POLL_TIMEOUT_MS, in ticks
  SendsSeq,     \* FALSE: the shim, which sends no member_seq; TRUE: a
                \* client that numbers its requests
  Prompt,       \* TRUE: games pump, and requests end, within a tick
  Settle,       \* ticks after which a stay counts as settled
  MaxBoxes,     \* bound on the Network boxes of each process
  MaxReadds,    \* bound on boxes listed again after a leave
  MaxPolls,     \* bound on the polls of each process
  MaxTicks,     \* bound on the clock
  MaxGiveUps,   \* bound on requests that get no answer
  MaxRestarts,  \* bound on restarts of the broker
  MaxDeaths     \* bound on broker threads that die

ASSUME MembershipAssumption ==
  /\ {Period, Watchdog, Settle, MaxBoxes, MaxReadds, MaxPolls, MaxTicks,
      MaxGiveUps, MaxRestarts, MaxDeaths} \subseteq Nat
  /\ {SendsSeq, Prompt} \subseteq BOOLEAN

VARIABLES
  party,  \* app.party[network_id]
  shim,   \* the processes
  late,   \* requests that reach the broker after their client gave up
  stay,   \* history: ticks that a box has been connected undisturbed
  told,   \* history: told[e][f], the port the last listing gave e for f
  used    \* how much of each bound has been used

vars == <<party, shim, late, stay, told, used>>

Epochs == 1 .. MaxBoxes
Kinds == {"register", "leave", "poll"}
Task(kind, epoch, seq) == [kind |-> kind, epoch |-> epoch, seq |-> seq]
Tasks == [kind : Kinds, epoch : Epochs, seq : 0 .. MaxPolls]

\* no request in progress; otherwise its task, whether the broker has
\* answered, and the listing in the answer
NoListing == [e \in {} |-> 0]
Idle == [busy |-> FALSE]
Request(task) ==
  [busy |-> TRUE, task |-> task, served |-> FALSE, listing |-> NoListing]

NewProcess ==
  [status |-> "none",     \* of the box: none, created, connected
   epoch |-> 0,           \* poll_epoch of the newest box
   since |-> 0,           \* last_register.elapsed()
   poll_inflight |-> FALSE,
   poll_age |-> 0,        \* poll_sent_at.elapsed()
   poll_applied_seq |-> 0,
   swept |-> FALSE,       \* history: the last poll's result was swept
   next_seq |-> 0,        \* NEXT_POLL_SEQ
   queue |-> << >>,       \* BROKER_Q
   up |-> TRUE,           \* BROKER_UP
   inline |-> FALSE,      \* the game thread is draining the queue itself
   running |-> Idle,      \* the request broker_run is waiting for
   results |-> {},        \* peer_poll_results: [epoch, seq, listing]
   pumping |-> FALSE]     \* inside StartProcessing, request made

Init ==
  /\ party = NoRows
  /\ shim = [e \in Entities |-> NewProcess]
  /\ late = {}
  /\ stay = [e \in Entities |-> 0]
  /\ told = [e \in Entities |-> [f \in Entities |-> 0]]
  /\ used = [ticks |-> 0, giveUps |-> 0, restarts |-> 0, deaths |-> 0,
             readds |-> 0]

(***************************************************************************)
(* dispatch_broker.  A Register takes the place of one that is already     *)
(* queued, wherever it is; other tasks go to the end.  Without a broker    *)
(* thread the caller drains the queue and then runs its task: the task     *)
(* goes to the end, and the call is inline until all of it has run.        *)
(* (DispatchAppends never coalesces, DispatchJumps runs a task before the  *)
(* queued ones.)                                                           *)
(***************************************************************************)
Coalesces(p, task) ==
  /\ p.up /\ task.kind = "register"
  /\ \E i \in 1 .. Len(p.queue) : p.queue[i].kind = "register"
Coalesced(p, task) ==
  [p EXCEPT !.queue = [i \in DOMAIN @ |->
                         IF @[i].kind = "register" THEN task ELSE @[i]]]
DispatchAppends(p, task) ==
  [p EXCEPT !.queue = Append(@, task), !.inline = ~ p.up]
DispatchJumps(p, task) ==
  IF Coalesces(p, task) THEN Coalesced(p, task)
  ELSE [p EXCEPT !.queue = <<task>> \o @, !.inline = ~ p.up]
Dispatch(p, task) ==
  IF Coalesces(p, task) THEN Coalesced(p, task)
  ELSE [p EXCEPT !.queue = Append(@, task), !.inline = ~ p.up]

CanCall(e) == ~ shim[e].pumping /\ ~ shim[e].inline

Register(p) == Dispatch(p, Task("register", p.epoch, 0))

(***************************************************************************)
(* poll_peers_request: the keep-alive if it is due, then a poll unless one *)
(* is in flight that the watchdog has not given up.  (KeepAliveForgets     *)
(* notes the time and sends nothing, SendPollLatched has no watchdog.)     *)
(***************************************************************************)
KeepAliveForgets(p) == [p EXCEPT !.since = IF @ >= Period THEN 0 ELSE @]
KeepAlive(p) ==
  IF p.since >= Period THEN Register([p EXCEPT !.since = 0]) ELSE p

SendPollLatched(p) ==
  IF p.poll_inflight THEN p
  ELSE Dispatch([p EXCEPT !.poll_inflight = TRUE, !.poll_age = 0,
                          !.next_seq = @ + 1, !.swept = FALSE],
                Task("poll", p.epoch, p.next_seq + 1))
SendPoll(p) ==
  IF p.poll_inflight /\ p.poll_age < Watchdog THEN p
  ELSE Dispatch([p EXCEPT !.poll_inflight = TRUE, !.poll_age = 0,
                          !.next_seq = @ + 1, !.swept = FALSE],
                Task("poll", p.epoch, p.next_seq + 1))

PollPeersRequest(p) ==
  IF p.status # "connected" THEN p ELSE SendPoll(KeepAlive(p))

\* poll_peers_apply, after drop_stale_peer_results: only the result of the
\* listed box survives the sweep, and a box that is not connected does not
\* take it yet.
Mine(p) == {r \in p.results : p.status # "none" /\ r.epoch = p.epoch}
PollPeersApply(p) ==
  IF p.status = "connected" /\ Mine(p) # {}
  THEN LET r == CHOOSE x \in Mine(p) : TRUE
       IN  [p EXCEPT !.results = {}, !.poll_inflight = FALSE,
                     !.poll_applied_seq = IF r.seq <= @ THEN @ ELSE r.seq]
  ELSE [p EXCEPT !.results = Mine(p),
                 !.swept = @ \/ \E r \in p.results \ Mine(p) :
                                  r.epoch = p.epoch]

\* the Network box that create and connect allocate
NewBox(p, status) ==
  [p EXCEPT !.status = status, !.epoch = @ + 1, !.since = 0,
            !.poll_inflight = FALSE, !.poll_age = 0, !.poll_applied_seq = 0,
            !.swept = FALSE]

-----------------------------------------------------------------------------
(***************************************************************************)
(* The game's calls, under the handle mutex.                               *)
(***************************************************************************)
Update(e, p) ==
  /\ p.next_seq <= MaxPolls
  /\ p.epoch <= MaxBoxes
  /\ shim' = [shim EXCEPT ![e] = p]

\* history: the box is new, or not listed any more, or something failed
Restless(e) ==
  /\ stay' = [stay EXCEPT ![e] = 0]
  /\ told' = [told EXCEPT ![e] = [f \in Entities |-> 0]]

\* The network id is fresh, so only one process creates it, and nobody
\* connects before that.
PartyCreateNewNetwork(e) ==
  /\ \A f \in Entities : shim[f].epoch = 0
  /\ Update(e, Register(NewBox(shim[e], "created")))
  /\ Restless(e)
  /\ UNCHANGED <<party, late, used>>

\* A box that is not listed, because of a leave or a cleanup, is listed
\* again as it is: not connected, its poll_inflight, poll_sent_at and
\* last_register those of the earlier stay.  Nothing is sent.
PartyNetworkAuthenticateLocalUser(e) ==
  /\ CanCall(e)
  /\ used.readds < MaxReadds
  /\ shim[e].status = "none" /\ shim[e].epoch > 0
  /\ Update(e, [shim[e] EXCEPT !.status = "created"])
  /\ used' = [used EXCEPT !.readds = @ + 1]
  /\ UNCHANGED <<party, late, stay, told>>

\* connect_network: a box of its own, unless one is listed already
ConnectNew(e) ==
  /\ shim[e].status = "none"
  /\ Update(e, PollPeersRequest(Register(NewBox(shim[e], "connected"))))
  /\ Restless(e)

ConnectExisting(e) ==
  /\ shim[e].status # "none"
  /\ Update(e, PollPeersRequest([shim[e] EXCEPT !.status = "connected"]))
  /\ UNCHANGED <<stay, told>>

PartyConnectToNetwork(e) ==
  /\ CanCall(e)
  /\ \E f \in Entities : shim[f].epoch > 0
  /\ ConnectNew(e) \/ ConnectExisting(e)
  /\ UNCHANGED <<party, late, used>>

PartyNetworkLeaveNetwork(e) ==
  /\ CanCall(e)
  /\ shim[e].status # "none"
  /\ Update(e, Dispatch([shim[e] EXCEPT !.status = "none"],
                        Task("leave", shim[e].epoch, 0)))
  /\ Restless(e)
  /\ UNCHANGED <<party, late, used>>

\* the boxes go, and the broker is not told
PartyCleanup(e) ==
  /\ CanCall(e)
  /\ shim[e].status # "none"
  /\ Update(e, [shim[e] EXCEPT !.status = "none"])
  /\ Restless(e)
  /\ UNCHANGED <<party, late, used>>

\* StartProcessing: first the request, if a poll is due ...  (A call that
\* would request nothing, with no result waiting, is left out.)
PumpRequest(e) ==
  /\ CanCall(e)
  /\ \/ /\ PollPeersRequest(shim[e]) # shim[e]
        /\ Update(e, [PollPeersRequest(shim[e]) EXCEPT !.pumping = TRUE])
     \/ /\ shim[e].results # {}
        /\ Update(e, [shim[e] EXCEPT !.pumping = TRUE])
  /\ UNCHANGED <<party, late, stay, told, used>>

\* ... then the results, which the broker thread may store in between
PumpApply(e) ==
  LET p == shim[e]
      news == {r \in Mine(p) : p.status = "connected"
                               /\ r.seq > p.poll_applied_seq}
  IN  /\ p.pumping /\ ~ p.inline
      /\ Update(e, [PollPeersApply(p) EXCEPT !.pumping = FALSE])
      /\ told' = [told EXCEPT ![e] = [f \in Entities |->
                    IF \E r \in news : f \in DOMAIN r.listing
                    THEN (CHOOSE r \in news : TRUE).listing[f] ELSE @[f]]]
      /\ UNCHANGED <<party, late, stay, used>>

-----------------------------------------------------------------------------
(***************************************************************************)
(* broker_loop and broker_run: one request at a time, performed by the     *)
(* broker thread or, inline, by the game thread.                           *)
(***************************************************************************)
\* The number in the body of a request: the shim's bodies have none.
SentSeq(task) == IF SendsSeq THEN task.epoch ELSE 0

Handled(e, task) ==
  CASE task.kind = "register" -> PartyJoin(party, e, task.epoch, SentSeq(task))
    [] task.kind = "leave"    -> PartyLeave(party, e, SentSeq(task))
    [] task.kind = "poll"     -> PartyPeers(party, {})

TakeTask(e) ==
  /\ shim[e].up \/ shim[e].inline
  /\ ~ shim[e].running.busy
  /\ shim[e].queue # << >>
  /\ shim' = [shim EXCEPT ![e].queue = Tail(@),
                          ![e].running = Request(Head(shim[e].queue))]
  /\ UNCHANGED <<party, late, stay, told, used>>

Serve(e) ==
  LET r == shim[e].running
  IN  /\ r.busy /\ ~ r.served
      /\ party' = Handled(e, r.task)
      /\ shim' = [shim EXCEPT ![e].running.served = TRUE,
           ![e].running.listing =
             IF r.task.kind = "poll"
             THEN [f \in DOMAIN party' |-> party'[f].port] ELSE @]
      /\ UNCHANGED <<late, stay, told, used>>

\* The request is over.  A poll stores its result, empty if no answer came.
\* (OverForgets stores nothing without an answer.)
OverForgets(p, listing) ==
  [p EXCEPT !.running = Idle,
            !.inline = @ /\ p.queue # << >>,
            !.results =
              IF p.running.task.kind # "poll" \/ listing = NoListing THEN @
              ELSE {r \in @ : r.epoch # p.running.task.epoch} \cup
                     {[epoch |-> p.running.task.epoch,
                       seq |-> p.running.task.seq, listing |-> listing]}]
Over(p, listing) ==
  [p EXCEPT !.running = Idle,
            !.inline = @ /\ p.queue # << >>,
            !.results =
              IF p.running.task.kind # "poll" THEN @
              ELSE {r \in @ : r.epoch # p.running.task.epoch} \cup
                     {[epoch |-> p.running.task.epoch,
                       seq |-> p.running.task.seq, listing |-> listing]}]

Answered(e) ==
  /\ shim[e].running.busy /\ shim[e].running.served
  /\ shim' = [shim EXCEPT ![e] = Over(@, @.running.listing)]
  /\ UNCHANGED <<party, late, stay, told, used>>

\* No answer in time, or none at all; the request may still arrive.
GiveUp(e, arrives) ==
  /\ used.giveUps < MaxGiveUps
  /\ shim[e].running.busy
  /\ arrives => ~ shim[e].running.served
  /\ shim' = [shim EXCEPT ![e] = Over(@, NoListing)]
  /\ late' = IF arrives
             THEN late \cup {[from |-> e, task |-> shim[e].running.task]}
             ELSE late
  /\ used' = [used EXCEPT !.giveUps = @ + 1]
  /\ Restless(e)
  /\ UNCHANGED party

ServeLate(r) ==
  /\ r \in late
  /\ party' = Handled(r.from, r.task)
  /\ late' = late \ {r}
  /\ UNCHANGED <<shim, stay, told, used>>

\* broker_thread_main after a panic: the task in hand is lost
ThreadDies(e) ==
  /\ used.deaths < MaxDeaths
  /\ shim[e].up /\ shim[e].running.busy
  /\ shim' = [shim EXCEPT ![e].up = FALSE, ![e].running = Idle]
  /\ used' = [used EXCEPT !.deaths = @ + 1]
  /\ Restless(e)
  /\ UNCHANGED <<party, late>>

\* the registry lives in memory
BrokerRestarts ==
  /\ used.restarts < MaxRestarts
  /\ party' = NoRows
  /\ used' = [used EXCEPT !.restarts = @ + 1]
  /\ stay' = [e \in Entities |-> 0]
  /\ told' = [e \in Entities |-> [f \in Entities |-> 0]]
  /\ UNCHANGED <<shim, late>>

\* Games pump every frame and a request takes seconds: between two ticks of
\* a prompt system everything that was due has been done.  What is not due:
\* the queue of a dead thread until the next dispatch, and a poll whose
\* result will not come until the watchdog gives it up.
Quiet(p) ==
  /\ ~ p.running.busy /\ ~ p.inline /\ ~ p.pumping
  /\ p.up => p.queue = << >>
  /\ p.status = "connected" =>
       /\ KeepAlive(p) = p
       /\ Mine(p) = {}
       /\ p.poll_inflight => SendPoll(p) = p

UpTo(n, bound) == IF n < bound THEN n + 1 ELSE n

Tick ==
  /\ used.ticks < MaxTicks
  /\ Prompt => late = {} /\ \A e \in Entities : Quiet(shim[e])
  /\ party' = Aged(party)
  /\ shim' = [e \in Entities |->
       [shim[e] EXCEPT
          !.since = IF shim[e].epoch = 0 THEN @ ELSE UpTo(@, Period),
          !.poll_age = IF shim[e].poll_inflight THEN UpTo(@, Watchdog) ELSE @]]
  /\ stay' = [e \in Entities |->
       IF shim[e].status = "connected" THEN UpTo(stay[e], Settle) ELSE 0]
  /\ used' = [used EXCEPT !.ticks = @ + 1]
  /\ UNCHANGED <<late, told>>

Next ==
  \/ \E e \in Entities :
       \/ PartyCreateNewNetwork(e)
       \/ PartyNetworkAuthenticateLocalUser(e)
       \/ PartyConnectToNetwork(e)
       \/ PartyNetworkLeaveNetwork(e)
       \/ PartyCleanup(e)
       \/ PumpRequest(e)
       \/ PumpApply(e)
       \/ TakeTask(e)
       \/ Serve(e)
       \/ Answered(e)
       \/ \E arrives \in BOOLEAN : GiveUp(e, arrives)
       \/ ThreadDies(e)
  \/ \E r \in late : ServeLate(r)
  \/ BrokerRestarts
  \/ Tick

Spec == Init /\ [][Next]_vars

-----------------------------------------------------------------------------
(***************************************************************************)
(* Every variable keeps its type; in particular a queue never holds two    *)
(* Register tasks while the broker thread lives, and there is one result   *)
(* per box.                                                                *)
(***************************************************************************)
MembershipTypeOK ==
  /\ DOMAIN party \subseteq Entities
  /\ \A e \in DOMAIN party :
       party[e] \in [port : Epochs, age : 0 .. (Ttl + 1),
                     member_seq : 0 .. MaxBoxes]
  /\ late \subseteq [from : Entities, task : Tasks]
  /\ \A e \in Entities :
       /\ shim[e].status \in {"none", "created", "connected"}
       /\ shim[e].queue \in Seq(Tasks)
       /\ \A r, s \in shim[e].results : r.epoch = s.epoch => r = s
       /\ shim[e].up => \A i, j \in 1 .. Len(shim[e].queue) :
            shim[e].queue[i].kind = "register" /\ i # j
              => shim[e].queue[j].kind # "register"

(***************************************************************************)
(* A result that waits for a box is newer than the last one applied to it: *)
(* the sequence check of poll_peers_apply is never needed, as its comment  *)
(* says, although the watchdog puts a second poll in flight and a dead     *)
(* thread hands its queue to the game thread.                              *)
(***************************************************************************)
PollOrder ==
  \A e \in Entities : \A r \in Mine(shim[e]) :
    r.seq > shim[e].poll_applied_seq

(***************************************************************************)
(* What the comment on PEER_POLL_TIMEOUT_MS lists is all that can lose a   *)
(* poll: while the broker thread lives, a poll_inflight of a connected box *)
(* whose poll is neither queued nor running nor answered means that its    *)
(* result was swept while the box was out of h.networks.  A failed         *)
(* request, a leave, a rejoin or a coalesced task never leaves the flag    *)
(* behind.                                                                 *)
(***************************************************************************)
OnlySweptPollsAreLost ==
  \A e \in Entities :
    LET p == shim[e]
        mine(t) == t.kind = "poll" /\ t.epoch = p.epoch
    IN  (p.up /\ p.status = "connected" /\ p.poll_inflight) =>
          \/ \E i \in 1 .. Len(p.queue) : mine(p.queue[i])
          \/ p.running.busy /\ mine(p.running.task)
          \/ Mine(p) # {}
          \/ p.swept

\* e's row is unexpired and holds the port of the box that e has listed ...
Fresh(e) ==
  /\ party[e].age <= Ttl
  /\ party[e].port = shim[e].epoch
  /\ shim[e].status # "none"
\* ... and the next state still has it
Kept(e) == e \in DOMAIN party' /\ party'[e].port = party[e].port
FreshKept == \A e \in DOMAIN party : Fresh(e) => Kept(e)

(***************************************************************************)
(* "A member_seq makes reordered joins/leaves harmless"                    *)
(* (docs/party-transport.md): a request that the broker handles after its  *)
(* client gave up on it leaves the row of a newer registration alone.      *)
(***************************************************************************)
LateIsHarmless ==
  [][late' \subseteq late /\ late' # late => FreshKept]_vars

(***************************************************************************)
(* In a prompt system a box that has been connected for Settle ticks is    *)
(* listed under its own port and not expired, whatever other players do:   *)
(* the keep-alive outruns the TTL, and it repairs a restarted broker, lost *)
(* requests, a dead broker thread, a Register that was overtaken by a      *)
(* Leave and a box that was listed again without a Register.               *)
(***************************************************************************)
SettledIsListed ==
  \A e \in Entities : stay[e] >= Settle =>
    /\ e \in DOMAIN party
    /\ party[e].age <= Ttl
    /\ party[e].port = shim[e].epoch

(***************************************************************************)
(* A box that has been connected for Settle ticks knows its own row and    *)
(* the current port of every other such box from a listing it applied      *)
(* since the last disturbance: no lost poll (a dead thread, a result swept *)
(* before the box was listed again, no answer) keeps it from polling for   *)
(* longer than the watchdog.                                               *)
(***************************************************************************)
SettledKnowEachOther ==
  \A e, f \in Entities :
    (stay[e] >= Settle /\ stay[f] >= Settle) => told[e][f] = shim[f].epoch

(***************************************************************************)
(* When all requests have been answered, in the order the single consumer  *)
(* sent them, a connected box is registered.                               *)
(***************************************************************************)
DoneIsRegistered ==
  \A e \in Entities :
    (/\ shim[e].status = "connected"
     /\ shim[e].queue = << >>
     /\ ~ shim[e].running.busy) => e \in DOMAIN party
=============================================================================
