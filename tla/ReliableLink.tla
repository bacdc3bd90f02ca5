---------------------------- MODULE ReliableLink ----------------------------
(***************************************************************************)
(* One direction of a pairing: a Sender (tx) and a Receiver (rx) from      *)
(* Reliable, joined by the UDP network, which loses, delays, reorders and  *)
(* duplicates datagrams.  Acks travel back on a second unreliable channel: *)
(* standalone (forced_ack) or on any other packet the receiving machine    *)
(* happens to send (piggyback_ack).                                        *)
(***************************************************************************)
EXTENDS Reliable

CONSTANTS
  Options,     \* the send options the game uses, a set of sets of Flags
  MaxSend,     \* bound on messages handed to send()
  MaxLoss,     \* bound on data datagrams the network loses
  MaxAckLoss,  \* bound on ack-carrying packets the network loses
  MaxDup,      \* bound on data datagrams the network delivers twice
  MaxReturn    \* bound on return packets that piggyback an ack

ASSUME OptionsAssumption == Options \subseteq SUBSET Flags
ASSUME BoundsAssumption ==
  /\ MaxSend \in Nat
  /\ MaxLoss \in Nat
  /\ MaxAckLoss \in Nat
  /\ MaxDup \in Nat
  /\ MaxReturn \in Nat

VARIABLES
  tx,         \* the Sender
  rx,         \* the Receiver
  net,        \* data datagrams in flight; `copy` tells retransmissions apart
  acks,       \* acks[a]: packets in flight that carry the cumulative ack a
  sent,       \* history: options and sequence number of every message sent
  log,        \* history: the slots on_message() released, in order
  evicted,    \* history: messages send() evicted from the pending map
  forgotten,  \* history: sequence numbers evicted from the receive buffer
  used        \* how much of each bound has been used

vars == <<tx, rx, net, acks, sent, log, evicted, forgotten, used>>

Messages == 1 .. MaxSend
Pending == [payload : Messages, options : Options, retries : 0 .. MaxRetries,
            gave_up : BOOLEAN]
Datagram == [payload : Messages, seq : Seqs, options : Options,
             copy : 0 .. MaxRetries]

Init ==
  /\ tx = SenderNew
  /\ rx = ReceiverNew
  /\ net = {}
  /\ acks = [a \in Seqs |-> 0]
  /\ sent = << >>
  /\ log = << >>
  /\ evicted = {}
  /\ forgotten = {}
  /\ used = [loss |-> 0, ackLoss |-> 0, dup |-> 0, return |-> 0]

\* send(), followed by the datagram's first transmission
SendMessage(options) ==
  LET id == Len(sent) + 1
      seq == SendSeq(tx, options)
  IN  /\ Len(sent) < MaxSend
      /\ tx' = Send(tx, id, options)
      /\ sent' = Append(sent, [options |-> options, seq |-> seq])
      /\ net' = net \cup {[payload |-> id, seq |-> seq, options |-> options,
                           copy |-> 0]}
      /\ evicted' = evicted \cup {tx.pending[k].payload :
                                    k \in PendingEvicted(tx, options)}
      /\ UNCHANGED <<rx, acks, log, forgotten, used>>

\* one pass of due() over the messages whose timer expired
Retransmit(expired) ==
  /\ expired # {}
  /\ expired \subseteq Awaiting(tx)
  /\ tx' = Due(tx, expired)
  /\ net' = net \cup {[payload |-> tx.pending[k].payload, seq |-> k,
                       options |-> tx.pending[k].options,
                       copy |-> tx.pending[k].retries + 1] :
                         k \in Resent(tx, expired)}
  /\ UNCHANGED <<rx, acks, sent, log, evicted, forgotten, used>>

\* a data datagram arrives and goes through on_message()
Deliver(m) ==
  LET o == OnMessage(rx, m.seq, m.options, m.payload)
  IN  /\ m \in net
      /\ rx' = o.rx
      /\ log' = log \o o.out
      /\ forgotten' = forgotten \cup
           {k \in DOMAIN rx.g_buf :
              k \notin DOMAIN o.rx.g_buf /\ ~ seq_le(k, ack_value(o.rx))}
      /\ UNCHANGED <<tx, acks, sent, evicted>>

Receive(m) ==
  /\ Deliver(m)
  /\ net' = net \ {m}
  /\ UNCHANGED used

\* the network keeps a second copy of what it delivers
ReceiveAndDuplicate(m) ==
  /\ used.dup < MaxDup
  /\ Deliver(m)
  /\ used' = [used EXCEPT !.dup = @ + 1]
  /\ UNCHANGED net

Lose(m) ==
  /\ used.loss < MaxLoss
  /\ m \in net
  /\ net' = net \ {m}
  /\ used' = [used EXCEPT !.loss = @ + 1]
  /\ UNCHANGED <<tx, rx, acks, sent, log, evicted, forgotten>>

ReportAck ==
  /\ acks' = [acks EXCEPT ![ack_value(rx)] = @ + 1]
  /\ rx' = AckSent(rx)
  /\ UNCHANGED <<tx, net, sent, log, evicted, forgotten>>

\* the forced-ack delay has passed: a standalone ack
ForcedAck ==
  /\ rx.ack_due
  /\ ReportAck
  /\ UNCHANGED used

\* any packet going back to the peer carries the ack
PiggybackAck ==
  /\ used.return < MaxReturn
  /\ ReportAck
  /\ used' = [used EXCEPT !.return = @ + 1]

TakeAck(a) ==
  /\ acks[a] > 0
  /\ acks' = [acks EXCEPT ![a] = @ - 1]
  /\ UNCHANGED <<rx, net, sent, log, evicted, forgotten>>

\* recv_udp() ignores an ack of 0: the peer has received nothing yet
ReceiveAck(a) ==
  /\ TakeAck(a)
  /\ tx' = IF a # 0 THEN OnAck(tx, a) ELSE tx
  /\ UNCHANGED used

LoseAck(a) ==
  /\ used.ackLoss < MaxAckLoss
  /\ TakeAck(a)
  /\ used' = [used EXCEPT !.ackLoss = @ + 1]
  /\ UNCHANGED tx

Next ==
  \/ \E options \in Options : SendMessage(options)
  \/ \E expired \in SUBSET Awaiting(tx) : Retransmit(expired)
  \/ \E m \in net : Receive(m) \/ ReceiveAndDuplicate(m) \/ Lose(m)
  \/ ForcedAck
  \/ PiggybackAck
  \/ \E a \in Seqs : ReceiveAck(a) \/ LoseAck(a)

Spec == Init /\ [][Next]_vars

-----------------------------------------------------------------------------
(***************************************************************************)
(* The scheduling the code justifies.  The transport thread (or the tick)  *)
(* calls due() and forced_ack() forever, so a timer that stays armed is    *)
(* eventually acted upon; a datagram the network does not lose arrives.    *)
(* Nothing obliges the game to send, or the peer to send return packets.   *)
(***************************************************************************)
Fairness ==
  /\ \A k \in Seqs :
       WF_vars(\E expired \in SUBSET Awaiting(tx) :
                 k \in expired /\ Retransmit(expired))
  /\ \A id \in Messages :
       WF_vars(\E m \in net : m.payload = id /\ Receive(m))
  /\ WF_vars(ForcedAck)
  /\ \A a \in Seqs : WF_vars(ReceiveAck(a))

FairSpec == Spec /\ Fairness

-----------------------------------------------------------------------------
GuaranteedSent == {id \in 1 .. Len(sent) : Guaranteed(sent[id].options)}
OrderedSent == {id \in GuaranteedSent : IsSequential(sent[id].options)}
BestEffortSequentialSent ==
  {id \in 1 .. Len(sent) : /\ ~ Guaranteed(sent[id].options)
                           /\ IsSequential(sent[id].options)}
Released == {log[i] : i \in 1 .. Len(log)} \ {NoPayload}
InPending == {tx.pending[k].payload : k \in DOMAIN tx.pending}

(***************************************************************************)
(* Every variable keeps its type: sequence numbers stay in the u32 space,  *)
(* retry counts never pass MAX_RETRIES, maps are keyed by sequence number. *)
(***************************************************************************)
TypeOK ==
  /\ tx \in [next_gseq : Seqs, next_bseq : Seqs, pending : {tx.pending}]
  /\ DOMAIN tx.pending \subseteq Seqs
  /\ tx.pending \in [DOMAIN tx.pending -> Pending]
  /\ rx \in [g_next : Seqs, g_buf : {rx.g_buf}, be_last : Seqs,
             be_seen : BOOLEAN, ack_due : BOOLEAN]
  /\ DOMAIN rx.g_buf \subseteq Seqs
  /\ rx.g_buf \in [DOMAIN rx.g_buf -> Messages \cup {NoPayload}]
  /\ net \subseteq Datagram
  /\ acks \in [Seqs -> Nat]
  /\ sent \in Seq([options : Options, seq : Seqs]) /\ Len(sent) <= MaxSend
  /\ log \in Seq(Messages \cup {NoPayload})
  /\ evicted \subseteq Messages
  /\ forgotten \subseteq Seqs
  /\ used \in [loss : Nat, ackLoss : Nat, dup : Nat, return : Nat]

(***************************************************************************)
(* Guaranteed sequential messages reach the game in the order they were    *)
(* sent, each at most once, and never ahead of ANY guaranteed message sent *)
(* before them: on_message() holds an out-of-order arrival in g_buf and    *)
(* releases it only when the drain loop reaches it.                        *)
(***************************************************************************)
OrderedDelivery ==
  \A i \in 1 .. Len(log) : log[i] \in OrderedSent =>
    /\ \A j \in 1 .. (i - 1) : log[j] \in OrderedSent => log[j] < log[i]
    /\ \A id \in GuaranteedSent : id < log[i] =>
         \E j \in 1 .. (i - 1) : log[j] = id

(***************************************************************************)
(* No guaranteed message is lost silently: it has been released to the     *)
(* game, or the sender still holds it (awaiting or given up), or send()    *)
(* reported its eviction at PENDING_CAP.  A late, duplicated or reordered  *)
(* cumulative ack must never make on_ack() drop a message the peer lacks.  *)
(***************************************************************************)
NoSilentLoss == GuaranteedSent \subseteq Released \cup InPending \cup evicted

(***************************************************************************)
(* A guaranteed message is released twice only if the receive buffer had   *)
(* to forget it at OOO_CAP: retransmissions and network duplicates are     *)
(* recognised by g_next or by their marker in g_buf.                       *)
(***************************************************************************)
DuplicatesOnlyAfterEviction ==
  \A i, j \in 1 .. Len(log) :
    (i < j /\ log[i] = log[j] /\ log[i] \in GuaranteedSent)
      => sent[log[i]].seq \in forgotten

(***************************************************************************)
(* Best-effort sequential messages are never released after a newer one,   *)
(* nor twice: be_last is a high-water mark over a separate sequence space. *)
(***************************************************************************)
BestEffortMonotone ==
  \A i, j \in 1 .. Len(log) :
    (i < j /\ {log[i], log[j]} \subseteq BestEffortSequentialSent)
      => log[i] < log[j]

(***************************************************************************)
(* The two maps stay within PENDING_CAP and OOO_CAP: both evict before     *)
(* they insert.                                                            *)
(***************************************************************************)
MapsBounded ==
  /\ Cardinality(DOMAIN tx.pending) <= PendingCap
  /\ Cardinality(DOMAIN rx.g_buf) <= OooCap

(***************************************************************************)
(* Every guaranteed message reaches the game.  Holds while the network     *)
(* loses at most MaxRetries datagrams and no cap is reached; beyond that   *)
(* due() gives the message up.                                             *)
(***************************************************************************)
GuaranteedArrives ==
  \A id \in Messages : id \in GuaranteedSent ~> id \in Released

(***************************************************************************)
(* The guaranteed sequential messages, as an OrderedStream: what send()    *)
(* accepted is written, what on_message() released is read.  The fair link *)
(* implements the stream, its liveness included, while losses stay within  *)
(* the retry budget and no cap is reached.                                 *)
(***************************************************************************)
Stream == INSTANCE OrderedStream WITH
  Message <- Messages,
  written <- SelectSeq([id \in 1 .. Len(sent) |-> id],
                       LAMBDA id : id \in OrderedSent),
  read <- SelectSeq(log, LAMBDA id : id \in OrderedSent)

ImplementsStream == Stream!Spec

(***************************************************************************)
(* The sender's map empties for good unless an ack was lost: every message *)
(* is acked in the end, given up or not.  Needs senders that do not allow  *)
(* lazy acknowledgement.                                                   *)
(***************************************************************************)
PendingClears == <>[](used.ackLoss = 0 => DOMAIN tx.pending = {})

(***************************************************************************)
(* A lost ack is made good by any later copy of the message: once the      *)
(* network has lost what it will lose, a guaranteed message of which a     *)
(* copy is under way leaves the sender's map, also when that copy is a     *)
(* duplicate to the receiver, because duplicates re-arm the forced ack.    *)
(* (A message whose retries were all spent before the ack was lost has no  *)
(* such copy.)                                                             *)
(***************************************************************************)
Underway(id) == \E m \in net : m.payload = id
CopyIsAcked ==
  \A id \in Messages :
    (/\ id \in GuaranteedSent /\ Underway(id)
     /\ used.loss = MaxLoss /\ used.ackLoss = MaxAckLoss)
      ~> id \notin InPending
=============================================================================
