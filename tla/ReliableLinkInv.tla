-------------------------- MODULE ReliableLinkInv --------------------------
(***************************************************************************)
(* The inductive invariant behind the safety theorems of ReliableLink, for *)
(* pairings that do not live long enough for the sequence space to wrap.   *)
(***************************************************************************)
EXTENDS ReliableLink

\* fewer than half of the sequence space is ever used by one pairing
ASSUME NoWrapAssumption == 2 * MaxSend + 2 < SeqMod

\* send() numbers the guaranteed messages 1, 2, ... in the order it accepts
\* them.
SentNumbered ==
  /\ tx.next_gseq \in 1 .. (Len(sent) + 1)
  /\ tx.next_bseq \in 1 .. (Len(sent) + 1)
  /\ \A id \in GuaranteedSent : sent[id].seq \in 1 .. (tx.next_gseq - 1)
  /\ \A id, jd \in GuaranteedSent :
       id < jd => sent[id].seq < sent[jd].seq

\* A datagram in flight, and an entry of the pending map, is a message that
\* was sent, under its own number and options.
WireFaithful ==
  \A m \in net :
    /\ m.payload \in 1 .. Len(sent)
    /\ sent[m.payload] = [options |-> m.options, seq |-> m.seq]
PendingFaithful ==
  \A k \in DOMAIN tx.pending :
    /\ tx.pending[k].payload \in GuaranteedSent
    /\ sent[tx.pending[k].payload] =
         [options |-> tx.pending[k].options, seq |-> k]

\* The receive buffer lies strictly beyond g_next; it holds sequential
\* messages, and markers of messages already released.
BufferFaithful ==
  \A k \in DOMAIN rx.g_buf :
    /\ k \in (rx.g_next + 1) .. (tx.next_gseq - 1)
    /\ rx.g_buf[k] # NoPayload =>
         rx.g_buf[k] \in OrderedSent /\ sent[rx.g_buf[k]].seq = k
    /\ rx.g_buf[k] = NoPayload =>
         \A id \in GuaranteedSent : sent[id].seq = k => id \in Released

\* Everything the cumulative ack covers has been released ...
PrefixReleased ==
  /\ rx.g_next \in 1 .. tx.next_gseq
  /\ \A id \in GuaranteedSent : sent[id].seq < rx.g_next => id \in Released

\* ... no ordered message beyond it has, and nothing is released unsent.
ReleasedFaithful ==
  /\ Released \subseteq 1 .. Len(sent)
  /\ \A id \in Released : id \in OrderedSent => sent[id].seq < rx.g_next

\* An ack in flight, however old, covers only what has been released.
AcksSound == \A a \in Seqs : acks[a] > 0 => a < rx.g_next

IndInv ==
  /\ TypeOK
  /\ SentNumbered
  /\ WireFaithful
  /\ PendingFaithful
  /\ BufferFaithful
  /\ PrefixReleased
  /\ ReleasedFaithful
  /\ AcksSound
  /\ OrderedDelivery
  /\ NoSilentLoss
=============================================================================
