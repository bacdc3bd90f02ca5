------------------------ MODULE ReliableLinkProofs ------------------------
(***************************************************************************)
(* Machine-checked proofs about ReliableLink, for every value of its       *)
(* constants under NoWrapAssumption.                                       *)
(***************************************************************************)
EXTENDS ReliableLinkInv, FiniteSetTheorems, TLAPS

-----------------------------------------------------------------------------
(***************************************************************************)
(* Every non-empty set of naturals has a least element.                    *)
(***************************************************************************)
LEMMA LeastNatural ==
  ASSUME NEW T, T \subseteq Nat, T # {}
  PROVE  \E x \in T : \A y \in T : x <= y
<1> DEFINE R == OpToRel(<, Nat)
<1>1. PICK x \in T : \A y \in T : ~ (<<y, x>> \in R)
  <2> HIDE DEF R
  <2>1. IsWellFoundedOn(R, Nat)
    BY NatLessThanWellFounded DEF R
  <2> QED
    BY <2>1, WFMin
<1>2. \A y \in T : <<y, x>> \in R <=> y < x
  BY DEF OpToRel
<1>3. \A y \in T : ~ (y < x)
  <2> HIDE DEF R
  <2> QED
    BY <1>1, <1>2
<1> QED
  BY <1>3

(***************************************************************************)
(* A concatenation holds its two parts, one after the other.               *)
(***************************************************************************)
LEMMA ConcatParts ==
  ASSUME NEW S, NEW s \in Seq(S), NEW t \in Seq(S)
  PROVE  /\ s \o t \in Seq(S)
         /\ Len(s \o t) = Len(s) + Len(t)
         /\ \A i \in 1 .. Len(s) : (s \o t)[i] = s[i]
         /\ \A i \in 1 .. Len(t) : (s \o t)[Len(s) + i] = t[i]
OBVIOUS

(***************************************************************************)
(* At the cap send() evicts one key of the pending map, no other.          *)
(***************************************************************************)
LEMMA EvictedIsPending ==
  ASSUME NEW s, NEW options, DOMAIN s.pending \subseteq Nat
  PROVE  PendingEvicted(s, options) \subseteq DOMAIN s.pending
<1>1. CASE DOMAIN s.pending = {}
  BY <1>1, FS_EmptySet, LimitsAssumption DEF PendingEvicted
<1>2. CASE DOMAIN s.pending # {}
  BY <1>2, LeastNatural DEF PendingEvicted, Min
<1> QED
  BY <1>1, <1>2

(***************************************************************************)
(* While the sequence space does not wrap, seq_le() is <=.                 *)
(***************************************************************************)
LEMMA SeqOrder ==
  ASSUME NEW a \in 0 .. (MaxSend + 1), NEW b \in 0 .. (MaxSend + 1)
  PROVE  seq_le(a, b) <=> a <= b
BY NoWrapAssumption, BoundsAssumption, SeqSpaceAssumption
   DEF seq_le, seq_after, WrapSub

(***************************************************************************)
(* The drain loop of on_message() stops at the first missing key and walks *)
(* exactly over the contiguous run before it.                              *)
(***************************************************************************)
LEMMA DrainRun ==
  ASSUME NEW r, r.g_next \in 1 .. (MaxSend + 1),
         DOMAIN r.g_buf \subseteq r.g_next .. MaxSend
  PROVE  /\ RunLength(r) \in Nat
         /\ r.g_next + RunLength(r) \in 1 .. (MaxSend + 1)
         /\ r.g_next + RunLength(r) \notin DOMAIN r.g_buf
         /\ \A k \in r.g_next .. (r.g_next + RunLength(r) - 1) :
              k \in DOMAIN r.g_buf
<1> DEFINE g == r.g_next
           D == DOMAIN r.g_buf
           T == {n \in 0 .. SeqMod : WrapAdd(g, n) \notin D}
           P(n) == /\ WrapAdd(g, n) \notin D
                   /\ \A i \in 0 .. (n - 1) : WrapAdd(g, i) \in D
<1>1. \A n \in 0 .. (MaxSend + 1 - g) : WrapAdd(g, n) = g + n
  BY NoWrapAssumption, BoundsAssumption, SeqSpaceAssumption DEF WrapAdd
<1>2. MaxSend + 1 - g \in T
  <2>1. MaxSend + 1 - g \in 0 .. SeqMod
    BY NoWrapAssumption, BoundsAssumption, SeqSpaceAssumption
  <2>2. WrapAdd(g, MaxSend + 1 - g) = MaxSend + 1
    BY <1>1, BoundsAssumption
  <2> QED
    BY <2>1, <2>2, BoundsAssumption
<1>3. T \subseteq Nat
  BY SeqSpaceAssumption
<1>4. PICK x \in T : \A y \in T : x <= y
  BY <1>2, <1>3, LeastNatural
<1>5. x \in 0 .. (MaxSend + 1 - g)
  BY <1>2, <1>4, BoundsAssumption, SeqSpaceAssumption
<1>6. P(x)
  BY <1>4, <1>5, SeqSpaceAssumption
<1>7. RunLength(r) \in 0 .. SeqMod /\ P(RunLength(r))
  BY <1>4, <1>6 DEF RunLength
<1>8. RunLength(r) \in 0 .. (MaxSend + 1 - g)
  <2>1. CASE RunLength(r) > MaxSend + 1 - g
    <3>1. WrapAdd(g, MaxSend + 1 - g) \in D
      BY <1>7, <2>1, BoundsAssumption, SeqSpaceAssumption
    <3> QED
      BY <3>1, <1>2
  <2> QED
    BY <2>1, <1>7, BoundsAssumption, SeqSpaceAssumption
<1>9. \A k \in g .. (g + RunLength(r) - 1) : k \in D
  <2> SUFFICES ASSUME NEW k \in g .. (g + RunLength(r) - 1)
               PROVE  k \in D
    OBVIOUS
  <2>1. k - g \in 0 .. (RunLength(r) - 1) /\ k - g \in 0 .. (MaxSend + 1 - g)
    BY <1>8, BoundsAssumption
  <2>2. WrapAdd(g, k - g) = k
    BY <2>1, <1>1
  <2> QED
    BY <1>7, <2>1, <2>2
<1> QED
  BY <1>1, <1>7, <1>8, <1>9, BoundsAssumption

(***************************************************************************)
(* The drain loop, with the wrapping arithmetic done.                      *)
(***************************************************************************)
LEMMA DrainForm ==
  ASSUME NEW r, r.g_next \in 1 .. (MaxSend + 1),
         DOMAIN r.g_buf \subseteq r.g_next .. MaxSend,
         {"g_next", "g_buf"} \subseteq DOMAIN r
  PROVE  LET g == r.g_next
             n == RunLength(r)
         IN  /\ Run(r) = [i \in 1 .. n |-> r.g_buf[g + (i - 1)]]
             /\ Drain(r).g_next = g + n
             /\ Drain(r).g_buf =
                  [k \in (DOMAIN r.g_buf) \ (g .. (g + n - 1)) |-> r.g_buf[k]]
<1> DEFINE g == r.g_next
           n == RunLength(r)
<1>1. n \in Nat /\ g + n \in 1 .. (MaxSend + 1) /\ g \in 1 .. (MaxSend + 1)
  BY DrainRun
<1> HIDE DEF n, g
<1>2. \A i \in 1 .. n : WrapAdd(g, i - 1) = g + (i - 1)
  BY <1>1, NoWrapAssumption, BoundsAssumption, SeqSpaceAssumption DEF WrapAdd
<1>3. WrapAdd(g, n) = g + n
  BY <1>1, NoWrapAssumption, BoundsAssumption, SeqSpaceAssumption DEF WrapAdd
<1>4. {WrapAdd(g, i - 1) : i \in 1 .. n} = g .. (g + n - 1)
  <2>1. \A k \in g .. (g + n - 1) :
          k - g + 1 \in 1 .. n /\ k = g + ((k - g + 1) - 1)
    BY <1>1
  <2>2. g .. (g + n - 1) \subseteq {WrapAdd(g, i - 1) : i \in 1 .. n}
    BY <2>1, <1>2
  <2>3. {WrapAdd(g, i - 1) : i \in 1 .. n} \subseteq g .. (g + n - 1)
    BY <1>1, <1>2
  <2> QED
    BY <2>2, <2>3
<1>5. Run(r) = [i \in 1 .. n |-> r.g_buf[g + (i - 1)]]
  BY <1>2 DEF Run, n, g
<1>6. Drain(r).g_next = WrapAdd(g, n)
  BY DEF Drain, n, g
<1>7. Drain(r).g_buf =
        [k \in (DOMAIN r.g_buf) \ {WrapAdd(g, i - 1) : i \in 1 .. n} |->
           r.g_buf[k]]
  BY DEF Drain, Without, Restrict, n, g
<1> QED
  BY <1>3, <1>4, <1>5, <1>6, <1>7 DEF n, g

-----------------------------------------------------------------------------
(***************************************************************************)
(* The inductive invariant holds initially.                                *)
(***************************************************************************)
LEMMA InitIndInv == Init => IndInv
<1> SUFFICES ASSUME Init PROVE IndInv
  OBVIOUS
<1> USE SeqSpaceAssumption, LimitsAssumption, BoundsAssumption
        DEF Init, SenderNew, ReceiverNew, EmptyMap
<1>1. TypeOK
  BY DEF TypeOK, Seqs
<1>2. /\ SentNumbered /\ WireFaithful /\ PendingFaithful /\ BufferFaithful
      /\ PrefixReleased /\ ReleasedFaithful /\ AcksSound
  BY DEF SentNumbered, WireFaithful, PendingFaithful, BufferFaithful,
         PrefixReleased, ReleasedFaithful, AcksSound, GuaranteedSent,
         Released, Seqs
<1>3. OrderedDelivery /\ NoSilentLoss
  BY DEF OrderedDelivery, NoSilentLoss, GuaranteedSent
<1> QED
  BY <1>1, <1>2, <1>3 DEF IndInv

(***************************************************************************)
(* A counter of the sender that has not passed the messages sent can be    *)
(* advanced without wrapping.                                              *)
(***************************************************************************)
LEMMA CounterAdvances ==
  ASSUME NEW n \in Nat, n < MaxSend, NEW q \in 1 .. (n + 1)
  PROVE  /\ q \in Nat \ {0}
         /\ q + 1 \in Seqs
         /\ WrapAdd(q, 1) = q + 1
         /\ q \in 1 .. (n + 2)
         /\ q + 1 \in 1 .. (n + 2)
<1>1. n \in Nat /\ MaxSend \in Nat /\ SeqMod \in Nat /\ q \in Nat
  BY SeqSpaceAssumption, BoundsAssumption
<1>2. q + 1 < SeqMod
  BY <1>1, NoWrapAssumption
<1> QED
  BY <1>1, <1>2 DEF Seqs, WrapAdd

(***************************************************************************)
(* send() preserves the inductive invariant.                               *)
(***************************************************************************)
LEMMA SendMessageIndInv ==
  ASSUME IndInv, NEW options \in Options, SendMessage(options)
  PROVE  IndInv'
<1> DEFINE id == Len(sent) + 1
           seq == SendSeq(tx, options)
<1> USE SeqSpaceAssumption, LimitsAssumption, BoundsAssumption,
        NoWrapAssumption
<1>0. TypeOK /\ SentNumbered
  BY DEF IndInv
<1>a. /\ tx.next_gseq \in 1 .. (Len(sent) + 1)
      /\ tx.next_bseq \in 1 .. (Len(sent) + 1)
      /\ tx \in [next_gseq : Seqs, next_bseq : Seqs, pending : {tx.pending}]
      /\ DOMAIN tx.pending \subseteq Nat
      /\ sent \in Seq([options : Options, seq : Seqs])
  BY <1>0 DEF TypeOK, SentNumbered, Seqs
<1>b. /\ Len(sent) \in Nat /\ Len(sent) < MaxSend
      /\ tx' = Send(tx, id, options)
      /\ sent' = Append(sent, [options |-> options, seq |-> seq])
  BY <1>a DEF SendMessage
<1>g. /\ tx.next_gseq \in Nat \ {0}
      /\ tx.next_gseq + 1 \in Seqs
      /\ WrapAdd(tx.next_gseq, 1) = tx.next_gseq + 1
      /\ tx.next_gseq \in 1 .. (Len(sent) + 2)
      /\ tx.next_gseq + 1 \in 1 .. (Len(sent) + 2)
  BY ONLY <1>a, <1>b, CounterAdvances
<1>h. /\ tx.next_bseq + 1 \in Seqs
      /\ WrapAdd(tx.next_bseq, 1) = tx.next_bseq + 1
      /\ tx.next_bseq \in 1 .. (Len(sent) + 2)
      /\ tx.next_bseq + 1 \in 1 .. (Len(sent) + 2)
  BY ONLY SMTT(30), <1>a, <1>b, CounterAdvances
<1>1. /\ id \in Messages
      /\ seq \in Seqs
  BY SMTT(30), <1>a, <1>b DEF Messages, SendSeq, Seqs
<1>2. /\ sent' \in Seq([options : Options, seq : Seqs])
      /\ Len(sent') = id
      /\ \A i \in 1 .. Len(sent) : sent'[i] = sent[i]
      /\ sent'[id] = [options |-> options, seq |-> seq]
  BY <1>1, <1>a, <1>b
<1>i. Len(sent') + 1 = Len(sent) + 2
  BY ONLY <1>2, <1>b
<1>3. GuaranteedSent' =
        IF Guaranteed(options) THEN GuaranteedSent \cup {id}
                               ELSE GuaranteedSent
  BY <1>2, <1>1, <1>b DEF GuaranteedSent
<1>4. /\ GuaranteedSent \subseteq 1 .. Len(sent)
      /\ \A i \in GuaranteedSent : sent'[i] = sent[i]
      /\ OrderedSent' \cap (1 .. Len(sent)) = OrderedSent
  BY <1>2, <1>1, <1>b DEF GuaranteedSent, OrderedSent
<1>5. /\ tx'.next_gseq = IF Guaranteed(options) THEN tx.next_gseq + 1
                                               ELSE tx.next_gseq
      /\ tx'.next_bseq \in 1 .. (Len(sent') + 1)
      /\ tx' \in [next_gseq : Seqs, next_bseq : Seqs, pending : {tx'.pending}]
      /\ ~ Guaranteed(options) => tx'.pending = tx.pending
  <2>1. CASE Guaranteed(options)
    <3> DEFINE p == Put(Without(tx.pending, PendingEvicted(tx, options)),
                        tx.next_gseq, NewPending(id, options))
    <3>1. tx' = [tx EXCEPT !.next_gseq = WrapAdd(@, 1), !.pending = p]
      BY <2>1, <1>b DEF Send
    <3>2. WrapAdd(tx.next_gseq, 1) = tx.next_gseq + 1
      BY ONLY <1>g
    <3> HIDE DEF p
    <3>3. tx' = [next_gseq |-> tx.next_gseq + 1, next_bseq |-> tx.next_bseq,
                 pending |-> p]
      BY <3>1, <3>2, <1>a
    <3>4. tx.next_gseq + 1 \in Seqs /\ tx.next_bseq \in Seqs
      BY ONLY <1>a, <1>g
    <3>5. tx.next_bseq \in 1 .. (Len(sent') + 1)
      BY ONLY <1>h, <1>i
    <3> QED
      BY <2>1, <3>3, <3>4, <3>5
  <2>2. CASE ~ Guaranteed(options) /\ IsSequential(options)
    <3>1. tx' = [tx EXCEPT !.next_bseq = WrapAdd(@, 1)]
      BY <2>2, <1>b DEF Send
    <3>2. WrapAdd(tx.next_bseq, 1) = tx.next_bseq + 1
      BY ONLY <1>h
    <3>3. tx' = [next_gseq |-> tx.next_gseq, next_bseq |-> tx.next_bseq + 1,
                 pending |-> tx.pending]
      BY <3>1, <3>2, <1>a
    <3>4. tx.next_gseq \in Seqs /\ tx.next_bseq + 1 \in Seqs
      <4>1. tx.next_gseq \in Seqs
        BY <1>a
      <4>2. tx.next_bseq + 1 \in Seqs
        BY ONLY <1>h
      <4> QED
        BY <4>1, <4>2
    <3>5. tx.next_bseq + 1 \in 1 .. (Len(sent') + 1)
      BY ONLY <1>h, <1>i
    <3> QED
      BY <2>2, <3>3, <3>4, <3>5
  <2>3. CASE ~ Guaranteed(options) /\ ~ IsSequential(options)
    <3>1. tx' = tx
      BY <2>3, <1>b DEF Send
    <3>2. tx.next_bseq \in 1 .. (Len(sent') + 1)
      BY ONLY <1>h, <1>i
    <3> QED
      BY ONLY <2>3, <3>1, <3>2, <1>a
  <2> QED
    BY <2>1, <2>2, <2>3
<1>6. ASSUME Guaranteed(options)
      PROVE  /\ seq = tx.next_gseq
             /\ DOMAIN tx'.pending \subseteq DOMAIN tx.pending \cup {seq}
             /\ seq \in DOMAIN tx'.pending
             /\ tx'.pending[seq] = NewPending(id, options)
             /\ \A k \in DOMAIN tx'.pending \ {seq} :
                  tx'.pending[k] = tx.pending[k]
             /\ DOMAIN tx'.pending = (DOMAIN tx.pending \
                    PendingEvicted(tx, options)) \cup {seq}
             /\ tx'.pending = [k \in DOMAIN tx'.pending |-> tx'.pending[k]]
  BY <1>0, <1>6 DEF SendMessage, Send, SendSeq, TypeOK, Put, Without, Restrict
<1>c. PendingEvicted(tx, options) \subseteq DOMAIN tx.pending
  BY <1>a, EvictedIsPending
<1>7. TypeOK'
  <2>1. /\ DOMAIN tx'.pending \subseteq Seqs
        /\ tx'.pending \in [DOMAIN tx'.pending -> Pending]
    <3>0. /\ DOMAIN tx.pending \subseteq Seqs
          /\ \A k \in DOMAIN tx.pending : tx.pending[k] \in Pending
          /\ tx.pending \in [DOMAIN tx.pending -> Pending]
      BY <1>0 DEF TypeOK
    <3>1. CASE Guaranteed(options)
      <4>1. NewPending(id, options) \in Pending
        BY <1>1 DEF NewPending, Pending
      <4>2. \A k \in DOMAIN tx'.pending : tx'.pending[k] \in Pending
        BY <3>1, <3>0, <4>1, <1>6
      <4> QED
        BY <3>1, <4>2, <3>0, <1>1, <1>6
    <3> QED
      BY <3>1, <3>0, <1>5
  <2>2. net' \subseteq Datagram
    <3>1. [payload |-> id, seq |-> seq, options |-> options, copy |-> 0]
            \in Datagram
      BY <1>1 DEF Datagram
    <3> QED
      BY <3>1, <1>0 DEF SendMessage, TypeOK
  <2>3. evicted' \subseteq Messages
    <3>1. \A k \in DOMAIN tx.pending : tx.pending[k].payload \in Messages
      BY <1>0 DEF TypeOK, Pending
    <3> QED
      BY <3>1, <1>c, <1>0 DEF SendMessage, TypeOK
  <2>4. Len(sent') <= MaxSend
    BY <1>2, <1>b
  <2>5. UNCHANGED <<rx, acks, log, forgotten, used>>
    BY DEF SendMessage
  <2> QED
    BY <2>1, <2>2, <2>3, <2>4, <2>5, <1>0, <1>2, <1>5 DEF TypeOK
<1>d. /\ Released' = Released
      /\ UNCHANGED <<rx, acks, log>>
      /\ ReleasedFaithful /\ PrefixReleased /\ BufferFaithful
  BY DEF SendMessage, Released, IndInv
<1>e. /\ tx.next_gseq \in Nat \ {0}
      /\ Guaranteed(options) => tx'.next_gseq = tx.next_gseq + 1
      /\ ~ Guaranteed(options) => tx'.next_gseq = tx.next_gseq
      /\ tx'.next_gseq \in 1 .. (Len(sent') + 1)
  BY ONLY <1>g, <1>i, <1>5
<1>8. SentNumbered'
  <2>1. \A i \in GuaranteedSent : sent[i].seq \in 1 .. (tx.next_gseq - 1)
    BY <1>0 DEF SentNumbered
  <2>2. \A i, j \in GuaranteedSent : i < j => sent[i].seq < sent[j].seq
    BY <1>0 DEF SentNumbered
  <2>3. CASE Guaranteed(options)
    <3>1. sent'[id].seq = tx.next_gseq
      BY <2>3, <1>2, <1>6
    <3>2. \A i \in GuaranteedSent' : sent'[i].seq \in 1 .. (tx'.next_gseq - 1)
      <4>1. \A i \in GuaranteedSent :
              sent'[i].seq \in 1 .. (tx'.next_gseq - 1)
        BY ONLY SMTT(30), <2>1, <2>3, <1>4, <1>e
      <4>2. sent'[id].seq \in 1 .. (tx'.next_gseq - 1)
        BY <2>3, <3>1, <1>e
      <4> QED
        BY <4>1, <4>2, <2>3, <1>3
    <3>3. \A i, j \in GuaranteedSent' : i < j => sent'[i].seq < sent'[j].seq
      <4>1. \A i \in GuaranteedSent : i < id /\ sent'[i].seq < tx.next_gseq
        BY <2>1, <1>4, <1>b, <1>e
      <4>2. GuaranteedSent' = GuaranteedSent \cup {id}
        BY <2>3, <1>3
      <4>3. \A i, j \in GuaranteedSent : i < j => sent'[i].seq < sent'[j].seq
        BY <2>2, <1>4
      <4>4. \A i \in GuaranteedSent : ~ (id < i)
        BY <4>1, <1>4, <1>b
      <4>5. ~ (id < id)
        BY <1>b
      <4> HIDE DEF id
      <4> QED
        BY <4>1, <4>2, <4>3, <4>4, <4>5, <3>1
    <3> QED
      BY SMTT(30), <3>2, <3>3, <1>5, <1>e DEF SentNumbered
  <2>4. CASE ~ Guaranteed(options)
    <3>1. \A i \in GuaranteedSent' : sent'[i].seq \in 1 .. (tx'.next_gseq - 1)
      BY <2>1, <2>4, <1>3, <1>4, <1>5
    <3>2. \A i, j \in GuaranteedSent' : i < j => sent'[i].seq < sent'[j].seq
      BY <2>2, <2>4, <1>3, <1>4
    <3> QED
      BY <3>1, <3>2, <1>5, <1>e DEF SentNumbered
  <2> QED
    BY <2>3, <2>4
<1>9. WireFaithful'
  <2> SUFFICES ASSUME NEW m \in net'
               PROVE  /\ m.payload \in 1 .. Len(sent')
                      /\ sent'[m.payload] =
                           [options |-> m.options, seq |-> m.seq]
    BY DEF WireFaithful
  <2>1. CASE m \in net
    BY <2>1, <1>2, <1>b DEF IndInv, WireFaithful
  <2>2. CASE m = [payload |-> id, seq |-> seq, options |-> options,
                  copy |-> 0]
    BY <2>2, <1>2, <1>b
  <2> QED
    BY <2>1, <2>2 DEF SendMessage
<1>10. PendingFaithful'
  <2> SUFFICES ASSUME NEW k \in DOMAIN tx'.pending
               PROVE  /\ tx'.pending[k].payload \in GuaranteedSent'
                      /\ sent'[tx'.pending[k].payload] =
                           [options |-> tx'.pending[k].options, seq |-> k]
    BY DEF PendingFaithful
  <2>1. CASE Guaranteed(options) /\ k = seq
    BY <2>1, <1>2, <1>3, <1>6 DEF NewPending
  <2>2. CASE ~ (Guaranteed(options) /\ k = seq)
    <3>1. k \in DOMAIN tx.pending /\ tx'.pending[k] = tx.pending[k]
      BY <2>2, <1>5, <1>6
    <3> QED
      BY <3>1, <1>3, <1>4 DEF IndInv, PendingFaithful
  <2> QED
    BY <2>1, <2>2
<1>11. BufferFaithful'
  <2> SUFFICES ASSUME NEW k \in DOMAIN rx.g_buf
               PROVE  /\ k \in (rx.g_next + 1) .. (tx'.next_gseq - 1)
                      /\ rx.g_buf[k] # NoPayload =>
                           /\ rx.g_buf[k] \in OrderedSent'
                           /\ sent'[rx.g_buf[k]].seq = k
                      /\ rx.g_buf[k] = NoPayload =>
                           \A i \in GuaranteedSent' :
                             sent'[i].seq = k => i \in Released
    BY <1>d DEF BufferFaithful
  <2>1. /\ k \in (rx.g_next + 1) .. (tx.next_gseq - 1)
        /\ rx.g_buf[k] # NoPayload =>
             rx.g_buf[k] \in OrderedSent /\ sent[rx.g_buf[k]].seq = k
        /\ rx.g_buf[k] = NoPayload =>
             \A i \in GuaranteedSent : sent[i].seq = k => i \in Released
    BY <1>d DEF BufferFaithful
  <2>2. k < tx.next_gseq /\ k \in (rx.g_next + 1) .. (tx'.next_gseq - 1)
    BY <2>1, <1>e
  <2>3. OrderedSent \subseteq OrderedSent' /\ OrderedSent \subseteq GuaranteedSent
    BY <1>4 DEF OrderedSent
  <2>4. Guaranteed(options) => sent'[id].seq # k
    BY <2>2, <1>2, <1>6, <1>a
  <2> QED
    BY <2>1, <2>2, <2>3, <2>4, <1>3, <1>4
<1>12. PrefixReleased'
  <2>1. rx.g_next \in 1 .. tx'.next_gseq
    BY <1>d, <1>e DEF PrefixReleased
  <2>2. Guaranteed(options) => ~ (sent'[id].seq < rx.g_next)
    BY SMTT(30), <1>d, <1>2, <1>6, <1>a DEF PrefixReleased
  <2>3. \A i \in GuaranteedSent : sent[i].seq < rx.g_next => i \in Released
    BY <1>d DEF PrefixReleased
  <2>4. \A i \in GuaranteedSent' : sent'[i].seq < rx.g_next => i \in Released
    BY <2>2, <2>3, <1>3, <1>4
  <2> QED
    BY <2>1, <2>4, <1>d DEF PrefixReleased
<1>13. ReleasedFaithful'
  <2>1. /\ Released \subseteq 1 .. Len(sent)
        /\ \A i \in Released : i \in OrderedSent => sent[i].seq < rx.g_next
    BY <1>d DEF ReleasedFaithful
  <2>2. \A i \in Released : i \in OrderedSent' =>
          i \in OrderedSent /\ sent'[i] = sent[i]
    BY <2>1, <1>4, <1>2
  <2>3. Released \subseteq 1 .. Len(sent')
    BY <2>1, <1>2, <1>b
  <2>4. \A i \in Released : i \in OrderedSent' => sent'[i].seq < rx.g_next
    BY <2>1, <2>2
  <2> QED
    BY <2>3, <2>4, <1>d DEF ReleasedFaithful
<1>14. AcksSound'
  BY <1>d DEF IndInv, AcksSound
<1>15. OrderedDelivery'
  <2>1. \A i \in 1 .. Len(log) : log[i] \in OrderedSent' =>
          log[i] \in OrderedSent /\ log[i] \in 1 .. Len(sent)
    <3> SUFFICES ASSUME NEW i \in 1 .. Len(log), log[i] \in OrderedSent'
                 PROVE  log[i] \in OrderedSent /\ log[i] \in 1 .. Len(sent)
      OBVIOUS
    <3>1. log[i] # NoPayload
      BY <1>2, <1>b DEF OrderedSent, GuaranteedSent, NoPayload
    <3>2. log[i] \in Released
      BY <3>1 DEF Released
    <3> QED
      BY <3>2, <1>d, <1>4 DEF ReleasedFaithful
  <2>2. OrderedDelivery
    BY DEF IndInv
  <2>3. \A i \in 1 .. Len(log) : log[i] \in OrderedSent' =>
          \A jd \in GuaranteedSent' : jd < log[i] => jd \in GuaranteedSent
    BY <2>1, <1>3, <1>b
  <2>4. Len(log) \in Nat
    BY <1>0 DEF TypeOK
  <2> QED
    BY <2>1, <2>2, <2>3, <2>4, <1>d DEF OrderedDelivery
<1>16. NoSilentLoss'
  <2> SUFFICES ASSUME NEW i \in GuaranteedSent', i \notin Released
               PROVE  i \in InPending' \cup evicted'
    BY <1>d DEF NoSilentLoss
  <2>1. CASE Guaranteed(options) /\ i = id
    BY <2>1, <1>6 DEF InPending, NewPending
  <2>2. CASE i \in GuaranteedSent /\ i \in evicted
    BY <2>2 DEF SendMessage
  <2>3. CASE i \in GuaranteedSent /\ i \in InPending
    <3>1. PICK k \in DOMAIN tx.pending : tx.pending[k].payload = i
      BY <2>3 DEF InPending
    <3>2. CASE k \in PendingEvicted(tx, options)
      BY <3>1, <3>2 DEF SendMessage
    <3>3. CASE k \notin PendingEvicted(tx, options)
      <4>1. k \in DOMAIN tx'.pending
        BY SMTT(30), <3>3, <1>5, <1>6
      <4>2. Guaranteed(options) => k # seq
        <5>1. sent[i].seq = k /\ sent[i].seq \in 1 .. (tx.next_gseq - 1)
          <6>1. sent[i] = [options |-> tx.pending[k].options, seq |-> k]
            BY <3>1 DEF IndInv, PendingFaithful
          <6> QED
            BY <6>1, <2>3, <1>0 DEF SentNumbered
        <5> QED
          BY SMTT(30), <5>1, <1>6, <1>a
      <4>3. tx'.pending[k] = tx.pending[k]
        BY SMTT(30), <4>1, <4>2, <1>5, <1>6
      <4> QED
        BY <4>1, <4>3, <3>1 DEF InPending
    <3> QED
      BY <3>2, <3>3
  <2> QED
    BY <2>1, <2>2, <2>3, <1>3 DEF IndInv, NoSilentLoss
<1> QED
  BY <1>7, <1>8, <1>9, <1>10, <1>11, <1>12, <1>13, <1>14, <1>15, <1>16
     DEF IndInv

(***************************************************************************)
(* What depends only on the messages sent, on what was released and on the *)
(* two ends' counters survives every step that leaves those alone.         *)
(***************************************************************************)
LEMMA FrameIndInv ==
  ASSUME IndInv, UNCHANGED <<sent, log>>,
         tx'.next_gseq = tx.next_gseq, tx'.next_bseq = tx.next_bseq,
         rx'.g_next = rx.g_next, rx'.g_buf = rx.g_buf
  PROVE  /\ SentNumbered' /\ BufferFaithful' /\ PrefixReleased'
         /\ ReleasedFaithful' /\ OrderedDelivery'
         /\ GuaranteedSent' = GuaranteedSent /\ Released' = Released
<1>1. /\ GuaranteedSent' = GuaranteedSent /\ OrderedSent' = OrderedSent
      /\ Released' = Released
  BY DEF GuaranteedSent, OrderedSent, Released
<1>2. SentNumbered'
  BY <1>1 DEF IndInv, SentNumbered
<1>3. BufferFaithful'
  BY <1>1 DEF IndInv, BufferFaithful
<1>4. PrefixReleased' /\ ReleasedFaithful'
  BY <1>1 DEF IndInv, PrefixReleased, ReleasedFaithful
<1>5. OrderedDelivery'
  BY <1>1 DEF IndInv, OrderedDelivery
<1> QED
  BY <1>1, <1>2, <1>3, <1>4, <1>5

(***************************************************************************)
(* A pass of due() preserves the inductive invariant.                      *)
(***************************************************************************)
LEMMA RetransmitIndInv ==
  ASSUME IndInv, NEW expired, Retransmit(expired)
  PROVE  IndInv'
<1> USE LimitsAssumption
<1>0. /\ TypeOK /\ PendingFaithful
      /\ expired \subseteq DOMAIN tx.pending
      /\ UNCHANGED <<rx, acks, sent, log, evicted, forgotten, used>>
  BY DEF IndInv, Retransmit, Awaiting
<1>1. /\ tx'.next_gseq = tx.next_gseq /\ tx'.next_bseq = tx.next_bseq
      /\ tx' \in [next_gseq : Seqs, next_bseq : Seqs, pending : {tx'.pending}]
      /\ DOMAIN tx'.pending = DOMAIN tx.pending
      /\ tx'.pending = [k \in DOMAIN tx.pending |-> tx'.pending[k]]
      /\ \A k \in DOMAIN tx.pending :
           tx'.pending[k] =
             IF k \notin expired THEN tx.pending[k]
             ELSE IF tx.pending[k].retries < MaxRetries
               THEN [tx.pending[k] EXCEPT !.retries = @ + 1]
             ELSE [tx.pending[k] EXCEPT !.gave_up = TRUE]
  BY <1>0 DEF Retransmit, Due, Resent, TypeOK
<1>2. \A k \in DOMAIN tx.pending :
        /\ tx.pending[k] \in Pending
        /\ tx'.pending[k] \in Pending
        /\ tx'.pending[k].payload = tx.pending[k].payload
        /\ tx'.pending[k].options = tx.pending[k].options
  <2> SUFFICES ASSUME NEW k \in DOMAIN tx.pending
               PROVE  /\ tx.pending[k] \in Pending
                      /\ tx'.pending[k] \in Pending
                      /\ tx'.pending[k].payload = tx.pending[k].payload
                      /\ tx'.pending[k].options = tx.pending[k].options
    OBVIOUS
  <2>1. tx.pending[k] \in Pending
    BY <1>0 DEF TypeOK
  <2>2. CASE k \notin expired
    BY <2>1, <2>2, <1>1
  <2>3. CASE k \in expired /\ tx.pending[k].retries < MaxRetries
    <3>1. tx'.pending[k] = [tx.pending[k] EXCEPT !.retries = @ + 1]
      BY <2>3, <1>1
    <3>2. tx.pending[k].retries + 1 \in 0 .. MaxRetries
      BY <2>1, <2>3 DEF Pending
    <3> QED
      BY <2>1, <3>1, <3>2 DEF Pending
  <2>4. CASE k \in expired /\ ~ (tx.pending[k].retries < MaxRetries)
    <3>1. tx'.pending[k] = [tx.pending[k] EXCEPT !.gave_up = TRUE]
      BY <2>4, <1>1
    <3> QED
      BY <2>1, <3>1 DEF Pending
  <2> QED
    BY <2>2, <2>3, <2>4, <2>1
<1>3. \A m \in net' \ net : \E k \in DOMAIN tx.pending :
        /\ tx.pending[k].retries < MaxRetries
        /\ m = [payload |-> tx.pending[k].payload, seq |-> k,
                options |-> tx.pending[k].options,
                copy |-> tx.pending[k].retries + 1]
  BY <1>0 DEF Retransmit, Resent
<1>4. TypeOK'
  <2>1. net' \subseteq Datagram
    <3> SUFFICES ASSUME NEW m \in net', m \notin net PROVE m \in Datagram
      BY <1>0 DEF TypeOK
    <3>1. PICK k \in DOMAIN tx.pending :
            /\ tx.pending[k].retries < MaxRetries
            /\ m = [payload |-> tx.pending[k].payload, seq |-> k,
                    options |-> tx.pending[k].options,
                    copy |-> tx.pending[k].retries + 1]
      BY <1>3
    <3>2. k \in Seqs
      BY <1>0 DEF TypeOK
    <3>3. /\ tx.pending[k].payload \in Messages
          /\ tx.pending[k].options \in Options
          /\ tx.pending[k].retries + 1 \in 0 .. MaxRetries
      BY <3>1, <1>2 DEF Pending
    <3> QED
      BY <3>1, <3>2, <3>3 DEF Datagram
  <2>2. tx'.pending \in [DOMAIN tx'.pending -> Pending]
    BY <1>1, <1>2
  <2>3. DOMAIN tx'.pending \subseteq Seqs
    BY <1>0, <1>1 DEF TypeOK
  <2> QED
    BY SMTT(30), <2>1, <2>2, <2>3, <1>0, <1>1 DEF TypeOK
<1>5. WireFaithful'
  <2> SUFFICES ASSUME NEW m \in net'
               PROVE  /\ m.payload \in 1 .. Len(sent)
                      /\ sent[m.payload] = [options |-> m.options, seq |-> m.seq]
    BY <1>0 DEF WireFaithful
  <2>1. CASE m \in net
    BY <2>1 DEF IndInv, WireFaithful
  <2>2. CASE m \notin net
    BY <2>2, <1>0, <1>3 DEF PendingFaithful, GuaranteedSent
  <2> QED
    BY <2>1, <2>2
<1>6. /\ SentNumbered' /\ BufferFaithful' /\ PrefixReleased'
      /\ ReleasedFaithful' /\ OrderedDelivery'
      /\ GuaranteedSent' = GuaranteedSent /\ Released' = Released
  BY <1>0, <1>1, FrameIndInv
<1>7. PendingFaithful'
  BY <1>0, <1>1, <1>2, <1>6 DEF PendingFaithful
<1>8. InPending' = InPending
  BY <1>1, <1>2 DEF InPending
<1>9. NoSilentLoss' /\ AcksSound'
  BY <1>0, <1>6, <1>8 DEF IndInv, NoSilentLoss, AcksSound
<1> QED
  BY <1>4, <1>5, <1>6, <1>7, <1>9 DEF IndInv

(***************************************************************************)
(* Losing a datagram preserves the inductive invariant.                    *)
(***************************************************************************)
LEMMA LoseIndInv ==
  ASSUME IndInv, NEW m, Lose(m)
  PROVE  IndInv'
<1>0. /\ TypeOK /\ net' \subseteq net
      /\ UNCHANGED <<tx, rx, acks, sent, log, evicted, forgotten>>
  BY DEF IndInv, Lose
<1>1. used' \in [loss : Nat, ackLoss : Nat, dup : Nat, return : Nat]
  <2>1. used \in [loss : Nat, ackLoss : Nat, dup : Nat, return : Nat]
    BY <1>0 DEF TypeOK
  <2>2. used' = [used EXCEPT !.loss = used.loss + 1]
    BY DEF Lose
  <2> QED
    BY <2>1, <2>2
<1>2. TypeOK'
  BY SMTT(30), <1>0, <1>1 DEF TypeOK
<1>3. /\ SentNumbered' /\ BufferFaithful' /\ PrefixReleased'
      /\ ReleasedFaithful' /\ OrderedDelivery'
      /\ GuaranteedSent' = GuaranteedSent /\ Released' = Released
  BY <1>0, FrameIndInv
<1>4. WireFaithful' /\ AcksSound'
  BY <1>0 DEF IndInv, WireFaithful, AcksSound
<1>5. PendingFaithful' /\ NoSilentLoss'
  BY <1>0, <1>3 DEF IndInv, PendingFaithful, NoSilentLoss, InPending
<1> QED
  BY <1>2, <1>3, <1>4, <1>5 DEF IndInv

(***************************************************************************)
(* Sending an ack, forced or piggybacked, preserves the invariant.         *)
(***************************************************************************)
LEMMA ReportAckIndInv ==
  ASSUME IndInv, ReportAck,
         used' \in [loss : Nat, ackLoss : Nat, dup : Nat, return : Nat]
  PROVE  IndInv'
<1> USE SeqSpaceAssumption, BoundsAssumption, NoWrapAssumption
<1>0. /\ TypeOK /\ PrefixReleased /\ SentNumbered
      /\ UNCHANGED <<tx, net, sent, log, evicted, forgotten>>
  BY DEF IndInv, ReportAck
<1>1. /\ rx'.g_next = rx.g_next /\ rx'.g_buf = rx.g_buf
      /\ rx' \in [g_next : Seqs, g_buf : {rx.g_buf}, be_last : Seqs,
                  be_seen : BOOLEAN, ack_due : BOOLEAN]
  BY <1>0 DEF ReportAck, AckSent, TypeOK
<1>2. rx.g_next \in Seqs /\ rx.g_next >= 1
  <2>1. rx.g_next \in Seqs
    BY <1>0 DEF TypeOK
  <2> QED
    BY <2>1, <1>0 DEF PrefixReleased
<1>3. ack_value(rx) \in Seqs /\ ack_value(rx) < rx.g_next
  BY <1>2 DEF ack_value, WrapSub, Seqs
<1>4. acks' \in [Seqs -> Nat]
  <2>1. acks \in [Seqs -> Nat]
    BY <1>0 DEF TypeOK
  <2>2. acks' = [acks EXCEPT ![ack_value(rx)] = acks[ack_value(rx)] + 1]
    BY DEF ReportAck
  <2> QED
    BY <2>1, <2>2, <1>3
<1>5. TypeOK'
  BY <1>0, <1>1, <1>4 DEF TypeOK
<1>6. AcksSound'
  <2> SUFFICES ASSUME NEW a \in Seqs, acks'[a] > 0
               PROVE  a < rx.g_next
    BY <1>1 DEF AcksSound
  <2>1. CASE a = ack_value(rx)
    BY <2>1, <1>3
  <2>2. CASE a # ack_value(rx)
    BY <2>2, <1>0 DEF ReportAck, IndInv, AcksSound, TypeOK
  <2> QED
    BY <2>1, <2>2
<1>7. /\ SentNumbered' /\ BufferFaithful' /\ PrefixReleased'
      /\ ReleasedFaithful' /\ OrderedDelivery'
      /\ GuaranteedSent' = GuaranteedSent /\ Released' = Released
  BY <1>0, <1>1, FrameIndInv
<1>8. WireFaithful' /\ PendingFaithful' /\ NoSilentLoss'
  BY <1>0, <1>7 DEF IndInv, WireFaithful, PendingFaithful, NoSilentLoss,
                    InPending
<1> QED
  BY <1>5, <1>6, <1>7, <1>8 DEF IndInv

(***************************************************************************)
(* Losing an ack preserves the invariant, and so does on_ack(): what it    *)
(* clears has been released.                                               *)
(***************************************************************************)
LEMMA TakeAckIndInv ==
  ASSUME IndInv, NEW a \in Seqs, TakeAck(a),
         tx' = tx \/ tx' = OnAck(tx, a),
         used' \in [loss : Nat, ackLoss : Nat, dup : Nat, return : Nat]
  PROVE  IndInv'
<1> USE SeqSpaceAssumption, BoundsAssumption, NoWrapAssumption
<1>0. /\ TypeOK /\ PendingFaithful /\ SentNumbered /\ PrefixReleased
      /\ UNCHANGED <<rx, net, sent, log, evicted, forgotten>>
      /\ acks[a] > 0 /\ acks' = [acks EXCEPT ![a] = @ - 1]
  BY DEF IndInv, TakeAck
<1>1. /\ tx'.next_gseq = tx.next_gseq /\ tx'.next_bseq = tx.next_bseq
      /\ tx' \in [next_gseq : Seqs, next_bseq : Seqs, pending : {tx'.pending}]
      /\ DOMAIN tx'.pending \subseteq DOMAIN tx.pending
      /\ tx'.pending = [k \in DOMAIN tx'.pending |-> tx.pending[k]]
      /\ \A k \in DOMAIN tx'.pending : tx'.pending[k] = tx.pending[k]
      /\ DOMAIN tx.pending \ DOMAIN tx'.pending \subseteq Cleared(tx, a)
  <2>1. CASE tx' = tx
    BY <2>1, <1>0 DEF TypeOK
  <2>2. CASE tx' = OnAck(tx, a)
    BY <2>2, <1>0 DEF OnAck, Without, Restrict, TypeOK
  <2> QED
    BY <2>1, <2>2
<1>2. TypeOK'
  <2>1. acks' \in [Seqs -> Nat]
    <3>1. acks \in [Seqs -> Nat]
      BY <1>0 DEF TypeOK
    <3> QED
      BY <3>1, <1>0
  <2>2. tx'.pending \in [DOMAIN tx'.pending -> Pending]
    BY <1>0, <1>1 DEF TypeOK
  <2>3. DOMAIN tx'.pending \subseteq Seqs
    BY <1>0, <1>1 DEF TypeOK
  <2> QED
    BY <2>1, <2>2, <2>3, <1>0, <1>1 DEF TypeOK
<1>3. /\ SentNumbered' /\ BufferFaithful' /\ PrefixReleased'
      /\ ReleasedFaithful' /\ OrderedDelivery'
      /\ GuaranteedSent' = GuaranteedSent /\ Released' = Released
  BY <1>0, <1>1, FrameIndInv
<1>4. WireFaithful' /\ AcksSound'
  BY <1>0 DEF IndInv, WireFaithful, AcksSound, TypeOK
<1>5. PendingFaithful'
  BY <1>0, <1>1, <1>3 DEF PendingFaithful
<1>6. \A k \in Cleared(tx, a) : tx.pending[k].payload \in Released
  <2> SUFFICES ASSUME NEW k \in DOMAIN tx.pending, seq_le(k, a)
               PROVE  tx.pending[k].payload \in Released
    <3>1. DOMAIN tx.pending \subseteq Int
      BY <1>0 DEF TypeOK, Seqs
    <3>2. \A k \in Cleared(tx, a) : k \in DOMAIN tx.pending /\ seq_le(k, a)
      BY <3>1 DEF Cleared
    <3> QED
      BY <3>2
  <2>1. /\ tx.pending[k].payload \in GuaranteedSent
        /\ sent[tx.pending[k].payload].seq = k
        /\ k \in 1 .. (tx.next_gseq - 1)
    <3>1. /\ tx.pending[k].payload \in GuaranteedSent
          /\ sent[tx.pending[k].payload] =
               [options |-> tx.pending[k].options, seq |-> k]
      BY <1>0 DEF PendingFaithful
    <3>2. sent[tx.pending[k].payload].seq \in 1 .. (tx.next_gseq - 1)
      BY <3>1, <1>0 DEF SentNumbered
    <3> QED
      BY <3>1, <3>2
  <2>2. a < rx.g_next
    BY <1>0 DEF IndInv, AcksSound
  <2>3. /\ tx.next_gseq \in 1 .. (MaxSend + 1)
        /\ rx.g_next \in 1 .. tx.next_gseq
    <3>1. Len(sent) \in Nat /\ Len(sent) <= MaxSend
      BY <1>0 DEF TypeOK
    <3> QED
      BY <3>1, <1>0 DEF SentNumbered, PrefixReleased
  <2>4. k <= a
    <3>1. a \in 0 .. (MaxSend + 1) /\ k \in 0 .. (MaxSend + 1)
      BY <2>1, <2>2, <2>3 DEF Seqs
    <3> QED
      BY <3>1, SeqOrder
  <2>5. k < rx.g_next
    BY <2>1, <2>2, <2>3, <2>4 DEF Seqs
  <2> QED
    BY <2>1, <2>5, <1>0 DEF PrefixReleased
<1>7. NoSilentLoss'
  <2>1. InPending \subseteq InPending' \cup Released
    BY <1>1, <1>6 DEF InPending
  <2> QED
    BY <2>1, <1>0, <1>3 DEF IndInv, NoSilentLoss
<1> QED
  BY <1>2, <1>3, <1>4, <1>5, <1>7 DEF IndInv

-----------------------------------------------------------------------------
(***************************************************************************)
(* Messages with the same guaranteed number are the same message, and      *)
(* numbers are ordered like messages.                                      *)
(***************************************************************************)
LEMMA NumberOrder ==
  ASSUME IndInv, NEW i \in GuaranteedSent, NEW j \in GuaranteedSent
  PROVE  /\ i \in Nat /\ j \in Nat
         /\ sent[i].seq \in Nat /\ sent[j].seq \in Nat
         /\ sent[i].seq = sent[j].seq => i = j
         /\ sent[i].seq < sent[j].seq <=> i < j
<1>1. /\ i < j => sent[i].seq < sent[j].seq
      /\ j < i => sent[j].seq < sent[i].seq
  BY DEF IndInv, SentNumbered
<1>2. sent[i].seq \in Nat /\ sent[j].seq \in Nat
  BY DEF IndInv, SentNumbered
<1>3. i \in Nat /\ j \in Nat
  BY SMTT(30) DEF GuaranteedSent
<1> QED
  BY <1>1, <1>2, <1>3

(***************************************************************************)
(* on_message() releasing message id and then draining the buffer of r1.   *)
(* r1 is the receiver between the two: either g_next has stepped over id   *)
(* (sequential), or id's marker has been buffered (nonsequential).         *)
(***************************************************************************)
LEMMA ReleaseAndDrain ==
  ASSUME IndInv, NEW id \in GuaranteedSent, NEW r1,
         r1.g_next \in rx.g_next .. tx.next_gseq,
         DOMAIN r1.g_buf \subseteq r1.g_next .. (tx.next_gseq - 1),
         \A k \in DOMAIN r1.g_buf :
           /\ r1.g_buf[k] # NoPayload =>
                r1.g_buf[k] \in OrderedSent /\ sent[r1.g_buf[k]].seq = k
           /\ r1.g_buf[k] = NoPayload =>
                \A jd \in GuaranteedSent :
                  sent[jd].seq = k => jd \in Released \cup {id},
         \A jd \in GuaranteedSent :
           sent[jd].seq < r1.g_next => jd \in Released \cup {id},
         id \in OrderedSent =>
           sent[id].seq = rx.g_next /\ r1.g_next = rx.g_next + 1,
         rx'.g_next = Drain(r1).g_next,
         rx'.g_buf = Drain(r1).g_buf,
         {"g_next", "g_buf"} \subseteq DOMAIN r1,
         log' = log \o (<<id>> \o Run(r1)),
         UNCHANGED <<tx, sent>>
  PROVE  /\ BufferFaithful' /\ PrefixReleased' /\ ReleasedFaithful'
         /\ OrderedDelivery' /\ Released \subseteq Released'
         /\ rx.g_next <= rx'.g_next /\ rx'.g_next \in Seqs
         /\ log' \in Seq(Messages \cup {NoPayload})
         /\ DOMAIN rx'.g_buf \subseteq Seqs
         /\ rx'.g_buf \in [DOMAIN rx'.g_buf -> Messages \cup {NoPayload}]
<1> DEFINE n == RunLength(r1)
           G == r1.g_next
           D == DOMAIN r1.g_buf
           L == Len(log)
<1> USE SeqSpaceAssumption, BoundsAssumption, NoWrapAssumption
<1>1. /\ tx.next_gseq \in 1 .. (MaxSend + 1)
      /\ rx.g_next \in 1 .. tx.next_gseq
      /\ Len(sent) \in Nat /\ Len(sent) <= MaxSend
  <2>1. Len(sent) \in Nat /\ Len(sent) <= MaxSend
    BY DEF IndInv, TypeOK
  <2> QED
    BY <2>1 DEF IndInv, SentNumbered, PrefixReleased
<1>2. /\ G \in 1 .. (MaxSend + 1) /\ D \subseteq G .. MaxSend
  <2>1. /\ G \in rx.g_next .. tx.next_gseq
        /\ D \subseteq G .. (tx.next_gseq - 1)
    BY SMTT(30)
  <2> HIDE DEF G, D
  <2> QED
    BY ONLY <2>1, <1>1, BoundsAssumption
<1>3. /\ n \in Nat /\ G + n \in 1 .. (MaxSend + 1) /\ G + n \notin D
      /\ \A k \in G .. (G + n - 1) : k \in D
      /\ Run(r1) = [i \in 1 .. n |-> r1.g_buf[G + (i - 1)]]
      /\ rx'.g_next = G + n
      /\ rx'.g_buf = [k \in D \ (G .. (G + n - 1)) |-> r1.g_buf[k]]
  <2>1. /\ n \in Nat /\ G + n \in 1 .. (MaxSend + 1) /\ G + n \notin D
        /\ \A k \in G .. (G + n - 1) : k \in D
    BY <1>2, DrainRun
  <2>2. /\ Run(r1) = [i \in 1 .. n |-> r1.g_buf[G + (i - 1)]]
        /\ Drain(r1).g_next = G + n
        /\ Drain(r1).g_buf = [k \in D \ (G .. (G + n - 1)) |-> r1.g_buf[k]]
    BY <1>2, DrainForm
  <2> QED
    BY <2>1, <2>2
<1> HIDE DEF n
<1>4. /\ log \in Seq(Messages \cup {NoPayload}) /\ L \in Nat
      /\ GuaranteedSent \subseteq Messages /\ OrderedSent \subseteq Messages
      /\ OrderedSent \subseteq GuaranteedSent
      /\ GuaranteedSent \subseteq 1 .. Len(sent)
      /\ \A i \in 1 .. L : log[i] # NoPayload => log[i] \in Released
      /\ NoPayload \notin OrderedSent /\ NoPayload \notin GuaranteedSent
  <2>1. log \in Seq(Messages \cup {NoPayload}) /\ L \in Nat
    BY DEF IndInv, TypeOK
  <2>2. GuaranteedSent \subseteq 1 .. Len(sent) /\ OrderedSent \subseteq GuaranteedSent
    BY DEF GuaranteedSent, OrderedSent
  <2>3. 1 .. Len(sent) \subseteq Messages /\ NoPayload \notin 1 .. Len(sent)
    BY <1>1 DEF Messages, NoPayload
  <2>4. \A i \in 1 .. L : log[i] # NoPayload => log[i] \in Released
    BY DEF Released
  <2> QED
    BY <2>1, <2>2, <2>3, <2>4
<1>5. /\ GuaranteedSent' = GuaranteedSent /\ OrderedSent' = OrderedSent
      /\ sent' = sent /\ tx' = tx
  BY DEF GuaranteedSent, OrderedSent
<1>6. \A k \in D : r1.g_buf[k] \in Messages \cup {NoPayload}
  BY <1>4
\* the three parts of the log
<1>7. /\ log' \in Seq(Messages \cup {NoPayload})
      /\ Len(log') = L + 1 + n
      /\ \A i \in 1 .. L : log'[i] = log[i]
      /\ log'[L + 1] = id
      /\ \A i \in 1 .. n : log'[L + 1 + i] = r1.g_buf[G + (i - 1)]
  <2>1. Run(r1) \in Seq(Messages \cup {NoPayload}) /\ Len(Run(r1)) = n
    <3>1. \A i \in 1 .. n : r1.g_buf[G + (i - 1)] \in Messages \cup {NoPayload}
      <4>1. \A i \in 1 .. n : G + (i - 1) \in G .. (G + n - 1)
        BY SMTT(30), <1>2, <1>3
      <4> QED
        BY SMTT(30), <4>1, <1>3, <1>6
    <3> DEFINE RR == [i \in 1 .. n |-> r1.g_buf[G + (i - 1)]]
    <3>2. RR \in Seq(Messages \cup {NoPayload}) /\ Len(RR) = n
      BY ONLY <3>1, <1>3
    <3> QED
      BY <3>2, <1>3
  <2>2. id \in Messages \cup {NoPayload}
    BY <1>4
  <2>3. /\ <<id>> \o Run(r1) \in Seq(Messages \cup {NoPayload})
        /\ Len(<<id>> \o Run(r1)) = 1 + n
        /\ (<<id>> \o Run(r1))[1] = id
        /\ \A i \in 1 .. n : (<<id>> \o Run(r1))[1 + i] = Run(r1)[i]
    BY ONLY <2>1, <2>2, <1>3
  <2>4. \A i \in 1 .. n : Run(r1)[i] = r1.g_buf[G + (i - 1)]
    BY <1>3
  <2> DEFINE tail == <<id>> \o Run(r1)
  <2>5. log' = log \o tail
    OBVIOUS
  <2> HIDE DEF tail
  <2>6. /\ tail \in Seq(Messages \cup {NoPayload}) /\ Len(tail) = 1 + n
        /\ tail[1] = id
        /\ \A i \in 1 .. n : tail[1 + i] = r1.g_buf[G + (i - 1)]
    BY <2>3, <2>4 DEF tail
  <2>7. /\ log' \in Seq(Messages \cup {NoPayload})
        /\ Len(log') = L + (1 + n)
        /\ \A i \in 1 .. L : log'[i] = log[i]
        /\ \A i \in 1 .. (1 + n) : log'[L + i] = tail[i]
    <3>1. /\ log \o tail \in Seq(Messages \cup {NoPayload})
          /\ Len(log \o tail) = Len(log) + Len(tail)
          /\ \A i \in 1 .. Len(log) : (log \o tail)[i] = log[i]
          /\ \A i \in 1 .. Len(tail) : (log \o tail)[Len(log) + i] = tail[i]
      <4>1. /\ log \in Seq(Messages \cup {NoPayload})
            /\ tail \in Seq(Messages \cup {NoPayload})
        BY <1>4, <2>6
      <4> QED
        BY ONLY <4>1, ConcatParts
    <3> QED
      BY ONLY <3>1, <2>5, <2>6
  <2>8. /\ log'[L + 1] = id
        /\ \A i \in 1 .. n : log'[L + (1 + i)] = r1.g_buf[G + (i - 1)]
    <3>1. 1 \in 1 .. (1 + n) /\ \A i \in 1 .. n : 1 + i \in 1 .. (1 + n)
      BY ONLY <1>3
    <3>2. log'[L + 1] = tail[1]
      BY ONLY <3>1, <2>7
    <3>3. \A i \in 1 .. n : log'[L + (1 + i)] = tail[1 + i]
      BY ONLY <3>1, <2>7
    <3> QED
      BY ONLY <3>2, <3>3, <2>6
  <2> QED
    <3>1. /\ Len(log') = L + 1 + n
          /\ \A i \in 1 .. n : L + (1 + i) = L + 1 + i
      BY ONLY <2>7, <1>3, <1>4
    <3> QED
      BY ONLY <3>1, <2>7, <2>8
\* the place of every key of the run in the log
<1>8. \A k \in G .. (G + n - 1) :
        /\ k - G + 1 \in 1 .. n
        /\ log'[L + 1 + (k - G + 1)] = r1.g_buf[k]
  <2> SUFFICES ASSUME NEW k \in G .. (G + n - 1)
               PROVE  /\ k - G + 1 \in 1 .. n
                      /\ log'[L + 1 + (k - G + 1)] = r1.g_buf[k]
    OBVIOUS
  <2>1. k - G + 1 \in 1 .. n /\ G + ((k - G + 1) - 1) = k
    BY ONLY SMTT(30), <1>2, <1>3, BoundsAssumption
  <2> QED
    BY ONLY <2>1, <1>7
<1>9. /\ Released \subseteq Released' /\ id \in Released'
      /\ \A k \in G .. (G + n - 1) :
           r1.g_buf[k] # NoPayload => r1.g_buf[k] \in Released'
      /\ \A x \in Released' : \/ x \in Released \cup {id}
                              \/ \E k \in G .. (G + n - 1) : x = r1.g_buf[k]
  <2>1. \A i \in 1 .. Len(log') : log'[i] # NoPayload => log'[i] \in Released'
    BY SMTT(30) DEF Released
  <2>2. Released \subseteq Released'
    BY SMTT(30), <2>1, <1>3, <1>4, <1>7 DEF Released
  <2>3. id \in Released'
    <3>1. L + 1 \in 1 .. Len(log') /\ id # NoPayload
      BY SMTT(30), <1>3, <1>4, <1>7
    <3> QED
      BY <3>1, <2>1, <1>7
  <2>4. ASSUME NEW k \in G .. (G + n - 1), r1.g_buf[k] # NoPayload
        PROVE  r1.g_buf[k] \in Released'
    <3>1. L + 1 + (k - G + 1) \in 1 .. Len(log')
      BY ONLY <1>8, <1>7, <1>4, <1>3
    <3> QED
      BY <3>1, <2>1, <2>4, <1>8
  <2>5. ASSUME NEW x \in Released'
        PROVE  \/ x \in Released \cup {id}
               \/ \E k \in G .. (G + n - 1) : x = r1.g_buf[k]
    <3>1. PICK i \in 1 .. Len(log') : x = log'[i] /\ x # NoPayload
      BY <2>5 DEF Released
    <3>2. CASE i \in 1 .. L
      BY SMTT(30), <3>1, <3>2, <1>4, <1>7
    <3>3. CASE i = L + 1
      BY <3>1, <3>3, <1>7
    <3>4. CASE i > L + 1
      <4>1. i - (L + 1) \in 1 .. n /\ i = L + 1 + (i - (L + 1))
        BY ONLY <3>4, <1>7, <1>3, <1>4
      <4>2. x = r1.g_buf[G + ((i - (L + 1)) - 1)]
        BY ONLY <4>1, <3>1, <1>7
      <4>3. G + ((i - (L + 1)) - 1) \in G .. (G + n - 1)
        BY ONLY SMTT(30), <4>1, <1>2, <1>3, <1>4, BoundsAssumption
      <4> QED
        BY ONLY <4>2, <4>3
    <3> QED
      BY ONLY SMTT(30), <3>1, <3>2, <3>3, <3>4, <1>3, <1>4, <1>7
  <2> QED
    BY SMTT(30), <2>2, <2>3, <2>4, <2>5
<1>10. BufferFaithful'
  <2> SUFFICES ASSUME NEW k \in DOMAIN rx'.g_buf
               PROVE  /\ k \in (rx'.g_next + 1) .. (tx.next_gseq - 1)
                      /\ rx'.g_buf[k] # NoPayload =>
                           /\ rx'.g_buf[k] \in OrderedSent
                           /\ sent[rx'.g_buf[k]].seq = k
                      /\ rx'.g_buf[k] = NoPayload =>
                           \A jd \in GuaranteedSent :
                             sent[jd].seq = k => jd \in Released'
    BY SMTT(30), <1>5 DEF BufferFaithful
  <2>1. /\ k \in D /\ k \notin G .. (G + n - 1) /\ k # G + n
        /\ rx'.g_buf[k] = r1.g_buf[k] /\ rx'.g_next = G + n
    BY <1>3
  <2>2. k \in G .. (tx.next_gseq - 1)
    BY <2>1
  <2>3. k \in (G + n + 1) .. (tx.next_gseq - 1)
    BY ONLY SMTT(30), <2>1, <2>2, <1>1, <1>2, <1>3, BoundsAssumption
  <2> QED
    BY <2>1, <2>3, <1>9
\* every guaranteed message numbered below the drain's end is out
<1>11. ASSUME NEW jd \in GuaranteedSent, sent[jd].seq < G + n
       PROVE  \/ jd \in Released \cup {id}
              \/ /\ sent[jd].seq \in G .. (G + n - 1)
                 /\ r1.g_buf[sent[jd].seq] = jd
  <2>0. sent[jd].seq \in Nat
    BY DEF IndInv, SentNumbered
  <2>1. CASE sent[jd].seq < G
    BY <2>1
  <2>2. CASE sent[jd].seq >= G
    <3>1. sent[jd].seq \in G .. (G + n - 1)
      BY ONLY SMTT(30), <2>0, <2>2, <1>11, <1>2, <1>3, BoundsAssumption
    <3>2. sent[jd].seq \in D
      BY <3>1, <1>3
    <3>3. CASE r1.g_buf[sent[jd].seq] = NoPayload
      BY <3>2, <3>3
    <3>4. CASE r1.g_buf[sent[jd].seq] # NoPayload
      <4>1. /\ r1.g_buf[sent[jd].seq] \in GuaranteedSent
            /\ sent[r1.g_buf[sent[jd].seq]].seq = sent[jd].seq
        BY <3>2, <3>4, <1>4
      <4>2. r1.g_buf[sent[jd].seq] = jd
        BY <4>1, NumberOrder
      <4> QED
        BY <4>2, <3>1
    <3> QED
      BY <3>3, <3>4
  <2> QED
    BY ONLY SMTT(30), <2>0, <2>1, <2>2, <1>2, BoundsAssumption
<1>12. PrefixReleased'
  <2>1. G + n \in 1 .. tx.next_gseq
    <3>1. CASE n = 0
      BY ONLY <3>1, <1>1, <1>2, <1>3, r1.g_next \in rx.g_next .. tx.next_gseq,
              BoundsAssumption
    <3>2. CASE n > 0
      <4>1. G + n - 1 \in D
        BY ONLY <3>2, <1>2, <1>3, BoundsAssumption
      <4>2. G + n - 1 <= tx.next_gseq - 1
        BY <4>1
      <4> QED
        BY ONLY <4>2, <1>1, <1>2, <1>3, BoundsAssumption
    <3> QED
      BY ONLY <3>1, <3>2, <1>3
  <2>2. \A jd \in GuaranteedSent : sent[jd].seq < G + n => jd \in Released'
    <3> SUFFICES ASSUME NEW jd \in GuaranteedSent, sent[jd].seq < G + n
                 PROVE  jd \in Released'
      OBVIOUS
    <3>1. \/ jd \in Released \cup {id}
          \/ /\ sent[jd].seq \in G .. (G + n - 1)
             /\ r1.g_buf[sent[jd].seq] = jd
      BY <1>11
    <3>2. jd # NoPayload
      BY SMTT(30), <1>4
    <3> QED
      BY ONLY <3>1, <3>2, <1>9
  <2> QED
    BY <2>1, <2>2, <1>3, <1>5 DEF PrefixReleased
\* the number of every ordered message of the log, old, new and drained
<1>13. /\ \A i \in 1 .. L : log[i] \in OrderedSent =>
            sent[log[i]].seq \in Nat /\ sent[log[i]].seq < rx.g_next
       /\ \A k \in G .. (G + n - 1) : r1.g_buf[k] \in OrderedSent =>
            sent[r1.g_buf[k]].seq = k
       /\ id \in OrderedSent => sent[id].seq = G - 1
       /\ rx.g_next <= G
  <2>1. \A i \in 1 .. L : log[i] \in OrderedSent =>
          sent[log[i]].seq \in Nat /\ sent[log[i]].seq < rx.g_next
    <3> SUFFICES ASSUME NEW i \in 1 .. L, log[i] \in OrderedSent
                 PROVE  sent[log[i]].seq \in Nat /\ sent[log[i]].seq < rx.g_next
      OBVIOUS
    <3>1. log[i] \in Released
      BY SMTT(30), <1>4
    <3> QED
      BY SMTT(30), <3>1, <1>4, NumberOrder DEF IndInv, ReleasedFaithful
  <2>2. \A k \in G .. (G + n - 1) : r1.g_buf[k] \in OrderedSent =>
          sent[r1.g_buf[k]].seq = k
    BY SMTT(30), <1>3, <1>4
  <2>3. id \in OrderedSent => sent[id].seq = G - 1
    BY <1>1
  <2>4. rx.g_next <= G
    BY SMTT(30), <1>1
  <2> QED
    BY SMTT(30), <2>1, <2>2, <2>3, <2>4
<1>14. ReleasedFaithful'
  <2>1. Released' \subseteq 1 .. Len(sent)
    <3> SUFFICES ASSUME NEW x \in Released' PROVE x \in 1 .. Len(sent)
      OBVIOUS
    <3>1. x # NoPayload
      BY DEF Released
    <3>2. CASE x \in Released \cup {id}
      BY SMTT(30), <3>2, <1>4 DEF IndInv, ReleasedFaithful
    <3>3. CASE \E k \in G .. (G + n - 1) : x = r1.g_buf[k]
      BY <3>1, <3>3, <1>3, <1>4
    <3> QED
      BY <3>2, <3>3, <1>9
  <2>2. \A x \in Released' : x \in OrderedSent => sent[x].seq < G + n
    <3> SUFFICES ASSUME NEW x \in Released', x \in OrderedSent
                 PROVE  sent[x].seq < G + n
      BY SMTT(30)
    <3>0. sent[x].seq \in Nat
      BY SMTT(30), <1>4, NumberOrder
    <3>1. CASE x \in Released
      <4>1. sent[x].seq < rx.g_next
        BY <3>1 DEF IndInv, ReleasedFaithful
      <4> QED
        BY ONLY SMTT(30), <4>1, <3>0, <1>13, <1>1, <1>2, <1>3, BoundsAssumption
    <3>2. CASE x = id
      BY ONLY SMTT(30), <3>0, <3>2, x \in OrderedSent, <1>13, <1>2, <1>3,
              BoundsAssumption
    <3>3. CASE \E k \in G .. (G + n - 1) : x = r1.g_buf[k]
      BY ONLY SMTT(30), <3>3, x \in OrderedSent, <1>13, <1>2, <1>3,
         BoundsAssumption
    <3> QED
      BY <3>1, <3>2, <3>3, <1>9
  <2> QED
    BY <2>1, <2>2, <1>3, <1>5 DEF ReleasedFaithful
<1>15. OrderedDelivery'
  <2> SUFFICES ASSUME NEW i \in 1 .. Len(log'), log'[i] \in OrderedSent
               PROVE  /\ \A j \in 1 .. (i - 1) :
                           log'[j] \in OrderedSent => log'[j] < log'[i]
                      /\ \A jd \in GuaranteedSent : jd < log'[i] =>
                           \E j \in 1 .. (i - 1) : log'[j] = jd
    BY <1>5 DEF OrderedDelivery
  <2>0. /\ L \in Nat /\ n \in Nat /\ G \in Nat \ {0} /\ rx.g_next \in Nat
        /\ Len(log') = L + 1 + n
    <3>1. L \in Nat /\ n \in Nat
      BY ONLY <1>3, <1>4
    <3>2. G \in Nat \ {0} /\ rx.g_next \in Nat
      BY ONLY SMTT(30), <1>1, <1>2, BoundsAssumption
    <3>3. Len(log') = L + 1 + n
      BY ONLY SMTT(30), <1>7
    <3> QED
      BY ONLY <3>1, <3>2, <3>3
  <2> HIDE DEF L, G
  <2>1. CASE i \in 1 .. L
    <3>1. log[i] \in OrderedSent /\ log'[i] = log[i]
      BY SMTT(30), <2>1, <1>7
    <3>2. \A j \in 1 .. (i - 1) : j \in 1 .. L /\ log'[j] = log[j]
      <4>1. \A j \in 1 .. (i - 1) : j \in 1 .. L
        BY ONLY <2>0, <2>1
      <4> QED
        BY ONLY <4>1, <1>7
    <3> QED
      BY SMTT(30), <2>1, <3>1, <3>2 DEF IndInv, OrderedDelivery, L
  \* a message released by this call: everything numbered below q, its own
  \* number, is in the log before it, and nothing ordered from q on is
  <2>2. ASSUME NEW q \in Nat, sent[log'[i]].seq = q,
               \A j \in 1 .. (i - 1) : log'[j] \in OrderedSent =>
                 sent[log'[j]].seq < q,
               \A jd \in GuaranteedSent : sent[jd].seq < q =>
                 \E j \in 1 .. (i - 1) : log'[j] = jd
        PROVE  /\ \A j \in 1 .. (i - 1) :
                    log'[j] \in OrderedSent => log'[j] < log'[i]
               /\ \A jd \in GuaranteedSent : jd < log'[i] =>
                    \E j \in 1 .. (i - 1) : log'[j] = jd
    <3>1. log'[i] \in GuaranteedSent
      BY <1>4
    <3>2. ASSUME NEW j \in 1 .. (i - 1), log'[j] \in OrderedSent
          PROVE  log'[j] < log'[i]
      BY <2>2, <3>1, <3>2, <1>4, NumberOrder
    <3>3. ASSUME NEW jd \in GuaranteedSent, jd < log'[i]
          PROVE  \E j \in 1 .. (i - 1) : log'[j] = jd
      BY <2>2, <3>1, <3>3, NumberOrder
    <3> QED
      BY <3>2, <3>3
  \* where the messages numbered below the drain's start are
  <2>3. ASSUME NEW jd \in Released
        PROVE  \E j \in 1 .. L : log'[j] = jd
    BY SMTT(30), <1>7 DEF Released, L
  <2>4. CASE i = L + 1
    <3>1. log'[i] = id /\ id \in OrderedSent
      BY <2>4, <1>7
    <3>2. sent[id].seq = rx.g_next /\ rx.g_next \in Nat
      BY SMTT(30), <3>1, <1>1
    <3>3. \A j \in 1 .. (i - 1) : log'[j] \in OrderedSent =>
            sent[log'[j]].seq < rx.g_next
      BY SMTT(30), <2>4, <1>4, <1>7, <1>13
    <3>4. \A jd \in GuaranteedSent : sent[jd].seq < rx.g_next =>
            \E j \in 1 .. (i - 1) : log'[j] = jd
      <4>1. \A jd \in GuaranteedSent : sent[jd].seq < rx.g_next => jd \in Released
        BY DEF IndInv, PrefixReleased
      <4>2. 1 .. (i - 1) = 1 .. L
        BY SMTT(30), <2>4, <1>4
      <4> QED
        BY <4>1, <4>2, <2>3
    <3> QED
      BY <3>1, <3>2, <3>3, <3>4, <2>2
  <2>5. CASE i > L + 1
    <3> DEFINE q == G + ((i - (L + 1)) - 1)
    <3>1. /\ i - (L + 1) \in 1 .. n /\ i = L + 1 + (i - (L + 1))
          /\ q \in G .. (G + n - 1) /\ q \in Nat /\ i = L + 1 + (q - G + 1)
      <4>1. i \in 1 .. Len(log')
        OBVIOUS
      <4> QED
        BY ONLY SMTT(30), <4>1, <2>5, <2>0
    <3>2. log'[i] = r1.g_buf[q]
      BY ONLY SMTT(30), <3>1, <1>7
    <3> HIDE DEF q
    <3>3. sent[log'[i]].seq = q
      BY SMTT(30), <3>1, <3>2, <1>13
    <3>4. ASSUME NEW j \in 1 .. (i - 1), log'[j] \in OrderedSent
          PROVE  sent[log'[j]].seq < q
      <4>0. j \in 1 .. (i - 1) /\ log'[j] \in OrderedSent
        BY SMTT(30), <3>4
      <4>1. CASE j \in 1 .. L
        <5>1. log'[j] = log[j] /\ rx.g_next <= G
          BY SMTT(30), <4>1, <1>7, <1>13
        <5>2. sent[log[j]].seq \in Nat /\ sent[log[j]].seq < rx.g_next
          BY <4>0, <4>1, <5>1, <1>13
        <5>3. G <= q /\ q \in Nat
          BY ONLY <3>1, <2>0
        <5>4. \A x \in Nat : x < rx.g_next => x < q
          BY ONLY <5>1, <5>3, <2>0
        <5> QED
          BY ONLY <5>1, <5>2, <5>4
      <4>2. CASE j = L + 1
        <5>1. log'[j] = id /\ sent[id].seq = G - 1
          BY SMTT(30), <4>0, <4>2, <1>7, <1>13
        <5>2. G - 1 < q
          BY ONLY <3>1, <2>0
        <5> QED
          BY ONLY SMTT(30), <5>1, <5>2
      <4>3. CASE j > L + 1
        <5>1. /\ j - (L + 1) \in 1 .. n /\ j = L + 1 + (j - (L + 1))
              /\ G + ((j - (L + 1)) - 1) \in G .. (G + n - 1)
              /\ G + ((j - (L + 1)) - 1) < q
          BY ONLY <4>0, <4>3, <3>1, <2>0
        <5>2. log'[j] = r1.g_buf[G + ((j - (L + 1)) - 1)]
          BY ONLY SMTT(30), <5>1, <1>7
        <5> QED
          BY ONLY <4>0, <5>1, <5>2, <1>13
      <4> QED
        BY ONLY <4>0, <4>1, <4>2, <4>3, <3>1, <2>0
    <3>5. ASSUME NEW jd \in GuaranteedSent, sent[jd].seq < q
          PROVE  \E j \in 1 .. (i - 1) : log'[j] = jd
      <4>0. sent[jd].seq \in Nat /\ sent[jd].seq < q
        BY <3>5, NumberOrder
      <4>1. sent[jd].seq < G + n
        BY ONLY SMTT(30), <4>0, <3>1, <2>0
      <4>2. CASE jd \in Released
        <5>1. 1 .. L \subseteq 1 .. (i - 1)
          BY ONLY <2>5, <3>1, <2>0
        <5> QED
          BY SMTT(30), <4>2, <5>1, <2>3
      <4>3. CASE jd = id
        BY ONLY SMTT(30), <4>3, <2>5, <3>1, <1>3, <1>4, <1>7
      <4>4. CASE /\ sent[jd].seq \in G .. (G + n - 1)
                 /\ r1.g_buf[sent[jd].seq] = jd
        <5> DEFINE j == L + 1 + (sent[jd].seq - G + 1)
        <5>1. log'[j] = jd
          BY ONLY <4>4, <1>8
        <5>2. j \in 1 .. (i - 1)
          BY ONLY SMTT(30), <4>0, <4>4, <3>1, <2>0
        <5> QED
          BY SMTT(30), <5>1, <5>2
      <4> QED
        BY <4>1, <4>2, <4>3, <4>4, <1>11
    <3> QED
      BY <3>1, <3>3, <3>4, <3>5, <2>2
  <2> QED
    BY ONLY SMTT(30), <2>1, <2>4, <2>5, <1>3, <1>4, <1>7
<1>16. /\ rx.g_next <= rx'.g_next /\ rx'.g_next \in Seqs
       /\ DOMAIN rx'.g_buf \subseteq Seqs
       /\ rx'.g_buf \in [DOMAIN rx'.g_buf -> Messages \cup {NoPayload}]
  <2>1. rx.g_next <= G + n
    BY ONLY SMTT(30), <1>1, <1>2, <1>3, <1>13, BoundsAssumption
  <2>2. G + n \in Seqs /\ D \subseteq Seqs
    BY ONLY SMTT(30), <1>2, <1>3, NoWrapAssumption, BoundsAssumption,
            SeqSpaceAssumption DEF Seqs
  <2>3. \A k \in D \ (G .. (G + n - 1)) : r1.g_buf[k] \in Messages \cup {NoPayload}
    BY <1>6
  <2> QED
    BY SMTT(30), <2>1, <2>2, <2>3, <1>3
<1> QED
  BY SMTT(30), <1>7, <1>9, <1>10, <1>12, <1>14, <1>15, <1>16

(***************************************************************************)
(* What a step through on_message() has to establish about the receiver    *)
(* and the log; the rest of the invariant follows from it.                 *)
(***************************************************************************)
ReceiverStep ==
  /\ rx' \in [g_next : Seqs, g_buf : {rx'.g_buf}, be_last : Seqs,
              be_seen : BOOLEAN, ack_due : BOOLEAN]
  /\ DOMAIN rx'.g_buf \subseteq Seqs
  /\ rx'.g_buf \in [DOMAIN rx'.g_buf -> Messages \cup {NoPayload}]
  /\ log' \in Seq(Messages \cup {NoPayload})
  /\ BufferFaithful' /\ PrefixReleased' /\ ReleasedFaithful'
  /\ OrderedDelivery'
  /\ Released \subseteq Released'
  /\ rx.g_next <= rx'.g_next

LEMMA ReceiverStepIndInv ==
  ASSUME IndInv, NEW m, Deliver(m), ReceiverStep, net' \subseteq net,
         used' \in [loss : Nat, ackLoss : Nat, dup : Nat, return : Nat]
  PROVE  IndInv'
<1>0. /\ UNCHANGED <<tx, acks, sent, evicted>>
      /\ GuaranteedSent' = GuaranteedSent
  BY DEF Deliver, GuaranteedSent
<1>1. forgotten' \subseteq Seqs
  BY DEF Deliver, IndInv, TypeOK
<1>2. TypeOK'
  BY SMTT(30), <1>0, <1>1 DEF ReceiverStep, IndInv, TypeOK
<1>3. SentNumbered' /\ WireFaithful' /\ PendingFaithful'
  BY <1>0 DEF IndInv, SentNumbered, WireFaithful, PendingFaithful
<1>4. AcksSound'
  <2> SUFFICES ASSUME NEW a \in Seqs, acks[a] > 0 PROVE a < rx'.g_next
    BY <1>0 DEF AcksSound
  <2>1. a < rx.g_next
    BY DEF IndInv, AcksSound
  <2>2. a \in Int /\ rx.g_next \in Int /\ rx'.g_next \in Int
    BY SeqSpaceAssumption DEF ReceiverStep, IndInv, TypeOK, Seqs
  <2> QED
    BY <2>1, <2>2 DEF ReceiverStep
<1>5. NoSilentLoss'
  BY <1>0 DEF ReceiverStep, IndInv, NoSilentLoss, InPending
<1> QED
  BY SMTT(30), <1>2, <1>3, <1>4, <1>5 DEF ReceiverStep, IndInv

(***************************************************************************)
(* on_message() preserves the inductive invariant, whatever arrives.       *)
(***************************************************************************)
LEMMA DeliverReceiverStep ==
  ASSUME IndInv, NEW m, Deliver(m)
  PROVE  ReceiverStep
<1> DEFINE id == m.payload
           seq == m.seq
           opt == m.options
           R == [g_next : Seqs, g_buf : {rx.g_buf}, be_last : Seqs,
                 be_seen : BOOLEAN, ack_due : BOOLEAN]
<1> USE SeqSpaceAssumption, BoundsAssumption, NoWrapAssumption
<1>0. /\ id \in Messages /\ seq \in Seqs
      /\ id \in 1 .. Len(sent)
      /\ sent[id] = [options |-> opt, seq |-> seq]
      /\ UNCHANGED <<tx, acks, sent, evicted>>
  BY DEF Deliver, IndInv, WireFaithful, TypeOK, Datagram
<1>1. /\ rx \in R /\ rx.g_next \in Seqs
      /\ DOMAIN rx.g_buf \subseteq Seqs
      /\ rx.g_buf \in [DOMAIN rx.g_buf -> Messages \cup {NoPayload}]
      /\ log \in Seq(Messages \cup {NoPayload})
  BY SMTT(30) DEF IndInv, TypeOK
<1>2. /\ Guaranteed(opt) <=> id \in GuaranteedSent
      /\ Guaranteed(opt) /\ IsSequential(opt) <=> id \in OrderedSent
  BY <1>0 DEF GuaranteedSent, OrderedSent
<1>3. Guaranteed(opt) => seq \in 1 .. (tx.next_gseq - 1) /\ seq # 0
  <2>1. Guaranteed(opt) => sent[id].seq \in 1 .. (tx.next_gseq - 1)
    BY <1>2 DEF IndInv, SentNumbered
  <2> QED
    BY <2>1, <1>0
<1>4. /\ tx.next_gseq \in 1 .. (MaxSend + 1) /\ rx.g_next \in 1 .. tx.next_gseq
  <2>1. Len(sent) \in Nat /\ Len(sent) <= MaxSend
    BY DEF IndInv, TypeOK
  <2> QED
    BY <2>1 DEF IndInv, SentNumbered, PrefixReleased
\* the receiver's order and buffer untouched, nothing released
<1>5. ASSUME rx' \in R, rx'.g_next = rx.g_next, rx'.g_buf = rx.g_buf,
             log' = log \o << >>
      PROVE  ReceiverStep
  <2>1. log' = log
    BY SMTT(30), <1>1, <1>5
  <2>2. /\ BufferFaithful' /\ PrefixReleased' /\ ReleasedFaithful'
        /\ OrderedDelivery' /\ Released' = Released
    BY <2>1, <1>0, <1>5, FrameIndInv
  <2>3. rx.g_next <= rx'.g_next
    BY <1>4, <1>5
  <2> QED
    BY <2>1, <2>2, <2>3, <1>1, <1>5 DEF ReceiverStep
\* a best-effort message released
<1>6. ASSUME rx' \in R, rx'.g_next = rx.g_next, rx'.g_buf = rx.g_buf,
             log' = log \o <<id>>, id \notin GuaranteedSent
      PROVE  ReceiverStep
  <2>1. /\ log' \in Seq(Messages \cup {NoPayload})
        /\ Len(log') = Len(log) + 1 /\ Len(log) \in Nat
        /\ \A i \in 1 .. Len(log) : log'[i] = log[i]
        /\ log'[Len(log) + 1] = id
    BY ONLY SMTT(30), <1>0, <1>1, <1>6
  <2>2. /\ GuaranteedSent' = GuaranteedSent /\ OrderedSent' = OrderedSent
        /\ id \notin OrderedSent
    BY SMTT(30), <1>0, <1>6 DEF GuaranteedSent, OrderedSent
  <2>3. /\ Released \subseteq Released' /\ Released' \subseteq Released \cup {id}
    BY SMTT(30), <2>1 DEF Released
  <2>4. BufferFaithful'
    BY <2>2, <2>3, <1>0, <1>6 DEF IndInv, BufferFaithful
  <2>5. PrefixReleased'
    BY <2>2, <2>3, <1>0, <1>6 DEF IndInv, PrefixReleased
  <2>6. ReleasedFaithful'
    BY <2>2, <2>3, <1>0, <1>6 DEF IndInv, ReleasedFaithful
  <2>7. OrderedDelivery'
    <3> SUFFICES ASSUME NEW i \in 1 .. Len(log'), log'[i] \in OrderedSent
                 PROVE  /\ \A j \in 1 .. (i - 1) :
                             log'[j] \in OrderedSent => log'[j] < log'[i]
                        /\ \A jd \in GuaranteedSent : jd < log'[i] =>
                             \E j \in 1 .. (i - 1) : log'[j] = jd
      BY <2>2 DEF OrderedDelivery
    <3>1. i # Len(log) + 1
      BY <2>1, <2>2
    <3>2. i \in 1 .. Len(log)
      BY <2>1, <3>1
    <3>3. \A j \in 1 .. (i - 1) : j \in 1 .. Len(log) /\ log'[j] = log[j]
      BY <2>1, <3>2
    <3> QED
      BY <2>1, <3>2, <3>3 DEF IndInv, OrderedDelivery
  <2>8. rx.g_next <= rx'.g_next
    BY <1>4, <1>6
  <2> QED
    BY SMTT(30), <2>1, <2>3, <2>4, <2>5, <2>6, <2>7, <2>8, <1>1, <1>6
      DEF ReceiverStep
\* putting an entry into the buffer, after making room for it
<1>7. ASSUME NEW r, r.g_buf = rx.g_buf, r.g_next = rx.g_next,
             r \in [g_next : Seqs, g_buf : {r.g_buf}, be_last : Seqs,
                    be_seen : BOOLEAN, ack_due : BOOLEAN],
             NEW p
      PROVE  LET b == Buffer(r, seq, p)
             IN  /\ b \in [g_next : Seqs, g_buf : {b.g_buf}, be_last : Seqs,
                           be_seen : BOOLEAN, ack_due : BOOLEAN]
                 /\ b.g_next = rx.g_next
                 /\ DOMAIN b.g_buf \subseteq DOMAIN rx.g_buf \cup {seq}
                 /\ b.g_buf = [k \in DOMAIN b.g_buf |->
                                 IF k = seq THEN p ELSE rx.g_buf[k]]
                 /\ \A k \in DOMAIN b.g_buf :
                      b.g_buf[k] = IF k = seq THEN p ELSE rx.g_buf[k]
  <2> DEFINE q == Put(Without(r.g_buf, BufEvicted(r)), seq, p)
  <2>1. Buffer(r, seq, p) = [r EXCEPT !.g_buf = q]
    BY SMTT(30) DEF Buffer
  <2>2. /\ DOMAIN q \subseteq DOMAIN rx.g_buf \cup {seq}
        /\ q = [k \in DOMAIN q |-> IF k = seq THEN p ELSE rx.g_buf[k]]
        /\ \A k \in DOMAIN q : q[k] = IF k = seq THEN p ELSE rx.g_buf[k]
    BY <1>7 DEF Put, Without, Restrict
  <2> HIDE DEF q
  <2>3. [r EXCEPT !.g_buf = q].g_buf = q
    BY <1>7
  <2>4. /\ [r EXCEPT !.g_buf = q].g_next = rx.g_next
        /\ [r EXCEPT !.g_buf = q] \in
             [g_next : Seqs, g_buf : {q}, be_last : Seqs,
              be_seen : BOOLEAN, ack_due : BOOLEAN]
    BY <1>7
  <2> QED
    BY <2>1, <2>2, <2>3, <2>4
\* the receiver once the forced-ack timer is armed
<1>8. LET r == ArmAck(rx, opt)
      IN  /\ r.g_buf = rx.g_buf /\ r.g_next = rx.g_next
          /\ r \in [g_next : Seqs, g_buf : {r.g_buf}, be_last : Seqs,
                    be_seen : BOOLEAN, ack_due : BOOLEAN]
  <2> DEFINE v == rx.ack_due \/ ~ AllowLazyAck(opt)
  <2>1. ArmAck(rx, opt) = [rx EXCEPT !.ack_due = v]
    BY DEF ArmAck
  <2>2. v \in BOOLEAN
    OBVIOUS
  <2> HIDE DEF v
  <2> QED
    BY SMTT(30), <2>1, <2>2, <1>1
<1>9. ASSUME Guaranteed(opt), ~ IsDuplicate(ArmAck(rx, opt), seq)
      PROVE  seq >= rx.g_next /\ seq \notin DOMAIN rx.g_buf
  <2>1. ack_value(ArmAck(rx, opt)) = rx.g_next - 1
    BY <1>4, <1>8 DEF ack_value, WrapSub
  <2>2. ~ seq_le(seq, rx.g_next - 1) /\ seq \notin DOMAIN rx.g_buf
    BY <2>1, <1>8, <1>9 DEF IsDuplicate
  <2>3. seq \in 0 .. (MaxSend + 1) /\ rx.g_next - 1 \in 0 .. (MaxSend + 1)
    BY ONLY <1>3, <1>4, <1>9, BoundsAssumption
  <2>4. ~ (seq <= rx.g_next - 1)
    BY SMTT(30), <2>2, <2>3, SeqOrder
  <2> QED
    BY ONLY <2>2, <2>3, <2>4, <1>4, BoundsAssumption
\* what the buffer holds, once more
<1>10. \A k \in DOMAIN rx.g_buf :
         /\ k \in (rx.g_next + 1) .. (tx.next_gseq - 1)
         /\ rx.g_buf[k] # NoPayload =>
              rx.g_buf[k] \in OrderedSent /\ sent[rx.g_buf[k]].seq = k
         /\ rx.g_buf[k] = NoPayload =>
              \A jd \in GuaranteedSent : sent[jd].seq = k => jd \in Released
  BY DEF IndInv, BufferFaithful
\* an out-of-order sequential message goes into the buffer
<1>11. ASSUME Guaranteed(opt), IsSequential(opt),
              ~ IsDuplicate(ArmAck(rx, opt), seq), seq # rx.g_next,
              rx' = Buffer(ArmAck(rx, opt), seq, id), log' = log \o << >>
       PROVE  ReceiverStep
  <2>1. log' = log /\ id \in OrderedSent /\ seq \in 1 .. (tx.next_gseq - 1)
    BY <1>1, <1>2, <1>3, <1>11
  <2>2. seq \in (rx.g_next + 1) .. (tx.next_gseq - 1)
    <3>1. seq >= rx.g_next /\ seq # rx.g_next
      BY SMTT(30), <1>9, <1>11
    <3> QED
      BY ONLY SMTT(30), <2>1, <3>1, <1>4, BoundsAssumption
  <2>3. /\ rx' \in [g_next : Seqs, g_buf : {rx'.g_buf}, be_last : Seqs,
                    be_seen : BOOLEAN, ack_due : BOOLEAN]
        /\ rx'.g_next = rx.g_next
        /\ DOMAIN rx'.g_buf \subseteq DOMAIN rx.g_buf \cup {seq}
        /\ rx'.g_buf = [k \in DOMAIN rx'.g_buf |->
                          IF k = seq THEN id ELSE rx.g_buf[k]]
        /\ \A k \in DOMAIN rx'.g_buf :
             rx'.g_buf[k] = IF k = seq THEN id ELSE rx.g_buf[k]
    BY SMTT(30), <1>7, <1>8, <1>11
  <2>4. /\ GuaranteedSent' = GuaranteedSent /\ OrderedSent' = OrderedSent
        /\ Released' = Released
    BY SMTT(30), <2>1, <1>0 DEF GuaranteedSent, OrderedSent, Released
  <2>5. id # NoPayload /\ sent[id].seq = seq
    BY SMTT(30), <1>0 DEF Messages, NoPayload
  <2>6. BufferFaithful'
    <3> SUFFICES ASSUME NEW k \in DOMAIN rx'.g_buf
                 PROVE  /\ k \in (rx.g_next + 1) .. (tx.next_gseq - 1)
                        /\ rx'.g_buf[k] # NoPayload =>
                             /\ rx'.g_buf[k] \in OrderedSent
                             /\ sent[rx'.g_buf[k]].seq = k
                        /\ rx'.g_buf[k] = NoPayload =>
                             \A jd \in GuaranteedSent :
                               sent[jd].seq = k => jd \in Released
      BY <2>3, <2>4, <1>0 DEF BufferFaithful
    <3>1. CASE k = seq
      BY SMTT(30), <3>1, <2>1, <2>2, <2>3, <2>5
    <3>2. CASE k # seq
      BY SMTT(30), <3>2, <2>3, <1>10
    <3> QED
      BY SMTT(30), <3>1, <3>2
  <2>7. PrefixReleased' /\ ReleasedFaithful'
    BY <2>1, <2>3, <2>4, <1>0 DEF IndInv, PrefixReleased, ReleasedFaithful
  <2>8. OrderedDelivery'
    BY <2>1, <2>4 DEF IndInv, OrderedDelivery
  <2>9. /\ DOMAIN rx'.g_buf \subseteq Seqs
        /\ rx'.g_buf \in [DOMAIN rx'.g_buf -> Messages \cup {NoPayload}]
    <3>1. DOMAIN rx'.g_buf \subseteq Seqs
      BY SMTT(30), <2>3, <1>0, <1>1
    <3>2. \A k \in DOMAIN rx'.g_buf :
            rx'.g_buf[k] \in Messages \cup {NoPayload}
      BY <2>3, <1>0, <1>1
    <3>3. rx'.g_buf = [k \in DOMAIN rx'.g_buf |-> rx'.g_buf[k]]
      BY <2>3
    <3> QED
      BY SMTT(30), <3>1, <3>2, <3>3
  <2>10. rx.g_next <= rx'.g_next
    BY <2>3, <1>4
  <2> QED
    BY SMTT(30), <2>1, <2>3, <2>4, <2>6, <2>7, <2>8, <2>9, <2>10, <1>1
      DEF ReceiverStep
\* releasing a guaranteed message and draining what it unblocks
<1>12. ASSUME Guaranteed(opt), NEW r1,
              r1 \in [g_next : Seqs, g_buf : {r1.g_buf}, be_last : Seqs,
                      be_seen : BOOLEAN, ack_due : BOOLEAN],
              rx' = Drain(r1), log' = log \o (<<id>> \o Run(r1)),
              r1.g_next \in rx.g_next .. tx.next_gseq,
              DOMAIN r1.g_buf \subseteq r1.g_next .. (tx.next_gseq - 1),
              \A k \in DOMAIN r1.g_buf :
                /\ r1.g_buf[k] # NoPayload =>
                     r1.g_buf[k] \in OrderedSent /\ sent[r1.g_buf[k]].seq = k
                /\ r1.g_buf[k] = NoPayload =>
                     \A jd \in GuaranteedSent :
                       sent[jd].seq = k => jd \in Released \cup {id},
              \A jd \in GuaranteedSent :
                sent[jd].seq < r1.g_next => jd \in Released \cup {id},
              id \in OrderedSent =>
                sent[id].seq = rx.g_next /\ r1.g_next = rx.g_next + 1
       PROVE  ReceiverStep
  <2>1. id \in GuaranteedSent /\ UNCHANGED <<tx, sent>>
    BY SMTT(30), <1>0, <1>2, <1>12
  <2>2. {"g_next", "g_buf"} \subseteq DOMAIN r1
    BY <1>12
  <2>3. rx'.g_next = Drain(r1).g_next /\ rx'.g_buf = Drain(r1).g_buf
    BY SMTT(30), <1>12
  <2>4. /\ BufferFaithful' /\ PrefixReleased' /\ ReleasedFaithful'
        /\ OrderedDelivery' /\ Released \subseteq Released'
        /\ rx.g_next <= rx'.g_next /\ rx'.g_next \in Seqs
        /\ log' \in Seq(Messages \cup {NoPayload})
        /\ DOMAIN rx'.g_buf \subseteq Seqs
        /\ rx'.g_buf \in [DOMAIN rx'.g_buf -> Messages \cup {NoPayload}]
    BY <2>1, <2>2, <2>3, <1>12, ReleaseAndDrain
  <2>5. \E g, b : rx' = [r1 EXCEPT !.g_next = g, !.g_buf = b]
    BY <1>12 DEF Drain
  <2>6. rx' \in [g_next : Seqs, g_buf : {rx'.g_buf}, be_last : Seqs,
                 be_seen : BOOLEAN, ack_due : BOOLEAN]
    BY <2>4, <2>5, <1>12
  <2> QED
    BY <2>4, <2>6 DEF ReceiverStep
<1>13. \A jd \in GuaranteedSent :
         /\ sent[jd].seq \in Nat
         /\ sent[jd].seq < rx.g_next => jd \in Released
         /\ sent[jd].seq = seq /\ Guaranteed(opt) => jd = id
  <2> SUFFICES ASSUME NEW jd \in GuaranteedSent
               PROVE  /\ sent[jd].seq \in Nat
                      /\ sent[jd].seq < rx.g_next => jd \in Released
                      /\ sent[jd].seq = seq /\ Guaranteed(opt) => jd = id
    OBVIOUS
  <2>1. sent[jd].seq \in Nat /\ (sent[jd].seq < rx.g_next => jd \in Released)
    BY DEF IndInv, SentNumbered, PrefixReleased
  <2>2. Guaranteed(opt) => id \in GuaranteedSent /\ sent[id].seq = seq
    BY SMTT(30), <1>0, <1>2
  <2>3. Guaranteed(opt) /\ sent[jd].seq = seq => jd = id
    BY SMTT(30), <2>2, NumberOrder
  <2> QED
    BY <2>1, <2>3
<1>14. ASSUME Guaranteed(opt), IsSequential(opt), seq = rx.g_next,
              NEW r1, r1 = [ArmAck(rx, opt) EXCEPT !.g_next = WrapAdd(@, 1)],
              rx' = Drain(r1), log' = log \o (<<id>> \o Run(r1))
       PROVE  ReceiverStep
  <2>1. rx.g_next \in 1 .. (tx.next_gseq - 1)
    BY <1>3, <1>14
  <2>2. WrapAdd(rx.g_next, 1) = rx.g_next + 1 /\ rx.g_next + 1 \in Seqs
    BY ONLY <1>4, NoWrapAssumption, BoundsAssumption, SeqSpaceAssumption
       DEF WrapAdd, Seqs
  <2>3. r1 = [ArmAck(rx, opt) EXCEPT !.g_next = rx.g_next + 1]
    BY <2>2, <1>8, <1>14
  <2>4. /\ r1 \in [g_next : Seqs, g_buf : {r1.g_buf}, be_last : Seqs,
                   be_seen : BOOLEAN, ack_due : BOOLEAN]
        /\ r1.g_next = rx.g_next + 1 /\ r1.g_buf = rx.g_buf
    BY <2>2, <2>3, <1>8
  <2>5. r1.g_next \in rx.g_next .. tx.next_gseq
    BY ONLY <2>1, <2>4, <1>4, BoundsAssumption
  <2>6. DOMAIN r1.g_buf \subseteq r1.g_next .. (tx.next_gseq - 1)
    BY <2>4, <1>10
  <2>7. \A k \in DOMAIN r1.g_buf :
          /\ r1.g_buf[k] # NoPayload =>
               r1.g_buf[k] \in OrderedSent /\ sent[r1.g_buf[k]].seq = k
          /\ r1.g_buf[k] = NoPayload =>
               \A jd \in GuaranteedSent :
                 sent[jd].seq = k => jd \in Released \cup {id}
    BY <2>4, <1>10
  <2>8. \A jd \in GuaranteedSent :
          sent[jd].seq < r1.g_next => jd \in Released \cup {id}
    <3> SUFFICES ASSUME NEW jd \in GuaranteedSent, sent[jd].seq < r1.g_next
                 PROVE  jd \in Released \cup {id}
      OBVIOUS
    <3>1. rx.g_next \in Nat
      BY ONLY <1>4, BoundsAssumption
    <3>2. sent[jd].seq \in Nat
      BY ONLY <1>13, jd \in GuaranteedSent
    <3>3. sent[jd].seq < rx.g_next \/ sent[jd].seq = seq
      BY SMTT(30), <3>1, <3>2, <2>4, <1>14
    <3>4. sent[jd].seq < rx.g_next => jd \in Released
      BY ONLY <1>13, jd \in GuaranteedSent
    <3>5. sent[jd].seq = seq => jd = id
      BY ONLY <1>13, <1>14, jd \in GuaranteedSent
    <3> QED
      BY SMTT(30), <3>3, <3>4, <3>5
  <2>9. id \in OrderedSent =>
          sent[id].seq = rx.g_next /\ r1.g_next = rx.g_next + 1
    BY <2>4, <1>0, <1>14
  <2>10. Guaranteed(opt) /\ rx' = Drain(r1) /\ log' = log \o (<<id>> \o Run(r1))
    BY SMTT(30), <1>14
  <2> QED
    BY ONLY SMTT(30), <2>4, <2>5, <2>6, <2>7, <2>8, <2>9, <2>10, <1>12
<1>15. ASSUME Guaranteed(opt), ~ IsSequential(opt),
              ~ IsDuplicate(ArmAck(rx, opt), seq),
              NEW r1, r1 = Buffer(ArmAck(rx, opt), seq, NoPayload),
              rx' = Drain(r1), log' = log \o (<<id>> \o Run(r1))
       PROVE  ReceiverStep
  <2>1. /\ r1 \in [g_next : Seqs, g_buf : {r1.g_buf}, be_last : Seqs,
                   be_seen : BOOLEAN, ack_due : BOOLEAN]
        /\ r1.g_next = rx.g_next
        /\ DOMAIN r1.g_buf \subseteq DOMAIN rx.g_buf \cup {seq}
        /\ \A k \in DOMAIN r1.g_buf :
             r1.g_buf[k] = IF k = seq THEN NoPayload ELSE rx.g_buf[k]
    <3> DEFINE r == ArmAck(rx, opt)
    <3>1. /\ r.g_buf = rx.g_buf /\ r.g_next = rx.g_next
          /\ r \in [g_next : Seqs, g_buf : {r.g_buf}, be_last : Seqs,
                    be_seen : BOOLEAN, ack_due : BOOLEAN]
      BY <1>8
    <3>2. r1 = Buffer(r, seq, NoPayload)
      BY SMTT(30), <1>15
    <3> HIDE DEF r
    <3>3. LET b == Buffer(r, seq, NoPayload)
          IN  /\ b \in [g_next : Seqs, g_buf : {b.g_buf}, be_last : Seqs,
                        be_seen : BOOLEAN, ack_due : BOOLEAN]
              /\ b.g_next = rx.g_next
              /\ DOMAIN b.g_buf \subseteq DOMAIN rx.g_buf \cup {seq}
              /\ b.g_buf = [k \in DOMAIN b.g_buf |->
                              IF k = seq THEN NoPayload ELSE rx.g_buf[k]]
              /\ \A k \in DOMAIN b.g_buf :
                   b.g_buf[k] = IF k = seq THEN NoPayload ELSE rx.g_buf[k]
      BY <1>7, <3>1
    <3> QED
      BY <3>2, <3>3
  <2>2. seq \in rx.g_next .. (tx.next_gseq - 1)
    <3>1. seq >= rx.g_next /\ seq \in 1 .. (tx.next_gseq - 1)
      BY <1>3, <1>9, <1>15
    <3> QED
      BY ONLY SMTT(30), <3>1, <1>4, BoundsAssumption
  <2>3. DOMAIN r1.g_buf \subseteq r1.g_next .. (tx.next_gseq - 1)
    <3> SUFFICES ASSUME NEW k \in DOMAIN r1.g_buf
                 PROVE  k \in rx.g_next .. (tx.next_gseq - 1)
      BY <2>1
    <3>1. CASE k = seq
      BY <3>1, <2>2
    <3>2. CASE k \in (rx.g_next + 1) .. (tx.next_gseq - 1)
      BY ONLY SMTT(30), <3>2, <1>4, BoundsAssumption
    <3> QED
      BY <3>1, <3>2, <2>1, <1>10
  <2>4. \A k \in DOMAIN r1.g_buf :
          /\ r1.g_buf[k] # NoPayload =>
               r1.g_buf[k] \in OrderedSent /\ sent[r1.g_buf[k]].seq = k
          /\ r1.g_buf[k] = NoPayload =>
               \A jd \in GuaranteedSent :
                 sent[jd].seq = k => jd \in Released \cup {id}
    <3> SUFFICES ASSUME NEW k \in DOMAIN r1.g_buf
                 PROVE  /\ r1.g_buf[k] # NoPayload =>
                             /\ r1.g_buf[k] \in OrderedSent
                             /\ sent[r1.g_buf[k]].seq = k
                        /\ r1.g_buf[k] = NoPayload =>
                             \A jd \in GuaranteedSent :
                               sent[jd].seq = k => jd \in Released \cup {id}
      OBVIOUS
    <3>1. CASE k = seq
      <4>1. r1.g_buf[k] = NoPayload
        BY SMTT(30), <3>1, <2>1
      <4>2. \A jd \in GuaranteedSent : sent[jd].seq = k => jd = id
        BY ONLY SMTT(30), <3>1, <1>13, <1>15
      <4> QED
        BY <4>1, <4>2
    <3>2. CASE k # seq
      BY <3>2, <2>1, <1>10
    <3> QED
      BY SMTT(30), <3>1, <3>2
  <2>5. r1.g_next \in rx.g_next .. tx.next_gseq
    BY <2>1, <1>4
  <2>6. \A jd \in GuaranteedSent :
          sent[jd].seq < r1.g_next => jd \in Released \cup {id}
    <3>1. \A jd \in GuaranteedSent :
            sent[jd].seq < rx.g_next => jd \in Released
      BY ONLY SMTT(30), <1>13
    <3> QED
      BY <2>1, <3>1
  <2>7. id \in OrderedSent =>
          sent[id].seq = rx.g_next /\ r1.g_next = rx.g_next + 1
    BY <1>2, <1>15
  <2>8. Guaranteed(opt) /\ rx' = Drain(r1) /\ log' = log \o (<<id>> \o Run(r1))
    BY SMTT(30), <1>15
  <2> QED
    BY ONLY SMTT(30), <2>1, <2>3, <2>4, <2>5, <2>6, <2>7, <2>8, <1>12
<1>16. rx' = OnMessage(rx, seq, opt, id).rx
       /\ log' = log \o OnMessage(rx, seq, opt, id).out
  BY DEF Deliver
<1>17. CASE ~ Guaranteed(opt)
  <2>1. id \notin GuaranteedSent
    BY <1>2, <1>17
  <2>2. \/ rx' = rx /\ (log' = log \o <<id>> \/ log' = log \o << >>)
        \/ /\ rx' = [rx EXCEPT !.be_seen = TRUE, !.be_last = seq]
           /\ log' = log \o <<id>>
    BY <1>16, <1>17 DEF OnMessage, OnBestEffort, Outcome
  <2>3. rx' \in R /\ rx'.g_next = rx.g_next /\ rx'.g_buf = rx.g_buf
    BY <2>2, <1>0, <1>1
  <2> QED
    BY <2>1, <2>2, <2>3, <1>5, <1>6
<1>18. CASE Guaranteed(opt)
  <2> DEFINE r == ArmAck(rx, opt)
  <2>1. /\ rx' = OnGuaranteed(r, seq, opt, id).rx
        /\ log' = log \o OnGuaranteed(r, seq, opt, id).out
    BY <1>3, <1>16, <1>18 DEF OnMessage
  <2>2. CASE IsDuplicate(r, seq)
    <3>1. rx' = r /\ log' = log \o << >>
      BY <2>1, <2>2 DEF OnGuaranteed, Outcome
    <3>2. rx' \in R /\ rx'.g_next = rx.g_next /\ rx'.g_buf = rx.g_buf
      BY <3>1, <1>8
    <3> QED
      BY <3>1, <3>2, <1>5
  <2>3. CASE ~ IsDuplicate(r, seq) /\ IsSequential(opt) /\ seq = rx.g_next
    <3>1. seq = r.g_next
      BY <2>3, <1>8
    <3>2. LET r1 == [r EXCEPT !.g_next = WrapAdd(@, 1)]
          IN  rx' = Drain(r1) /\ log' = log \o (<<id>> \o Run(r1))
      BY <2>1, <2>3, <3>1 DEF OnGuaranteed, Outcome
    <3> QED
      BY <3>2, <2>3, <1>14, <1>18
  <2>4. CASE ~ IsDuplicate(r, seq) /\ IsSequential(opt) /\ seq # rx.g_next
    <3>1. seq # r.g_next
      BY <2>4, <1>8
    <3>2. rx' = Buffer(r, seq, id) /\ log' = log \o << >>
      BY <2>1, <2>4, <3>1 DEF OnGuaranteed, Outcome
    <3> QED
      BY <3>2, <2>4, <1>11, <1>18
  <2>5. CASE ~ IsDuplicate(r, seq) /\ ~ IsSequential(opt)
    <3>1. LET r1 == Buffer(r, seq, NoPayload)
          IN  rx' = Drain(r1) /\ log' = log \o (<<id>> \o Run(r1))
      BY <2>1, <2>5 DEF OnGuaranteed, Outcome
    <3> QED
      BY <3>1, <2>5, <1>15, <1>18
  <2> QED
    BY <2>2, <2>3, <2>4, <2>5
<1> QED
  BY SMTT(30), <1>17, <1>18

(***************************************************************************)
(* Every step of the link preserves the inductive invariant: one case per  *)
(* action.                                                                 *)
(***************************************************************************)
LEMMA NextIndInv == IndInv /\ [Next]_vars => IndInv'
<1> DEFINE U == [loss : Nat, ackLoss : Nat, dup : Nat, return : Nat]
<1> SUFFICES ASSUME IndInv, [Next]_vars
             PROVE  IndInv'
  OBVIOUS
<1>1. used \in U
  BY DEF IndInv, TypeOK
<1>2. ASSUME NEW options \in Options, SendMessage(options)
      PROVE  IndInv'
  BY <1>2, SendMessageIndInv
<1>3. ASSUME NEW expired, Retransmit(expired)
      PROVE  IndInv'
  BY <1>3, RetransmitIndInv
<1>4. ASSUME NEW m, Receive(m) \/ ReceiveAndDuplicate(m)
      PROVE  IndInv'
  <2>1. Deliver(m) /\ net' \subseteq net
    BY <1>4 DEF Receive, ReceiveAndDuplicate
  <2>2. used' = used \/ used' = [used EXCEPT !.dup = @ + 1]
    BY <1>4 DEF Receive, ReceiveAndDuplicate
  <2>3. used' \in U
    BY <2>2, <1>1
  <2> QED
    BY <2>1, <2>3, DeliverReceiverStep, ReceiverStepIndInv
<1>5. ASSUME NEW m, Lose(m)
      PROVE  IndInv'
  BY <1>5, LoseIndInv
<1>6. ASSUME ForcedAck \/ PiggybackAck
      PROVE  IndInv'
  <2>1. ReportAck
    BY <1>6 DEF ForcedAck, PiggybackAck
  <2>2. used' = used \/ used' = [used EXCEPT !.return = @ + 1]
    BY <1>6 DEF ForcedAck, PiggybackAck
  <2>3. used' \in U
    BY <2>2, <1>1
  <2> QED
    BY <2>1, <2>3, ReportAckIndInv
<1>7. ASSUME NEW a \in Seqs, ReceiveAck(a) \/ LoseAck(a)
      PROVE  IndInv'
  <2>1. TakeAck(a) /\ (tx' = tx \/ tx' = OnAck(tx, a))
    BY <1>7 DEF ReceiveAck, LoseAck
  <2>2. used' = used \/ used' = [used EXCEPT !.ackLoss = @ + 1]
    BY <1>7 DEF ReceiveAck, LoseAck
  <2>3. used' \in U
    BY <2>2, <1>1
  <2> QED
    BY <2>1, <2>3, TakeAckIndInv
<1>8. CASE UNCHANGED vars
  <2>1. UNCHANGED <<tx, rx, net, acks, sent, log, evicted, forgotten, used>>
    BY <1>8 DEF vars
  <2>2. /\ SentNumbered' /\ BufferFaithful' /\ PrefixReleased'
        /\ ReleasedFaithful' /\ OrderedDelivery'
        /\ GuaranteedSent' = GuaranteedSent /\ Released' = Released
    BY <2>1, FrameIndInv
  <2>3. TypeOK'
    BY SMTT(30), <2>1 DEF IndInv, TypeOK
  <2>4. WireFaithful' /\ PendingFaithful' /\ AcksSound'
    BY SMTT(30), <2>1, <2>2
      DEF IndInv, WireFaithful, PendingFaithful, AcksSound
  <2>5. NoSilentLoss'
    BY <2>1, <2>2 DEF IndInv, NoSilentLoss, InPending
  <2> QED
    BY <2>2, <2>3, <2>4, <2>5 DEF IndInv
<1> QED
  BY <1>2, <1>3, <1>4, <1>5, <1>6, <1>7, <1>8 DEF Next

(***************************************************************************)
(* IndInv is an invariant of the link.                                     *)
(***************************************************************************)
THEOREM IndInvariant == Spec => []IndInv
BY InitIndInv, NextIndInv, PTL DEF Spec

(***************************************************************************)
(* Type correctness of the sender and receiver state: sequence numbers     *)
(* stay in their space, retry counts never pass MAX_RETRIES, for every     *)
(* value of the caps and of the network's faults.                          *)
(***************************************************************************)
THEOREM TypeCorrect == Spec => []TypeOK
<1>1. IndInv => TypeOK
  BY DEF IndInv
<1> QED
  BY <1>1, IndInvariant, PTL

(***************************************************************************)
(* However datagrams are lost, duplicated, reordered or retransmitted, and *)
(* whatever the caps evict, on_message() releases guaranteed sequential    *)
(* messages in send order, once, and never ahead of an earlier guaranteed  *)
(* message.                                                                *)
(***************************************************************************)
THEOREM OrderedDeliveryHolds == Spec => []OrderedDelivery
<1>1. IndInv => OrderedDelivery
  BY DEF IndInv
<1> QED
  BY <1>1, IndInvariant, PTL

(***************************************************************************)
(* on_ack() never drops a guaranteed message the peer has not released, no *)
(* matter how late, duplicated or reordered the cumulative acks arrive.    *)
(***************************************************************************)
THEOREM NoSilentLossHolds == Spec => []NoSilentLoss
<1>1. IndInv => NoSilentLoss
  BY DEF IndInv
<1> QED
  BY <1>1, IndInvariant, PTL
=============================================================================
