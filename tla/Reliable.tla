------------------------------ MODULE Reliable ------------------------------
(***************************************************************************)
(* The pure delivery logic of party-shim/src/reliable.rs: one Sender (the  *)
(* local end of a pairing) and one Receiver (the remote end), as operators *)
(* on records.  ReliableLink joins the two over a datagram network.        *)
(*                                                                         *)
(* Clocks are abstracted: `last_sent_ms`, `rto_ms` and `ack_due_at` only   *)
(* decide WHEN due() and forced_ack() act, and the modules that use these  *)
(* operators let both act at any time.  A payload is a message number, and *)
(* NoPayload is the empty vector that marks an already delivered entry.    *)
(*                                                                         *)
(* A definition a comment introduces in parentheses, standing before the   *)
(* one it is named after, is a faulty variant: substituted for the real    *)
(* one it breaks a property some run checks.                               *)
(***************************************************************************)
EXTENDS Integers, Sequences, FiniteSets, FiniteSetsExt

CONSTANTS
  SeqMod,      \* size of the wrapping sequence space (2^32 in the code)
  MaxRetries,  \* MAX_RETRIES
  PendingCap,  \* PENDING_CAP
  OooCap       \* OOO_CAP

ASSUME SeqSpaceAssumption == SeqMod \in Nat /\ SeqMod > 2
ASSUME LimitsAssumption ==
  /\ MaxRetries \in Nat
  /\ PendingCap \in Nat \ {0}
  /\ OooCap \in Nat \ {0}

NoPayload == 0

Seqs == 0 .. (SeqMod - 1)

(***************************************************************************)
(* The send-option bits, and the wrapping u32 arithmetic.                  *)
(***************************************************************************)
Flags == {"guaranteed", "sequential", "lazy"}

Guaranteed(options) == "guaranteed" \in options
IsSequential(options) == "sequential" \in options
AllowLazyAck(options) == "lazy" \in options

\* wrapping_add(n) and wrapping_sub of two members of the sequence space
WrapAdd(a, n) == IF a + n >= SeqMod THEN a + n - SeqMod ELSE a + n
WrapSub(a, b) == IF a >= b THEN a - b ELSE a - b + SeqMod

\* `(a - b) as i32 > 0`: the upper half of the space is negative
seq_after(a, b) == WrapSub(a, b) > 0 /\ 2 * WrapSub(a, b) < SeqMod
seq_le(a, b) == ~ seq_after(a, b)

(***************************************************************************)
(* Ordered maps (BTreeMap) keyed by sequence number.                       *)
(***************************************************************************)
EmptyMap == [k \in {} |-> NoPayload]
Put(map, key, value) ==
  [k \in DOMAIN map \cup {key} |-> IF k = key THEN value ELSE map[k]]
Without(map, keys) == Restrict(map, DOMAIN map \ keys)

(***************************************************************************)
(* Sender                                                                  *)
(***************************************************************************)
SenderNew == [next_gseq |-> 1, next_bseq |-> 1, pending |-> EmptyMap]

\* The sequence number send() gives a message: 0 when the mode needs none.
SendSeq(s, options) ==
  IF Guaranteed(options) THEN s.next_gseq
  ELSE IF IsSequential(options) THEN s.next_bseq
  ELSE 0

\* Keys send() evicts to stay under the cap: the first key of the map.
PendingEvicted(s, options) ==
  IF Guaranteed(options) /\ Cardinality(DOMAIN s.pending) >= PendingCap
    THEN {Min(DOMAIN s.pending)}
    ELSE {}

NewPending(payload, options) ==
  [payload |-> payload, options |-> options, retries |-> 0, gave_up |-> FALSE]

Send(s, payload, options) ==
  IF Guaranteed(options)
    THEN [s EXCEPT !.next_gseq = WrapAdd(@, 1),
                   !.pending = Put(Without(@, PendingEvicted(s, options)),
                                   s.next_gseq, NewPending(payload, options))]
  ELSE IF IsSequential(options)
    THEN [s EXCEPT !.next_bseq = WrapAdd(@, 1)]
  ELSE s

\* on_ack() pops the first key of the map while that key is covered, so it
\* stops at the first key, in map order, that is not.
\* (ClearedOneMore and ClearedOneLess are off by one on either side.)
ClearedOneMore(s, ack) ==
  {k \in DOMAIN s.pending : seq_le(k, WrapAdd(ack, 1))}
ClearedOneLess(s, ack) == {k \in DOMAIN s.pending : seq_after(ack, k)}
Cleared(s, ack) ==
  {k \in DOMAIN s.pending :
     \A j \in DOMAIN s.pending : j <= k => seq_le(j, ack)}
OnAck(s, ack) == [s EXCEPT !.pending = Without(@, Cleared(s, ack))]

\* due(): of the messages whose timer expired, those with retries left are
\* retransmitted and the others are given up, staying in the map.
Awaiting(s) == {k \in DOMAIN s.pending : ~ s.pending[k].gave_up}
\* (ResentOneMore and ResentOneLess misread the retry budget.)
ResentOneMore(s, expired) ==
  {k \in expired : s.pending[k].retries <= MaxRetries}
ResentOneLess(s, expired) ==
  {k \in expired : s.pending[k].retries + 1 < MaxRetries}
Resent(s, expired) == {k \in expired : s.pending[k].retries < MaxRetries}
Due(s, expired) ==
  [s EXCEPT !.pending =
     [k \in DOMAIN s.pending |->
        IF k \notin expired THEN s.pending[k]
        ELSE IF k \in Resent(s, expired)
          THEN [s.pending[k] EXCEPT !.retries = @ + 1]
        ELSE [s.pending[k] EXCEPT !.gave_up = TRUE]]]

(***************************************************************************)
(* Receiver                                                                *)
(***************************************************************************)
ReceiverNew ==
  [g_next |-> 1, g_buf |-> EmptyMap, be_last |-> 0, be_seen |-> FALSE,
   ack_due |-> FALSE]

\* The cumulative ack: the last number of the contiguous prefix.
ack_value(r) == WrapSub(r.g_next, 1)

\* A number already in the prefix or in the buffer.
IsDuplicate(r, seq) ==
  seq_le(seq, ack_value(r)) \/ seq \in DOMAIN r.g_buf

\* Every guaranteed arrival, duplicates included, arms the forced-ack timer
\* unless its sender opted out.
ArmAck(r, options) == [r EXCEPT !.ack_due = @ \/ ~ AllowLazyAck(options)]

\* At the cap the last key of the map makes room for the arrival.
\* (BufEvictedLate lets the buffer grow past the cap first.)
BufEvictedLate(r) ==
  IF Cardinality(DOMAIN r.g_buf) > OooCap THEN {Max(DOMAIN r.g_buf)} ELSE {}
BufEvicted(r) ==
  IF Cardinality(DOMAIN r.g_buf) >= OooCap THEN {Max(DOMAIN r.g_buf)} ELSE {}
Buffer(r, seq, payload) ==
  [r EXCEPT !.g_buf = Put(Without(@, BufEvicted(r)), seq, payload)]

\* The drain loop: g_next walks over the contiguous run of buffered keys,
\* removing each.  RunLength is the number of times the loop body runs.
\* (RunLengthZero forgets the loop, DrainKeeps the removal.)
RunLengthZero(r) == 0
RunLength(r) ==
  CHOOSE n \in 0 .. SeqMod :
    /\ WrapAdd(r.g_next, n) \notin DOMAIN r.g_buf
    /\ \A i \in 0 .. (n - 1) : WrapAdd(r.g_next, i) \in DOMAIN r.g_buf
Run(r) ==
  [i \in 1 .. RunLength(r) |-> r.g_buf[WrapAdd(r.g_next, i - 1)]]
DrainKeeps(r) == [r EXCEPT !.g_next = WrapAdd(@, RunLength(r))]
Drain(r) ==
  [r EXCEPT !.g_next = WrapAdd(@, RunLength(r)),
            !.g_buf = Without(@, {WrapAdd(r.g_next, i - 1) :
                                    i \in 1 .. RunLength(r)})]

(***************************************************************************)
(* on_message(): the receiver afterwards and the slots handed to the game  *)
(* in order.  A NoPayload slot is one the drain loop walked over without   *)
(* pushing anything: the entry had been delivered when it arrived.         *)
(***************************************************************************)
Outcome(r, slots) == [rx |-> r, out |-> slots]

\* (OnGuaranteedSkip takes any new sequential arrival for the next one;
\* OnGuaranteedBare leaves no marker for a nonsequential arrival beyond the
\* prefix.)
OnGuaranteedSkip(r, seq, options, payload) ==
  IF IsDuplicate(r, seq) THEN Outcome(r, << >>)
  ELSE LET r1 == IF IsSequential(options)
                   THEN [r EXCEPT !.g_next = WrapAdd(seq, 1)]
                   ELSE Buffer(r, seq, NoPayload)
       IN  Outcome(Drain(r1), <<payload>> \o Run(r1))
OnGuaranteedBare(r, seq, options, payload) ==
  IF IsDuplicate(r, seq) THEN Outcome(r, << >>)
  ELSE IF seq = r.g_next
    THEN LET r1 == [r EXCEPT !.g_next = WrapAdd(@, 1)]
         IN  Outcome(Drain(r1), <<payload>> \o Run(r1))
  ELSE IF IsSequential(options)
    THEN Outcome(Buffer(r, seq, payload), << >>)
  ELSE Outcome(r, <<payload>>)
OnGuaranteed(r, seq, options, payload) ==
  IF IsDuplicate(r, seq) THEN Outcome(r, << >>)
  ELSE IF IsSequential(options)
    THEN IF seq = r.g_next
           THEN LET r1 == [r EXCEPT !.g_next = WrapAdd(@, 1)]
                IN  Outcome(Drain(r1), <<payload>> \o Run(r1))
           ELSE Outcome(Buffer(r, seq, payload), << >>)
  ELSE LET r1 == Buffer(r, seq, NoPayload)
       IN  Outcome(Drain(r1), <<payload>> \o Run(r1))

\* (OnBestEffortRepeat only rejects a repeat of the last number.)
OnBestEffortRepeat(r, seq, options, payload) ==
  IF IsSequential(options) /\ r.be_seen /\ seq = r.be_last
    THEN Outcome(r, << >>)
    ELSE Outcome([r EXCEPT !.be_seen = TRUE, !.be_last = seq], <<payload>>)
OnBestEffort(r, seq, options, payload) ==
  IF ~ IsSequential(options) THEN Outcome(r, <<payload>>)
  ELSE IF r.be_seen /\ ~ seq_after(seq, r.be_last) THEN Outcome(r, << >>)
  ELSE Outcome([r EXCEPT !.be_seen = TRUE, !.be_last = seq], <<payload>>)

\* (OnMessageArmsOnce does not re-arm the ack for a duplicate.)
OnMessageArmsOnce(r, seq, options, payload) ==
  IF seq = 0 THEN Outcome(r, <<payload>>)
  ELSE IF Guaranteed(options)
    THEN OnGuaranteed(IF IsDuplicate(r, seq) THEN r ELSE ArmAck(r, options),
                      seq, options, payload)
  ELSE OnBestEffort(r, seq, options, payload)
OnMessage(r, seq, options, payload) ==
  IF seq = 0 THEN Outcome(r, <<payload>>)
  ELSE IF Guaranteed(options)
    THEN OnGuaranteed(ArmAck(r, options), seq, options, payload)
  ELSE OnBestEffort(r, seq, options, payload)

\* piggyback_ack() and forced_ack() both disarm the timer and report the
\* cumulative ack.
AckSent(r) == [r EXCEPT !.ack_due = FALSE]
=============================================================================
