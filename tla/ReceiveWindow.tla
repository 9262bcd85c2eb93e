--------------------------- MODULE ReceiveWindow ---------------------------
(***************************************************************************)
(* The sliding window both ends of a session use (shared/protocol/         *)
(* window.py).  A window is a record: base, the highest contiguous         *)
(* sequence number received; bits, the offsets set in the bitmap; buffer,  *)
(* the sequence numbers held out of order.  An envelope is named by its    *)
(* sequence number, which the sender of one session epoch uses once.       *)
(***************************************************************************)
EXTENDS Integers, Sequences

CONSTANT Size   \* session_window_size, a PositiveInt in the settings of both ends

ASSUME SizeAssumption == Size \in Nat \ {0}

EmptyWindow == [base |-> 0, bits |-> {}, buffer |-> {}]

WindowType == [base : Nat, bits : SUBSET (0..(Size - 1)), buffer : SUBSET (Nat \ {0})]

\* Mutant of Accepts: the window is one frame too wide.
AcceptsOneMore(w, s) == s > w.base /\ s - w.base - 1 <= Size /\ s \notin w.buffer
\* record() drops stale, out of window and duplicate frames.
Accepts(w, s) == s > w.base /\ s - w.base - 1 < Size /\ s \notin w.buffer

Filled(w, s) == [base |-> w.base, bits |-> w.bits \cup {s - w.base - 1},
                 buffer |-> w.buffer \cup {s}]

\* The turns after which the loop of record() may stop: the lowest bit is clear
\* or the next envelope is missing.
StopsAt(w) == {n \in 0..Size : ~(n \in w.bits /\ w.base + 1 + n \in w.buffer)}

ReadyCount(w) == CHOOSE n \in StopsAt(w) : \A m \in StopsAt(w) : n <= m

\* Mutants of Slide: the bitmap is not shifted with the base; the base stays.
SlideBaseOnly(w, n) ==
  [base |-> w.base + n, bits |-> w.bits, buffer |-> w.buffer \ ((w.base + 1)..(w.base + n))]
SlideBitsOnly(w, n) ==
  [base |-> w.base, bits |-> {o - n : o \in {p \in w.bits : p >= n}},
   buffer |-> w.buffer \ ((w.base + 1)..(w.base + n))]

Slide(w, n) ==
  [base   |-> w.base + n,
   bits   |-> {o - n : o \in {p \in w.bits : p >= n}},
   buffer |-> w.buffer \ ((w.base + 1)..(w.base + n))]

\* The window after record(s), and the envelopes it hands up, in order.
Record(w, s) == IF Accepts(w, s) THEN Slide(Filled(w, s), ReadyCount(Filled(w, s))) ELSE w

\* Mutant of Ready: the envelope is handed up as it comes.
ReadyAtOnce(w, s) == IF Accepts(w, s) THEN <<s>> ELSE <<>>

Ready(w, s) == IF Accepts(w, s) THEN [i \in 1..ReadyCount(Filled(w, s)) |-> w.base + i]
                                ELSE <<>>

\* Mutant of IsSeqAcked: the bit of the base itself is taken for the first offset.
IsSeqAckedOffByOne(s, base, bits) == s <= base \/ (s - base <= Size /\ s - base \in bits)

\* is_seq_acked for the ack_seq, ack_bitmap and recv_window of an ack.
IsSeqAcked(s, base, bits) == s <= base \/ (s - base - 1 < Size /\ s - base - 1 \in bits)

\* What the receiver has got: handed up or waiting in the buffer.
Received(w) == (1..w.base) \cup w.buffer

\* The bitmap and the buffer say the same, nothing that is due waits in the
\* buffer, and nothing outside the window does.
WindowCoherent(w) ==
  /\ w.bits = {s - w.base - 1 : s \in w.buffer}
  /\ w.buffer \subseteq (w.base + 2)..(w.base + Size)
=============================================================================
