------------------------------ MODULE UvcDriver ------------------------------
(***************************************************************************)
(* What `usbtrace uvc' says of the frames of one camera once uvcvideo has  *)
(* them: received and dropped, with a cause (on_decode_isoc,               *)
(* on_queue_next, on_queue_complete); delivered to videobuf2, with gaps in *)
(* the sequence numbers (uvc_emit_vb2_done); and the counters of uvc.c.    *)
(*                                                                         *)
(* The driver is modelled from what its hooks rely on: a URB is decoded    *)
(* into the buffer at the head of irqqueue; the end of a frame takes that  *)
(* buffer off; the copying of its data ends later, in any order; stopping  *)
(* the stream gives the buffers of irqqueue back.                          *)
(***************************************************************************)
EXTENDS Integers, Sequences, FiniteSets, Functions

CONSTANTS
  Buffers,        \* struct uvc_buffer of the queue
  CAUSE_ENTRIES,  \* capacity of drv_drop_cause (64)
  MaxFrames,      \* bound: frames of a session
  MaxFaults,      \* bound: packets lost or faulty in a session
  MaxStreams      \* bound: how often the stream is started

ASSUME DriverAssumption ==
  /\ CAUSE_ENTRIES \in Nat \ {0} /\ MaxFrames \in Nat /\ MaxFaults \in Nat
  /\ MaxStreams \in Nat \ {0}

VARIABLES
  camera,          \* dropping = UVC_QUEUE_DROP_CORRUPTED, compressed = the format's
                   \* flag, on = streaming; frames, faults, streams so far
  irqqueue,        \* buffers the driver fills, head first
  copying,         \* buffers whose frame has ended, while its data is copied
  buf,             \* per buffer: its sequence, error, and short = bytesused # maxsize
  sequence,        \* stream->sequence: the frame on the wire
  drv_drop_cause,  \* the buffers tagged UVC_DROP_ISO
  last_sequence,   \* vb2_qstate: last_sequence, NoSeq until have_last_seq
  drvstats,        \* g_drvstats: frames received and dropped
  seq_gaps,        \* g_vbstats.seq_gaps, counted up to one
  blame,           \* history: per buffer, what happened to it, out of Blames
  seen,            \* history, of this stream, up to the first gap: first = the first
                   \* number done, accounted = frames delivered and cancelled numbers
  verdict          \* the drop event of the last step, if it sent one

driverVars == <<camera, irqqueue, copying, buf, sequence, drv_drop_cause, last_sequence,
                drvstats, seq_gaps, blame, seen, verdict>>

NoSeq == -1
Empty == [seq |-> 0, error |-> FALSE, short |-> FALSE]
NoVerdict == << >>

\* what a URB may bring: a packet with status < 0 ("loss"); a header error bit,
\* an overflow or a lost EOF ("other")
Faults == {"loss", "other"}
\* own: a packet of its frame was lost in a URB that began in the buffer;
\* inherited: in the URB that ended the frame before; spilled: the URB that ended
\* its frame lost one of the next; full: the map had no room for the tag; stale:
\* the buffer was cancelled while tagged
Blames == {"own", "inherited", "spilled", "other", "full", "stale"}
NothingSeen == [first |-> NoSeq, accounted |-> {}]

\* tally_drv and tally_vb2
TallyDrv(op) == drvstats' = [drvstats EXCEPT ![op] = @ + 1]
TallyVb2(gap) == seq_gaps' = IF gap THEN 1 ELSE seq_gaps

-----------------------------------------------------------------------------
(* drv_drop_cause. *)

\* uvc_drop_cause_add
CauseAdd(b) ==
  IF Cardinality(drv_drop_cause) < CAUSE_ENTRIES THEN drv_drop_cause \cup {b} ELSE drv_drop_cause

\* A variant: the tag is read and left in the map.
CauseLeft(b) == drv_drop_cause
\* what uvc_drop_cause_take leaves
CauseTaken(b) == drv_drop_cause \ {b}

\* on_decode_isoc: any lost packet of the URB tags the buffer it begins in
TagIfLost(b, faults) == drv_drop_cause' = IF "loss" \in faults THEN CauseAdd(b) ELSE drv_drop_cause

\* for the history: a loss comes under the name given, and may find the map full
Charged(faults, loss) == (faults \cap {"other"}) \cup (IF "loss" \in faults THEN {loss} ELSE {})
NoRoom(b, faults) == IF "loss" \in faults /\ b \notin CauseAdd(b) THEN {"full"} ELSE {}

-----------------------------------------------------------------------------
(* uvcvideo decodes a URB.  A fault makes the frame it fell into erroneous: *)
(* before the end of the frame (head) that is the buffer the URB began in,  *)
(* after it (tail) the next one.                                            *)

Streaming(faults) ==
  camera.on /\ camera.frames < MaxFrames /\ camera.faults + faults <= MaxFaults

FrameOver(faults) ==
  /\ sequence' = sequence + 1
  /\ camera' = [camera EXCEPT !.frames = @ + 1, !.faults = @ + faults]

DecodePart(faults) ==
  LET b == irqqueue[1]
  IN  /\ Streaming(Cardinality(faults)) /\ irqqueue # << >>
      /\ camera' = [camera EXCEPT !.faults = @ + Cardinality(faults)]
      /\ TagIfLost(b, faults)
      /\ buf' = [buf EXCEPT ![b].error = @ \/ faults # {}, ![b].seq = sequence]
      /\ blame' = [blame EXCEPT ![b] = @ \cup Charged(faults, "own") \cup NoRoom(b, faults)]
      /\ UNCHANGED <<irqqueue, copying, sequence, drvstats>>

\* The frame ends: uvc_video_validate_buffer, then on_queue_next at
\* uvc_queue_next_buffer.
DecodeEnd(head, tail, short) ==
  LET b      == irqqueue[1]
      faults == Cardinality(head) + Cardinality(tail)
      next   == {irqqueue[i] : i \in DOMAIN irqqueue \cap {2}}
      filled == [seq |-> sequence, error |-> buf[b].error \/ head # {} \/ (short /\ ~camera.compressed),
                 short |-> short]
  IN  /\ Streaming(faults) /\ irqqueue # << >>
      /\ camera.compressed => short   \* compressed data leave room in the buffer
      /\ TagIfLost(b, head \cup tail)
      /\ buf' = [q \in Buffers |-> IF q = b THEN filled
                                   ELSE [buf[q] EXCEPT !.error = @ \/ (tail # {} /\ q \in next)]]
      /\ blame' = [q \in Buffers |-> blame[q] \cup
                     IF q = b THEN Charged(head, "own") \cup Charged(tail \ {"other"}, "spilled")
                                     \cup NoRoom(b, head \cup tail)
                     ELSE IF q \in next THEN Charged(tail, "inherited") ELSE {}]
      /\ irqqueue' = Tail(irqqueue) /\ copying' = copying \cup {b}
      /\ FrameOver(faults)
      /\ TallyDrv("received")

\* A frame for which there was no buffer takes a number too.
FrameWithoutBuffer ==
  /\ Streaming(0) /\ irqqueue = << >>
  /\ FrameOver(0)
  /\ UNCHANGED <<irqqueue, copying, buf, drv_drop_cause, drvstats, blame>>

-----------------------------------------------------------------------------
(* A buffer goes back to videobuf2. *)

\* A variant: the loss of a single frame is not seen.
SeqGapOfTwo(last, cur) == cur # last /\ cur # last + 1 /\ cur # last + 2
\* vb2_seq_gap; numbers do not reach 2^32
SeqGap(last, cur) == cur # last /\ cur # last + 1

\* uvc_emit_vb2_done.  A buffer of an odd size is not looked
\* at; a second tracepoint for the same buffer repeats the number.
VbDone(b, ignored) ==
  LET seq == buf[b].seq
      gap == ~ignored /\ last_sequence # NoSeq /\ SeqGap(last_sequence, seq)
  IN  /\ last_sequence' = IF ignored THEN last_sequence ELSE seq
      /\ TallyVb2(gap)
      /\ seen' = IF seq_gaps' > 0 THEN NothingSeen
                 ELSE [first |-> IF seen.first = NoSeq /\ ~ignored THEN seq ELSE seen.first,
                       accounted |-> seen.accounted \cup {seq}]

Reason(b) ==
  LET known == (IF b \in drv_drop_cause THEN {"drop_iso"} ELSE {})
                 \cup (IF buf[b].short /\ ~camera.compressed THEN {"drop_short"} ELSE {})
  IN  IF known = {} THEN {"drop_other"} ELSE known

\* on_queue_complete takes the tag whatever becomes of the buffer
Untagged(b) ==
  /\ drv_drop_cause' = CauseTaken(b)
  /\ blame' = [blame EXCEPT ![b] = {}]
  /\ copying' = copying \ {b}

\* ... a corrupted frame is dropped, and the buffer filled again
Drop(b) ==
  /\ b \in copying /\ camera.dropping /\ buf[b].error
  /\ Untagged(b)
  /\ irqqueue' = Append(irqqueue, b)
  /\ buf' = [buf EXCEPT ![b].error = FALSE, ![b].short = FALSE]
  /\ TallyDrv("dropped")
  /\ verdict' = [reason |-> Reason(b), blame |-> blame[b]]
  /\ UNCHANGED <<camera, sequence, last_sequence, seq_gaps, seen>>

\* ... any other is delivered
Deliver(b, ignored) ==
  /\ b \in copying /\ ~(camera.dropping /\ buf[b].error)
  /\ Untagged(b)
  /\ VbDone(b, ignored)
  /\ buf' = [buf EXCEPT ![b] = Empty]
  /\ verdict' = NoVerdict
  /\ UNCHANGED <<camera, irqqueue, sequence, drvstats>>

\* The buffers of a stopped stream go back undecoded, past on_queue_complete;
\* the raw hooks of uvc.bpf.c take every buffer for done.
Cancel(ignored) ==
  LET b == irqqueue[1]
  IN  /\ ~camera.on /\ irqqueue # << >>
      /\ irqqueue' = Tail(irqqueue)
      /\ VbDone(b, ignored)
      /\ buf' = [buf EXCEPT ![b] = Empty]
      /\ blame' = [blame EXCEPT ![b] = IF b \in drv_drop_cause THEN {"stale"} ELSE {}]
      /\ verdict' = NoVerdict
      /\ UNCHANGED <<camera, copying, sequence, drv_drop_cause, drvstats>>

-----------------------------------------------------------------------------
(* The application.  A buffer is emptied when it is queued; nobody reads   *)
(* it before, so it is taken for empty from the moment it goes back.       *)

QueueBuffer(b) ==
  /\ camera.on /\ b \notin Range(irqqueue) \cup copying
  /\ irqqueue' = Append(irqqueue, b)
  /\ UNCHANGED <<camera, copying, buf, sequence, drv_drop_cause, drvstats, blame>>

StopStream ==
  /\ camera.on /\ copying = {}
  /\ camera' = [camera EXCEPT !.on = FALSE]
  /\ verdict' = NoVerdict
  /\ UNCHANGED <<irqqueue, copying, buf, sequence, drv_drop_cause, last_sequence, drvstats,
                 seq_gaps, blame, seen>>

StartStream ==
  /\ ~camera.on /\ irqqueue = << >> /\ camera.streams < MaxStreams
  /\ camera' = [camera EXCEPT !.on = TRUE, !.streams = @ + 1]
  /\ sequence' = 0 /\ seen' = NothingSeen /\ verdict' = NoVerdict
  /\ UNCHANGED <<irqqueue, copying, buf, drv_drop_cause, last_sequence, drvstats, seq_gaps, blame>>

DriverInit ==
  /\ camera \in [dropping: BOOLEAN, compressed: BOOLEAN, frames: {0}, faults: {0},
                 streams: {1}, on: {TRUE}]
  /\ irqqueue = << >> /\ copying = {} /\ sequence = 0
  /\ buf = [b \in Buffers |-> Empty]
  /\ drv_drop_cause = {} /\ last_sequence = NoSeq
  /\ drvstats = [received |-> 0, dropped |-> 0] /\ seq_gaps = 0
  /\ blame = [b \in Buffers |-> {}]
  /\ seen = NothingSeen /\ verdict = NoVerdict

\* the steps at which no buffer goes back
Filling ==
  /\ \/ \E faults \in SUBSET Faults : DecodePart(faults)
     \/ \E head, tail \in SUBSET Faults, short \in BOOLEAN : DecodeEnd(head, tail, short)
     \/ FrameWithoutBuffer
     \/ \E b \in Buffers : QueueBuffer(b)
  /\ verdict' = NoVerdict
  /\ UNCHANGED <<last_sequence, seq_gaps, seen>>

DriverNext ==
  \/ Filling
  \/ \E b \in Buffers : Drop(b)
  \/ \E ignored \in BOOLEAN : Cancel(ignored) \/ \E b \in Buffers : Deliver(b, ignored)
  \/ StopStream
  \/ StartStream

DriverSpec == DriverInit /\ [][DriverNext]_driverVars

-----------------------------------------------------------------------------
(* Properties. *)

(* uvcvideo holds a buffer once, and drv_drop_cause stays within its size.  *)
DriverTypeOK ==
  /\ Range(irqqueue) \subseteq Buffers /\ copying \subseteq Buffers \ Range(irqqueue)
  /\ Cardinality(Range(irqqueue)) = Len(irqqueue)
  /\ drv_drop_cause \subseteq Buffers /\ Cardinality(drv_drop_cause) <= CAUSE_ENTRIES
  /\ drvstats.dropped <= drvstats.received

(* on_queue_complete: a dropped frame is put down to lost packets if a URB  *)
(* that began in its buffer lost one of its own, unless the map had no room *)
(* for the tag; and only if there was one, or the URB that ended the frame  *)
(* lost one of the next frame, or the buffer was cancelled while tagged.    *)
(* What is dropped as "other" had another fault, or inherited its loss from *)
(* the URB that ended the frame before: a URB across two frames counts for  *)
(* the first, whichever of them lost the packet.                            *)
DropBlamesTheLoss ==
  verdict # NoVerdict =>
    /\ "drop_iso" \in verdict.reason => verdict.blame \cap {"own", "spilled", "stale"} # {}
    /\ "own" \in verdict.blame => "drop_iso" \in verdict.reason \/ "full" \in verdict.blame
    /\ "drop_other" \in verdict.reason => verdict.blame \cap {"other", "inherited", "full"} # {}

(* As long as no gap is counted, every frame of the stream from the first   *)
(* to the last one noted was delivered, or its number was on a buffer that  *)
(* came back when the stream stopped.                                       *)
NoGapMeansNoLoss ==
  seq_gaps = 0 /\ seen.first # NoSeq => seen.first .. last_sequence \subseteq seen.accounted
=============================================================================
