------------------------------- MODULE UvcFrames -------------------------------
(***************************************************************************)
(* Frame reconstruction of the uvc probe (uvc.bpf.c): every completed URB  *)
(* of a video stream is walked packet by packet, and uvc_stream_state      *)
(* assembles frames from the FID and EOF bits of the payload headers.      *)
(*                                                                         *)
(* One stream, i.e. one entry of the `streams' map, of a session without   *)
(* vb2 hooks.  Beside it a camera sends frames of FRAME_PKTS packets; each *)
(* packet has a fate on the bus.  Byte counts, PTS and SCR are left out.   *)
(***************************************************************************)
EXTENDS Integers, Sequences, FiniteSets, SequencesExt

CONSTANTS
  FRAME_PKTS,   \* packets the camera cuts a frame into
  URB_PKTS,     \* packets of an URB (at most UVC_MAX_ISOC_PKTS)
  MaxSent       \* bound: packets the camera sends

ASSUME CameraAssumption ==
  FRAME_PKTS \in Nat \ {0} /\ URB_PKTS \in Nat \ {0} /\ MaxSent \in Nat

VARIABLES
  st,           \* struct uvc_stream_state, with ghost fields (below)
  out,          \* the frame records emitted for this URB
  wire,         \* stream_corr: the packets of the last wire frame, 0 = none
  sent,         \* history: packets the camera has sent
  damaged,      \* history: camera frames with a packet that was not intact
  ended,        \* history: camera frames in a record that ended with EOF
  prior         \* history: of the record before this URB's, its frames and its end

vars == <<st, out, wire, sent, damaged, ended, prior>>

\* intact; lost on the bus (error status, no data); damaged (error status and
\* data); marked bad by the camera (UVC_ERR); an empty slot between packets.
Fate == {"ok", "lost", "bad", "err", "empty"}

\* The n-th packet of the camera under a fate.  `frame' is ground truth.
Packet(n, fate) ==
  [status |-> fate \in {"lost", "bad"},
   data   |-> fate \notin {"lost", "empty"},
   fid    |-> (n \div FRAME_PKTS) % 2,
   eof    |-> n % FRAME_PKTS = FRAME_PKTS - 1,
   err    |-> fate = "err",
   frame  |-> n \div FRAME_PKTS]

\* The packets of the camera in the slots 1 .. k of an URB: an empty slot
\* takes none.
Real(fates, k) == Cardinality({j \in 1 .. k : fates[j] # "empty"})

Packets(fates) ==
  [i \in DOMAIN fates |-> Packet(sent + Real(fates, i - 1), fates[i])]

-----------------------------------------------------------------------------
(* Frame assembly.  Ghost fields of st: the camera frames whose payload the *)
(* current record holds (from), and whether one of those packets had an    *)
(* error (hurt).                                                           *)

NoState ==
  [active |-> FALSE, cur_fid |-> 0, saw_err |-> FALSE,
   cur_packets |-> 0, cur_err_packets |-> 0,
   from |-> {}, hurt |-> FALSE]

Record(s, eof) ==
  [eof |-> eof, errored |-> ~eof \/ s.saw_err, fid |-> s.cur_fid,
   packets |-> s.cur_packets, err_packets |-> s.cur_err_packets,
   from |-> s.from, hurt |-> s.hurt]

\* A variant: the reset leaves the frame active.
EmitFrameActive(a, eof) ==
  [s |-> [NoState EXCEPT !.cur_fid = a.s.cur_fid, !.active = TRUE],
   recs |-> Append(a.recs, Record(a.s, eof))]

\* A variant: the reset forgets saw_err.
EmitFrameTainted(a, eof) ==
  [s |-> [NoState EXCEPT !.cur_fid = a.s.cur_fid, !.saw_err = a.s.saw_err],
   recs |-> Append(a.recs, Record(a.s, eof))]

\* uvc_emit_frame, and the reset for the next frame.
EmitFrame(a, eof) ==
  [s |-> [NoState EXCEPT !.cur_fid = a.s.cur_fid],
   recs |-> Append(a.recs, Record(a.s, eof))]

\* A variant: the status of an empty packet is not looked at.
DescriptorNonEmpty(a, p) ==
  IF ~(p.status /\ p.data) THEN a
  ELSE [a EXCEPT !.s.saw_err = TRUE, !.s.cur_err_packets = @ + 1]

\* The packet's descriptor, before anything is known of its payload.
Descriptor(a, p) ==
  IF ~p.status THEN a
  ELSE [a EXCEPT !.s.saw_err = TRUE, !.s.cur_err_packets = @ + 1]

\* A variant: the FID of the frame that starts is not stored.
StartFrameOldFid(a, p) == [a EXCEPT !.s.active = TRUE]

StartFrame(a, p) == [a EXCEPT !.s.active = TRUE, !.s.cur_fid = p.fid]

\* A toggled FID without an EOF ends the frame as errored.
Assigned(a, p) ==
  IF ~a.s.active THEN StartFrame(a, p)
  ELSE IF p.fid # a.s.cur_fid THEN StartFrame(EmitFrame(a, FALSE), p)
  ELSE a

AddPayload(a, p) ==
  [a EXCEPT !.s.cur_packets = @ + 1,
            !.s.saw_err = @ \/ p.err,
            !.s.from = @ \cup {p.frame},
            !.s.hurt = @ \/ p.err \/ p.status]

ParsePacket(a, p) ==
  LET d == Descriptor(a, p)
      b == AddPayload(Assigned(d, p), p)
  IN  IF ~p.data THEN d
      ELSE IF p.eof THEN EmitFrame(b, TRUE) ELSE b

\* The loop of uvc_parse_frames: the stream's state and the records after
\* each packet.
Walk(s, pkts) ==
  LET acc[i \in 0 .. Len(pkts)] ==
        IF i = 0 THEN [s |-> s, recs |-> << >>] ELSE ParsePacket(acc[i - 1], pkts[i])
  IN  acc

\* A variant: the loop stops one packet short.
ParseUrbShort(s, pkts) == Walk(s, pkts)[Len(pkts) - 1]

\* uvc_parse_frames over the packets of one URB.
ParseUrb(s, pkts) == Walk(s, pkts)[Len(pkts)]

-----------------------------------------------------------------------------

\* The frames of the record before out[i], and whether it ended with EOF.
Before(i) ==
  IF i = 1 THEN prior ELSE [from |-> out[i - 1].from, eof |-> out[i - 1].eof]

\* kprobe/uvc_video_complete.  Each record also goes to stream_corr.
VideoComplete(fates) ==
  LET pkts == Packets(fates)
      a    == ParseUrb(st, pkts)
      real == Real(fates, Len(fates))
  IN  /\ sent + real <= MaxSent
      /\ st' = a.s
      /\ out' = a.recs
      /\ wire' = IF a.recs = << >> THEN wire ELSE Last(a.recs).packets
      /\ sent' = sent + real
      /\ damaged' = damaged \cup
           {pkts[i].frame : i \in {j \in DOMAIN fates : fates[j] \notin {"ok", "empty"}}}
      /\ ended' = ended \cup
           UNION {a.recs[i].from : i \in {j \in DOMAIN a.recs : a.recs[j].eof}}
      /\ prior' = Before(Len(out) + 1)

\* The probe may be attached in the middle of a frame.
Init ==
  /\ st = NoState /\ out = << >> /\ wire = 0
  /\ sent \in 0 .. FRAME_PKTS - 1
  /\ damaged = {} /\ ended = {}
  /\ prior = [from |-> {}, eof |-> TRUE]

Next == \E n \in 1 .. URB_PKTS : \E fates \in [1 .. n -> Fate] : VideoComplete(fates)

Spec == Init /\ [][Next]_vars

-----------------------------------------------------------------------------
(* Properties. *)

(* A frame is being assembled exactly when it has packets, and a record    *)
(* carries at least one.                                                   *)
TypeOK ==
  /\ st.active <=> st.cur_packets > 0
  /\ st.cur_fid \in {0, 1}
  /\ st.cur_err_packets \in Nat /\ st.saw_err \in BOOLEAN
  /\ \A i \in DOMAIN out : out[i].packets > 0
  /\ wire \in Nat

(* A frame reported clean holds the packets of one camera frame: even when *)
(* so much is lost that the next packet seen has the FID of the frame      *)
(* before, the merged frame is errored.                                    *)
CleanFrameIsOneFrame ==
  \A i \in DOMAIN out : ~out[i].errored => Cardinality(out[i].from) = 1

(* No camera frame is counted twice: its packets never end up in two frame *)
(* records (they would both enter the FPS and the drop count).             *)
NoFrameSplit ==
  \A i \in DOMAIN out : out[i].from \cap Before(i).from = {}

\* The damaged camera frames after those of the record before out[i], up to the last
\* one of out[i].
DamagedSince(i) ==
  {g \in damaged : /\ \A f \in Before(i).from : f < g
                   /\ \E f \in out[i].from : g <= f}

(* Errors are charged to the camera frames they hit, across URBs: a record *)
(* that ended with its EOF is errored only if a camera frame was damaged   *)
(* after those of the record before, its own or one of which nothing else  *)
(* came, and if there is one it is errored.  Only the record that follows  *)
(* one without EOF may be clean all the same: the packet that toggled the  *)
(* FID had its error charged to the frame it ended.                        *)
ErrorsChargedToTheirFrame ==
  \A i \in DOMAIN out : out[i].eof =>
    /\ out[i].errored => DamagedSince(i) # {}
    /\ DamagedSince(i) # {} /\ Before(i).eof => out[i].errored

(* A frame of which every packet arrived intact is reported as ended by    *)
(* its EOF, whatever was lost around it.                                   *)
IntactFrameReported ==
  \A f \in 0 .. (sent \div FRAME_PKTS) - 1 : f \notin damaged => f \in ended

(* uvc.h: `errored' is set when "any contributing isoc packet had an error *)
(* / the UVC ERR bit".                                                     *)
ContributingErrorIsReported ==
  \A i \in DOMAIN out : out[i].hurt => out[i].errored
=============================================================================
