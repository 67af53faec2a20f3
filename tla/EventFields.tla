----------------------------- MODULE EventFields -----------------------------
(***************************************************************************)
(* normalize() of diag.c: which fields of struct diag_event a record of    *)
(* each kind fills.  The others read as zero, so that a rule which matches *)
(* on a field its kind does not fill is accepted by the loader and never,  *)
(* or always, holds.                                                       *)
(***************************************************************************)
EXTENDS Integers, FiniteSets

Identity == {"kind", "vid", "pid", "busnum", "devnum"}

Filled ==
  [urb       |-> {"status", "latency_ns", "actual", "length", "xfer_type", "dir_in", "ep",
                  "is_submit", "brequest", "wvalue"},
   enum      |-> {"old_state", "new_state", "step", "status"},
   power     |-> {"action"},
   lifecycle |-> {"action", "reset_resume"},
   hub       |-> {"action"},
   class     |-> {"status", "error_count", "actual", "length", "xfer_type", "dir_in", "ep",
                  "class", "is_submit"},
   uvc_frame |-> {"ep", "class", "actual", "frame_bytes", "frame_interval_ns", "frame_errored"},
   uvc_vb2   |-> {"class", "actual", "vb2_sequence", "vb2_bytesused", "vb2_interval_ns",
                  "vb2_seq_gap", "wire_to_vb2_ns", "vb2_op", "vb2_starved", "vb2_num_buffers",
                  "vb2_queued", "vb2_drv_owned"}]

\* A record is ingested when its kind is known and it is long enough: that
\* leaves out the drop records of uvc.
Normalized(kind, long) == IF long /\ kind \in DOMAIN Filled THEN Filled[kind] \cup Identity ELSE {}

\* The fields of a rule document (field_syms), and what its kinds are called
\* (kind_syms).
Addressable ==
  {"kind", "is_submit", "status", "xfer_type", "dir_in", "ep", "action", "old_state",
   "new_state", "latency_ns", "actual", "length", "error_count", "class", "frame_bytes",
   "frame_interval_ns", "frame_errored", "vb2_sequence", "vb2_seq_gap", "vb2_bytesused",
   "vb2_interval_ns", "wire_to_vb2_ns", "vb2_op", "vb2_starved", "vb2_num_buffers",
   "vb2_queued", "vb2_drv_owned", "step", "brequest", "wvalue", "reset_resume"}

\* What the built-in rules look at, kind by kind (rules.yaml).
BuiltIn ==
  [urb       |-> {"is_submit", "status", "xfer_type", "brequest"},
   enum      |-> {"new_state", "step", "status"},
   power     |-> {"action"},
   lifecycle |-> {"action", "reset_resume"},
   hub       |-> {"action"},
   class     |-> {"class", "error_count", "status"},
   uvc_frame |-> {"frame_errored", "frame_interval_ns"},
   uvc_vb2   |-> {"vb2_seq_gap", "vb2_starved"}]

\* every built-in rule looks only at fields that records of its kind fill
ASSUME BuiltInRulesReadFilledFields ==
  \A kind \in DOMAIN BuiltIn : BuiltIn[kind] \subseteq Normalized(kind, TRUE)

\* every field a document may name is filled by records of some kind
ASSUME EveryFieldHasASource ==
  Addressable \subseteq UNION {Normalized(kind, TRUE) : kind \in DOMAIN Filled}
=============================================================================
