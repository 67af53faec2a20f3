------------------------------ MODULE UrbPairing ------------------------------
(***************************************************************************)
(* The urb probe (urb.bpf.c): on_submit stores the time of a submission    *)
(* under the URB's address in the start_ts hash, on_giveback looks it up   *)
(* for the latency of the completion and deletes it.                       *)
(*                                                                         *)
(* The kernel around the probe is here as far as the hooks meet it: a      *)
(* submission may be refused after on_submit ran, an address is reused for *)
(* another transfer, URBs are in flight before the hooks are attached, and *)
(* on_submit is attached before on_giveback.                               *)
(***************************************************************************)
EXTENDS Integers, FiniteSets

CONSTANTS
  Urbs,        \* URB addresses
  MapMax,      \* max_entries of start_ts (16384)
  MaxTime      \* bound: the clock stops here

ASSUME MapAssumption == MapMax \in Nat
ASSUME TimeAssumption == MaxTime \in Nat

VARIABLES
  ctrl_only,   \* cfg.ctrl_only, fixed when the object is loaded
  hooks,       \* the hooks attached so far
  now,         \* bpf_ktime_get_ns()
  urb,         \* the transfer each address stands for
  start_ts,    \* [address in the map -> time of submission]
  done,        \* history: the last completion reported for an address
  orphan       \* history: addresses whose last traced submission got no giveback that a hook saw

vars == <<ctrl_only, hooks, now, urb, start_ts, done, orphan>>

\* match: the device passes (filter_vid, filter_pid); seen: on_submit was attached
\* at the submission; full: the map had no room for the submission
Transfer == [queued: BOOLEAN, ctrl: BOOLEAN, match: BOOLEAN,
             at: 0..MaxTime, seen: BOOLEAN, full: BOOLEAN]

AtLoad == {t \in Transfer: /\ t.at = 0 /\ ~t.seen /\ ~t.full
                           /\ t.ctrl \/ t.match => t.queued}

\* latency: what the event says; took: what the transfer took
Report == [latency: Int, took: Nat, seen: BOOLEAN, full: BOOLEAN]
NoReport == [latency |-> 0, took |-> 0, seen |-> FALSE, full |-> FALSE]

Traced(c, m) == m /\ (ctrl_only => c)

DeleteTraced(u) == IF Traced(urb[u].ctrl, urb[u].match)
                   THEN [v \in DOMAIN start_ts \ {u} |-> start_ts[v]]
                   ELSE start_ts

Delete(u) == [v \in DOMAIN start_ts \ {u} |-> start_ts[v]]

\* bpf_map_update_elem(BPF_ANY): replaces, or inserts while there is room
RoomOver(u) == u \in DOMAIN start_ts \/ Cardinality(DOMAIN start_ts) <= MapMax

Room(u) == u \in DOMAIN start_ts \/ Cardinality(DOMAIN start_ts) < MapMax
UpdateNoExist(u) ==
  IF Room(u) /\ u \notin DOMAIN start_ts
  THEN [v \in DOMAIN start_ts \cup {u} |-> IF v = u THEN now ELSE start_ts[v]]
  ELSE start_ts

UpdateShort(u) ==
  IF Cardinality(DOMAIN start_ts) + 1 < MapMax
  THEN [v \in DOMAIN start_ts \cup {u} |-> IF v = u THEN now ELSE start_ts[v]]
  ELSE start_ts

Update(u) == IF Room(u)
             THEN [v \in DOMAIN start_ts \cup {u} |-> IF v = u THEN now ELSE start_ts[v]]
             ELSE start_ts

-----------------------------------------------------------------------------

Init ==
  /\ ctrl_only \in BOOLEAN
  /\ hooks = {}
  /\ now = 0
  /\ urb \in [Urbs -> AtLoad]
  /\ start_ts = <<>>
  /\ done = [u \in Urbs |-> NoReport]
  /\ orphan = {}

Attach ==
  /\ hooks' = IF hooks = {} THEN {"submit"} ELSE {"submit", "giveback"}
  /\ hooks # hooks'
  /\ UNCHANGED <<ctrl_only, now, urb, start_ts, done, orphan>>

Tick ==
  /\ now < MaxTime
  /\ now' = now + 1
  /\ UNCHANGED <<ctrl_only, hooks, urb, start_ts, done, orphan>>

\* usb_submit_urb() on a free address, for a device and pipe of the caller's choice:
\* on_submit runs at its entry, and the kernel accepts the transfer or not
Submit(u, c, m, accepted) ==
  LET seen == "submit" \in hooks
      traced == seen /\ Traced(c, m)
  IN  /\ ~urb[u].queued
      /\ urb' = [urb EXCEPT ![u] = [queued |-> accepted, ctrl |-> c, match |-> m, at |-> now,
                                    seen |-> seen, full |-> ~Room(u)]]
      /\ start_ts' = IF traced THEN Update(u) ELSE start_ts
      /\ orphan' = IF traced /\ ~accepted THEN orphan \cup {u}
                   ELSE IF traced THEN orphan \ {u} ELSE orphan
      /\ UNCHANGED <<ctrl_only, hooks, now, done>>

\* a giveback no hook sees
GivebackUnseen(u) ==
  /\ urb[u].queued /\ "giveback" \notin hooks
  /\ urb' = [urb EXCEPT ![u].queued = FALSE]
  /\ orphan' = IF u \in DOMAIN start_ts THEN orphan \cup {u} ELSE orphan
  /\ UNCHANGED <<ctrl_only, hooks, now, start_ts, done>>

\* usb_hcd_giveback_urb() with on_giveback at its entry: every traced completion is
\* reported, with latency 0 when there is no entry, and the entry goes in any case
OnGiveback(u) ==
  LET t == urb[u]
  IN  /\ t.queued /\ "giveback" \in hooks
      /\ urb' = [urb EXCEPT ![u].queued = FALSE]
      /\ done' = IF Traced(t.ctrl, t.match)
                 THEN [done EXCEPT ![u] =
                   [latency |-> IF u \in DOMAIN start_ts THEN now - start_ts[u] ELSE 0,
                    took |-> now - t.at, seen |-> t.seen, full |-> t.full]]
                 ELSE done
      /\ start_ts' = Delete(u)
      /\ orphan' = orphan \ {u}
      /\ UNCHANGED <<ctrl_only, hooks, now>>

Next ==
  \/ Attach \/ Tick
  \/ \E u \in Urbs:
       \/ \E c, m, a \in BOOLEAN: Submit(u, c, m, a)
       \/ GivebackUnseen(u)
       \/ OnGiveback(u)

Spec == Init /\ [][Next]_vars

-----------------------------------------------------------------------------

\* The map never exceeds max_entries, and holds times of the past.
TypeOK ==
  /\ ctrl_only \in BOOLEAN
  /\ hooks \in SUBSET {"submit", "giveback"}
  /\ now \in 0..MaxTime
  /\ urb \in [Urbs -> Transfer]
  /\ DOMAIN start_ts \subseteq Urbs
  /\ Cardinality(DOMAIN start_ts) <= MapMax
  /\ \A u \in DOMAIN start_ts: start_ts[u] \in 0..now
  /\ done \in [Urbs -> Report]
  /\ orphan \subseteq Urbs

\* A latency that is not 0 is that of the transfer that completed, never counted
\* from an earlier submission of the same address whose entry was left behind: by a
\* submission the kernel refused, or a giveback before on_giveback was attached.
LatencyIsOfThisTransfer == \A u \in Urbs: done[u].latency \in {0, done[u].took}

\* A transfer whose submission was hooked loses its latency only to a full map.
StarvedOnlyByAFullMap ==
  \A u \in Urbs: done[u].seen /\ done[u].took > 0 /\ done[u].latency = 0 => done[u].full

\* start_ts holds transfers in flight, and of the finished ones only those no
\* giveback hook could see: every path through on_giveback, the filtered ones
\* included, gives the entry back.
NoEntryOutlivesItsUrb ==
  \A u \in DOMAIN start_ts: urb[u].queued \/ u \in orphan
=============================================================================
