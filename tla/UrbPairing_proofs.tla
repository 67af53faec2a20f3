--------------------------- MODULE UrbPairing_proofs ---------------------------
(***************************************************************************)
(* The pairing of submissions and givebacks, for every set of addresses    *)
(* and every size of start_ts.                                             *)
(***************************************************************************)
EXTENDS UrbPairing, FiniteSetTheorems, TLAPS

TracedNow(u) == Traced(urb[u].ctrl, urb[u].match)

\* Before on_submit is attached there are no entries, and a transfer it did not
\* see never gets one.
UnseenHasNoEntry ==
  /\ "submit" \notin hooks => DOMAIN start_ts = {}
  /\ \A u \in Urbs : urb[u].queued /\ ~urb[u].seen => u \notin DOMAIN start_ts

\* The entry of a traced transfer in flight is its own, and is missing only if
\* there was no room for it.
EntryIsOwn ==
  \A u \in Urbs : urb[u].queued /\ TracedNow(u) =>
    /\ u \in DOMAIN start_ts => start_ts[u] = urb[u].at
    /\ u \notin DOMAIN start_ts => ~urb[u].seen \/ urb[u].full

SubmittedInThePast == \A u \in Urbs : urb[u].at <= now

PairingInv ==
  /\ TypeOK
  /\ SubmittedInThePast
  /\ IsFiniteSet(DOMAIN start_ts)
  /\ UnseenHasNoEntry
  /\ EntryIsOwn
  /\ LatencyIsOfThisTransfer
  /\ StarvedOnlyByAFullMap
  /\ NoEntryOutlivesItsUrb

-----------------------------------------------------------------------------

(* What bpf_map_update_elem does to the map: the entry is replaced, or     *)
(* added within max_entries, or the map stays as it is.                    *)
LEMMA UpdateFacts ==
  ASSUME TypeOK, IsFiniteSet(DOMAIN start_ts), NEW u \in Urbs
  PROVE  /\ IsFiniteSet(DOMAIN Update(u))
         /\ DOMAIN Update(u) \subseteq Urbs
         /\ DOMAIN Update(u) \subseteq DOMAIN start_ts \cup {u}
         /\ DOMAIN start_ts \subseteq DOMAIN Update(u)
         /\ Cardinality(DOMAIN Update(u)) <= MapMax
         /\ \A v \in DOMAIN Update(u) : Update(u)[v] = IF v = u THEN now ELSE start_ts[v]
         /\ u \in DOMAIN Update(u) <=> Room(u)
<1>. DEFINE D == DOMAIN start_ts
<1>1. CASE ~Room(u)
  <2>1. u \notin D
    BY <1>1 DEF Room
  <2>2. Update(u) = start_ts
    BY <1>1 DEF Update
  <2>. QED BY <1>1, <2>1, <2>2 DEF TypeOK
<1>2. CASE Room(u)
  <2>1. Update(u) = [v \in D \cup {u} |-> IF v = u THEN now ELSE start_ts[v]]
    BY <1>2 DEF Update
  <2>2. DOMAIN Update(u) = D \cup {u}
    BY <2>1
  <2>3. IsFiniteSet(D \cup {u}) /\ (u \notin D => Cardinality(D \cup {u}) = Cardinality(D) + 1)
    BY FS_AddElement
  <2>4. Cardinality(D) \in Nat
    BY FS_CardinalityType
  <2>5. Cardinality(D \cup {u}) <= MapMax
    <3>1. CASE u \in D
      <4>1. D \cup {u} = D
        BY <3>1
      <4>. QED BY <4>1 DEF TypeOK
    <3>2. CASE u \notin D
      BY <1>2, <3>2, <2>3, <2>4, MapAssumption DEF Room
    <3>. QED BY <3>1, <3>2
  <2>. QED BY <1>2, <2>1, <2>2, <2>3, <2>5 DEF TypeOK
<1>. QED BY <1>1, <1>2

(* bpf_map_delete_elem takes out one entry and leaves the others.          *)
LEMMA DeleteFacts ==
  ASSUME TypeOK, IsFiniteSet(DOMAIN start_ts), NEW u \in Urbs
  PROVE  /\ IsFiniteSet(DOMAIN Delete(u))
         /\ DOMAIN Delete(u) = DOMAIN start_ts \ {u}
         /\ Cardinality(DOMAIN Delete(u)) <= MapMax
         /\ \A v \in DOMAIN Delete(u) : Delete(u)[v] = start_ts[v]
<1>. DEFINE D == DOMAIN start_ts
<1>1. DOMAIN Delete(u) = D \ {u} /\ \A v \in D \ {u} : Delete(u)[v] = start_ts[v]
  BY DEF Delete
<1>2. IsFiniteSet(D \ {u}) /\ Cardinality(D \ {u}) <= Cardinality(D)
  BY FS_Subset
<1>3. Cardinality(D \ {u}) \in Nat /\ Cardinality(D) \in Nat
  BY <1>2, FS_CardinalityType
<1>. QED BY <1>1, <1>2, <1>3, MapAssumption DEF TypeOK

-----------------------------------------------------------------------------

(* At load there are transfers in flight and no entries.                  *)
LEMMA InitInv == Init => PairingInv
<1>. SUFFICES ASSUME Init PROVE PairingInv
  OBVIOUS
<1>1. DOMAIN start_ts = {}
  BY DEF Init
<1>2. IsFiniteSet({}) /\ Cardinality({}) = 0
  BY FS_EmptySet
<1>3. urb \in [Urbs -> Transfer] /\ \A u \in Urbs : ~urb[u].seen /\ ~urb[u].full
  BY DEF Init, AtLoad
<1>4. NoReport \in Report
  BY DEF NoReport, Report
<1>5. TypeOK
  BY <1>1, <1>2, <1>3, <1>4, TimeAssumption, MapAssumption DEF Init, TypeOK
<1>6. SubmittedInThePast
  BY DEF Init, AtLoad, SubmittedInThePast
<1>7. LatencyIsOfThisTransfer /\ StarvedOnlyByAFullMap
  BY DEF Init, LatencyIsOfThisTransfer, StarvedOnlyByAFullMap, NoReport
<1>. QED
  BY <1>1, <1>2, <1>3, <1>5, <1>6, <1>7
  DEF PairingInv, UnseenHasNoEntry, EntryIsOwn, NoEntryOutlivesItsUrb

(* Attaching a hook changes neither the map nor the transfers.             *)
LEMMA AttachInv == PairingInv /\ Attach => PairingInv'
<1>. SUFFICES ASSUME PairingInv, Attach PROVE PairingInv'
  OBVIOUS
<1>1. hooks' \subseteq {"submit", "giveback"} /\ ("submit" \in hooks')
  BY DEF Attach
<1>. QED
  BY <1>1 DEF PairingInv, Attach, TypeOK, SubmittedInThePast, UnseenHasNoEntry, EntryIsOwn, TracedNow, Traced,
  LatencyIsOfThisTransfer, StarvedOnlyByAFullMap, NoEntryOutlivesItsUrb

(* Time passes without making an entry or a transfer newer.                *)
LEMMA TickInv == PairingInv /\ Tick => PairingInv'
<1>. SUFFICES ASSUME PairingInv, Tick PROVE PairingInv'
  OBVIOUS
<1>1. now' \in 0..MaxTime /\ now <= now' /\ now \in 0..MaxTime
  BY TimeAssumption DEF PairingInv, TypeOK, Tick
<1>2. TypeOK'
  BY <1>1 DEF PairingInv, TypeOK, Tick
<1>3. SubmittedInThePast'
  BY <1>1 DEF PairingInv, TypeOK, Tick, SubmittedInThePast, Transfer
<1>. QED
  BY <1>2, <1>3 DEF PairingInv, Tick, UnseenHasNoEntry, EntryIsOwn, TracedNow, Traced,
  LatencyIsOfThisTransfer, StarvedOnlyByAFullMap, NoEntryOutlivesItsUrb

(* A submission: its entry, if it is traced and there is room, carries the *)
(* time of this submission, whatever the address left in the map before.   *)
LEMMA SubmitInv ==
  ASSUME PairingInv, NEW u \in Urbs, NEW c \in BOOLEAN, NEW m \in BOOLEAN, NEW a \in BOOLEAN,
         Submit(u, c, m, a)
  PROVE  PairingInv'
<1>. DEFINE seen == "submit" \in hooks
            traced == seen /\ Traced(c, m)
            t == [queued |-> a, ctrl |-> c, match |-> m, at |-> now,
                  seen |-> seen, full |-> ~Room(u)]
<1>a. /\ ~urb[u].queued
      /\ urb' = [urb EXCEPT ![u] = t]
      /\ start_ts' = IF traced THEN Update(u) ELSE start_ts
      /\ orphan' = IF traced /\ ~a THEN orphan \cup {u}
                   ELSE IF traced THEN orphan \ {u} ELSE orphan
      /\ UNCHANGED <<ctrl_only, hooks, now, done>>
  BY DEF Submit
<1>b. t \in Transfer
  BY DEF Transfer, PairingInv, TypeOK
<1>c. urb' \in [Urbs -> Transfer] /\ urb'[u] = t /\ \A v \in Urbs \ {u} : urb'[v] = urb[v]
  BY <1>a, <1>b DEF PairingInv, TypeOK
<1>d. /\ IsFiniteSet(DOMAIN start_ts')
      /\ DOMAIN start_ts' \subseteq DOMAIN start_ts \cup {u}
      /\ DOMAIN start_ts \subseteq DOMAIN start_ts'
      /\ DOMAIN start_ts' \subseteq Urbs
      /\ Cardinality(DOMAIN start_ts') <= MapMax
      /\ \A v \in DOMAIN start_ts' \ {u} : start_ts'[v] = start_ts[v]
      /\ traced /\ u \in DOMAIN start_ts' => start_ts'[u] = now
      /\ traced => (u \in DOMAIN start_ts' <=> Room(u))
      /\ ~traced => start_ts' = start_ts
  <2>1. CASE traced
    <3>1. start_ts' = Update(u)
      BY <1>a, <2>1
    <3>. QED BY <3>1, <2>1, UpdateFacts DEF PairingInv
  <2>2. CASE ~traced
    <3>1. start_ts' = start_ts
      BY <1>a, <2>2
    <3>. QED BY <3>1, <2>2 DEF PairingInv, TypeOK
  <2>. QED BY <2>1, <2>2
<1>. HIDE DEF traced, t
<1>1. TypeOK'
  <2>1. \A v \in DOMAIN start_ts' : start_ts'[v] \in 0..now'
    BY <1>a, <1>d DEF PairingInv, TypeOK
  <2>. QED BY <2>1, <1>a, <1>c, <1>d DEF PairingInv, TypeOK
<1>2. SubmittedInThePast'
  BY <1>a, <1>c DEF PairingInv, SubmittedInThePast, TypeOK, t
<1>3. UnseenHasNoEntry'
  BY <1>a, <1>c, <1>d DEF PairingInv, UnseenHasNoEntry, t, traced
<1>4. EntryIsOwn'
  <2>. SUFFICES ASSUME NEW v \in Urbs, urb'[v].queued, TracedNow(v)'
                PROVE  /\ v \in DOMAIN start_ts' => start_ts'[v] = urb'[v].at
                       /\ v \notin DOMAIN start_ts' => ~urb'[v].seen \/ urb'[v].full
    BY DEF EntryIsOwn
  <2>1. CASE v # u
    BY <2>1, <1>a, <1>c, <1>d DEF PairingInv, EntryIsOwn, TracedNow, Traced
  <2>2. CASE v = u /\ seen
    <3>1. traced
      BY <2>2, <1>a, <1>c DEF TracedNow, Traced, traced, t
    <3>. QED BY <3>1, <2>2, <1>c, <1>d DEF t
  <2>3. CASE v = u /\ ~seen
    <3>1. ~traced /\ DOMAIN start_ts' = {}
      BY <2>3, <1>d DEF PairingInv, UnseenHasNoEntry, traced
    <3>. QED BY <3>1, <2>3, <1>c DEF t
  <2>. QED BY <2>1, <2>2, <2>3
<1>5. LatencyIsOfThisTransfer' /\ StarvedOnlyByAFullMap'
  BY <1>a DEF PairingInv, LatencyIsOfThisTransfer, StarvedOnlyByAFullMap
<1>6. NoEntryOutlivesItsUrb'
  <2>. SUFFICES ASSUME NEW v \in DOMAIN start_ts' PROVE urb'[v].queued \/ v \in orphan'
    BY DEF NoEntryOutlivesItsUrb
  <2>1. CASE v # u
    BY <2>1, <1>a, <1>c, <1>d DEF PairingInv, NoEntryOutlivesItsUrb
  <2>2. CASE v = u /\ traced
    BY <2>2, <1>a, <1>c DEF t
  <2>3. CASE v = u /\ ~traced
    BY <2>3, <1>a, <1>d DEF PairingInv, NoEntryOutlivesItsUrb
  <2>. QED BY <2>1, <2>2, <2>3
<1>. QED BY <1>1, <1>2, <1>3, <1>4, <1>5, <1>6, <1>d DEF PairingInv

(* A giveback no hook sees leaves the entry and makes its address an       *)
(* orphan.                                                                 *)
LEMMA GivebackUnseenInv ==
  ASSUME PairingInv, NEW u \in Urbs, GivebackUnseen(u)
  PROVE  PairingInv'
<1>a. /\ urb' = [urb EXCEPT ![u].queued = FALSE]
      /\ orphan' = IF u \in DOMAIN start_ts THEN orphan \cup {u} ELSE orphan
      /\ UNCHANGED <<ctrl_only, hooks, now, start_ts, done>>
  BY DEF GivebackUnseen
<1>b. urb[u] \in Transfer
  BY DEF PairingInv, TypeOK
<1>c. /\ urb' \in [Urbs -> Transfer]
      /\ ~urb'[u].queued /\ urb'[u].at = urb[u].at
      /\ \A v \in Urbs \ {u} : urb'[v] = urb[v]
  BY <1>a, <1>b DEF PairingInv, TypeOK, Transfer
<1>1. TypeOK'
  BY <1>a, <1>c DEF PairingInv, TypeOK
<1>2. SubmittedInThePast'
  BY <1>a, <1>c DEF PairingInv, SubmittedInThePast
<1>3. UnseenHasNoEntry'
  BY <1>a, <1>c DEF PairingInv, UnseenHasNoEntry
<1>4. EntryIsOwn'
  BY <1>a, <1>c DEF PairingInv, EntryIsOwn, TracedNow, Traced
<1>5. LatencyIsOfThisTransfer' /\ StarvedOnlyByAFullMap'
  BY <1>a DEF PairingInv, LatencyIsOfThisTransfer, StarvedOnlyByAFullMap
<1>6. NoEntryOutlivesItsUrb'
  BY <1>a, <1>c DEF PairingInv, NoEntryOutlivesItsUrb, TypeOK
<1>. QED BY <1>1, <1>2, <1>3, <1>4, <1>5, <1>6, <1>a DEF PairingInv

(* A giveback on_giveback sees: the entry it reads is that of the transfer *)
(* or there is none, and it is deleted on every path.                      *)
LEMMA OnGivebackInv ==
  ASSUME PairingInv, NEW u \in Urbs, OnGiveback(u)
  PROVE  PairingInv'
<1>. DEFINE r == [latency |-> IF u \in DOMAIN start_ts THEN now - start_ts[u] ELSE 0,
                  took |-> now - urb[u].at, seen |-> urb[u].seen, full |-> urb[u].full]
<1>a. /\ urb[u].queued
      /\ urb' = [urb EXCEPT ![u].queued = FALSE]
      /\ done' = IF TracedNow(u) THEN [done EXCEPT ![u] = r] ELSE done
      /\ start_ts' = Delete(u)
      /\ orphan' = orphan \ {u}
      /\ UNCHANGED <<ctrl_only, hooks, now>>
  BY DEF OnGiveback, TracedNow
<1>b. /\ urb[u] \in Transfer /\ urb[u].at \in 0..now /\ now \in 0..MaxTime
      /\ \A v \in DOMAIN start_ts : start_ts[v] \in 0..now
  BY DEF PairingInv, TypeOK, SubmittedInThePast, Transfer
<1>c. /\ urb' \in [Urbs -> Transfer]
      /\ ~urb'[u].queued /\ urb'[u].at = urb[u].at
      /\ \A v \in Urbs \ {u} : urb'[v] = urb[v]
  BY <1>a, <1>b DEF PairingInv, TypeOK, Transfer
<1>d. /\ IsFiniteSet(DOMAIN start_ts')
      /\ DOMAIN start_ts' = DOMAIN start_ts \ {u}
      /\ Cardinality(DOMAIN start_ts') <= MapMax
      /\ \A v \in DOMAIN start_ts' : start_ts'[v] = start_ts[v]
  BY <1>a, DeleteFacts DEF PairingInv
<1>e. r \in Report
  BY <1>b DEF Report, Transfer
<1>f. TracedNow(u) => /\ r.latency \in {0, r.took}
                      /\ r.seen /\ r.took > 0 /\ r.latency = 0 => r.full
  <2>. SUFFICES ASSUME TracedNow(u)
                PROVE  /\ r.latency \in {0, r.took}
                       /\ r.seen /\ r.took > 0 /\ r.latency = 0 => r.full
    OBVIOUS
  <2>1. /\ u \in DOMAIN start_ts => start_ts[u] = urb[u].at
        /\ u \notin DOMAIN start_ts => ~urb[u].seen \/ urb[u].full
    BY <1>a DEF PairingInv, EntryIsOwn
  <2>2. CASE u \in DOMAIN start_ts
    BY <2>1, <2>2, <1>b
  <2>3. CASE u \notin DOMAIN start_ts
    BY <2>1, <2>3, <1>b
  <2>. QED BY <2>2, <2>3
<1>. HIDE DEF r
<1>g. /\ done' \in [Urbs -> Report]
      /\ \A v \in Urbs : done'[v] = done[v] \/ (TracedNow(u) /\ done'[v] = r)
  BY <1>a, <1>e DEF PairingInv, TypeOK
<1>1. TypeOK'
  BY <1>a, <1>c, <1>d, <1>g DEF PairingInv, TypeOK
<1>2. SubmittedInThePast'
  BY <1>a, <1>c DEF PairingInv, SubmittedInThePast
<1>3. UnseenHasNoEntry'
  BY <1>a, <1>c, <1>d DEF PairingInv, UnseenHasNoEntry
<1>4. EntryIsOwn'
  BY <1>a, <1>c, <1>d DEF PairingInv, EntryIsOwn, TracedNow, Traced
<1>5. LatencyIsOfThisTransfer'
  BY <1>f, <1>g DEF PairingInv, LatencyIsOfThisTransfer
<1>6. StarvedOnlyByAFullMap'
  BY <1>f, <1>g DEF PairingInv, StarvedOnlyByAFullMap
<1>7. NoEntryOutlivesItsUrb'
  BY <1>a, <1>c, <1>d DEF PairingInv, NoEntryOutlivesItsUrb, TypeOK
<1>. QED BY <1>1, <1>2, <1>3, <1>4, <1>5, <1>6, <1>7, <1>d DEF PairingInv

-----------------------------------------------------------------------------

(* Every step, the hooks' and the kernel's alike, keeps the invariant.     *)
LEMMA NextInv == PairingInv /\ [Next]_vars => PairingInv'
<1>. SUFFICES ASSUME PairingInv, [Next]_vars PROVE PairingInv'
  OBVIOUS
<1>1. CASE Attach
  BY <1>1, AttachInv
<1>2. CASE Tick
  BY <1>2, TickInv
<1>3. ASSUME NEW u \in Urbs, NEW c \in BOOLEAN, NEW m \in BOOLEAN, NEW a \in BOOLEAN,
             Submit(u, c, m, a)
      PROVE  PairingInv'
  BY <1>3, SubmitInv
<1>4. ASSUME NEW u \in Urbs, GivebackUnseen(u) PROVE PairingInv'
  BY <1>4, GivebackUnseenInv
<1>5. ASSUME NEW u \in Urbs, OnGiveback(u) PROVE PairingInv'
  BY <1>5, OnGivebackInv
<1>6. CASE UNCHANGED vars
  BY <1>6 DEF vars, PairingInv, TypeOK, SubmittedInThePast, UnseenHasNoEntry, EntryIsOwn,
  TracedNow, Traced, LatencyIsOfThisTransfer, StarvedOnlyByAFullMap, NoEntryOutlivesItsUrb
<1>. QED BY <1>1, <1>2, <1>3, <1>4, <1>5, <1>6 DEF Next

(* PairingInv holds in every reachable state.                              *)
THEOREM Pairing == Spec => []PairingInv
<1>1. Init => PairingInv
  BY InitInv
<1>2. PairingInv /\ [Next]_vars => PairingInv'
  BY NextInv
<1>. QED BY <1>1, <1>2, PTL DEF Spec

(* start_ts stays within max_entries, with times of the past.              *)
THEOREM TypeCorrect == Spec => []TypeOK
<1>1. PairingInv => TypeOK
  BY DEF PairingInv
<1>. QED BY <1>1, Pairing, PTL

(* on_giveback never computes a latency from an entry an earlier transfer  *)
(* left under the address.                                                 *)
THEOREM NoStaleLatency == Spec => []LatencyIsOfThisTransfer
<1>1. PairingInv => LatencyIsOfThisTransfer
  BY DEF PairingInv
<1>. QED BY <1>1, Pairing, PTL

(* on_giveback finds no entry for a hooked submission only if start_ts was *)
(* full when on_submit ran.                                                *)
THEOREM Starvation == Spec => []StarvedOnlyByAFullMap
<1>1. PairingInv => StarvedOnlyByAFullMap
  BY DEF PairingInv
<1>. QED BY <1>1, Pairing, PTL

(* start_ts leaks only transfers whose giveback no hook could see.         *)
THEOREM NoLeak == Spec => []NoEntryOutlivesItsUrb
<1>1. PairingInv => NoEntryOutlivesItsUrb
  BY DEF PairingInv
<1>. QED BY <1>1, Pairing, PTL
=============================================================================
