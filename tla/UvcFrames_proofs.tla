---------------------------- MODULE UvcFrames_proofs ----------------------------
(***************************************************************************)
(* Proofs about frame reconstruction, for frames and URBs of any number of *)
(* packets and every fate of every packet.                                 *)
(***************************************************************************)
EXTENDS UvcFrames, TLAPS, FiniteSetTheorems, SequenceTheorems,
        WellFoundedInduction

-----------------------------------------------------------------------------
(* What each step of the walk does to the fields it touches. *)

FrameState ==
  [active : BOOLEAN, cur_fid : {0, 1}, saw_err : BOOLEAN,
   cur_packets : Nat, cur_err_packets : Nat,
   from : SUBSET Nat, hurt : BOOLEAN]

FrameRecord ==
  [eof : BOOLEAN, errored : BOOLEAN, fid : {0, 1},
   packets : Nat, err_packets : Nat,
   from : SUBSET Nat, hurt : BOOLEAN]

Acc == [s : FrameState, recs : Seq(FrameRecord)]

PacketType ==
  [status : BOOLEAN, data : BOOLEAN, fid : {0, 1}, eof : BOOLEAN,
   err : BOOLEAN, frame : Nat]

\* What a packet's status and length change.
LEMMA DescriptorIs ==
  ASSUME NEW a \in Acc, NEW p \in PacketType, NEW d, d = Descriptor(a, p)
  PROVE  /\ d \in Acc
         /\ d.recs = a.recs
         /\ d.s.active = a.s.active /\ d.s.cur_fid = a.s.cur_fid
         /\ d.s.cur_packets = a.s.cur_packets /\ d.s.from = a.s.from
         /\ d.s.saw_err <=> a.s.saw_err \/ p.status
<1>0. a.s \in FrameState /\ p.status \in BOOLEAN
  BY DEF Acc, PacketType
<1>1. CASE p.status
  <2> DEFINE k == a.s.cur_err_packets + 1
             t == [a.s EXCEPT !.saw_err = TRUE, !.cur_err_packets = k]
  <2>0. k \in Nat
    BY <1>0 DEF FrameState
  <2>1. d = [a EXCEPT !.s = t]
    BY <1>1 DEF Descriptor, Acc, FrameState
  <2> HIDE DEF k
  <2>2. t \in FrameState
    BY <1>0, <2>0 DEF FrameState
  <2>3. /\ t.active = a.s.active /\ t.cur_fid = a.s.cur_fid
        /\ t.cur_packets = a.s.cur_packets /\ t.from = a.s.from
        /\ t.saw_err = TRUE
    BY <1>0 DEF FrameState
  <2> HIDE DEF t
  <2>4. d \in Acc /\ d.s = t /\ d.recs = a.recs
    BY <2>1, <2>2 DEF Acc
  <2> QED
    BY <1>1, <2>3, <2>4
<1>2. CASE ~p.status
  BY <1>0, <1>2 DEF Descriptor, FrameState
<1> QED
  BY <1>0, <1>1, <1>2

\* What completing a frame leaves, and records.
LEMMA EmitIs ==
  ASSUME NEW a \in Acc, NEW eof \in BOOLEAN, NEW e, e = EmitFrame(a, eof)
  PROVE  /\ e \in Acc
         /\ e.s.active = FALSE /\ e.s.cur_fid = a.s.cur_fid
         /\ e.s.saw_err = FALSE
         /\ e.s.cur_packets = 0 /\ e.s.from = {}
         /\ e.recs = Append(a.recs, Record(a.s, eof))
         /\ Record(a.s, eof) \in FrameRecord
<1>0. a.s \in FrameState /\ a.recs \in Seq(FrameRecord)
  BY DEF Acc
<1> DEFINE t == [NoState EXCEPT !.cur_fid = a.s.cur_fid]
           r == Record(a.s, eof)
<1>1. t \in FrameState
  BY <1>0 DEF FrameState, NoState
<1>2. /\ t.active = FALSE /\ t.cur_fid = a.s.cur_fid
      /\ t.saw_err = FALSE
      /\ t.cur_packets = 0 /\ t.from = {}
  BY DEF NoState
<1>3. r \in FrameRecord
  BY <1>0 DEF Record, FrameRecord, FrameState
<1>4. e = [s |-> t, recs |-> Append(a.recs, r)]
  BY DEF EmitFrame
<1> HIDE DEF t, r
<1>5. Append(a.recs, r) \in Seq(FrameRecord)
  BY <1>0, <1>3
<1>6. e \in Acc /\ e.s = t /\ e.recs = Append(a.recs, r)
  BY <1>1, <1>4, <1>5 DEF Acc
<1> QED
  BY <1>2, <1>3, <1>6 DEF r

\* What starting a frame changes.
LEMMA StartIs ==
  ASSUME NEW a \in Acc, NEW p \in PacketType
  PROVE  /\ StartFrame(a, p) \in Acc
         /\ StartFrame(a, p).recs = a.recs
         /\ StartFrame(a, p).s.active = TRUE
         /\ StartFrame(a, p).s.cur_fid = p.fid
         /\ StartFrame(a, p).s.saw_err = a.s.saw_err
         /\ StartFrame(a, p).s.from = a.s.from
<1>0. a.s \in FrameState /\ p.fid \in {0, 1}
  BY DEF Acc, PacketType
<1> DEFINE b == StartFrame(a, p)
           t == [a.s EXCEPT !.active = TRUE, !.cur_fid = p.fid]
<1>1. b = [a EXCEPT !.s = t]
  BY DEF StartFrame, Acc, FrameState
<1>2. t \in FrameState
  BY <1>0 DEF FrameState
<1>3. /\ t.active = TRUE /\ t.cur_fid = p.fid
      /\ t.saw_err = a.s.saw_err
      /\ t.from = a.s.from
  BY <1>0 DEF FrameState
<1> HIDE DEF t, b
<1>4. b \in Acc /\ b.s = t /\ b.recs = a.recs
  BY <1>1, <1>2 DEF Acc
<1>5. /\ b \in Acc /\ b.recs = a.recs
      /\ b.s.active = TRUE /\ b.s.cur_fid = p.fid
      /\ b.s.saw_err = a.s.saw_err
      /\ b.s.from = a.s.from
  BY <1>3, <1>4
<1> QED
  BY <1>5 DEF b

\* What a payload adds to the frame.
LEMMA AddPayloadIs ==
  ASSUME NEW a \in Acc, NEW p \in PacketType, NEW b, b = AddPayload(a, p)
  PROVE  /\ b \in Acc
         /\ b.recs = a.recs
         /\ b.s.active = a.s.active /\ b.s.cur_fid = a.s.cur_fid
         /\ b.s.saw_err <=> a.s.saw_err \/ p.err
         /\ b.s.cur_packets = a.s.cur_packets + 1
         /\ b.s.from = a.s.from \cup {p.frame}
<1>0. /\ a.s \in FrameState /\ p.err \in BOOLEAN /\ p.status \in BOOLEAN
      /\ p.frame \in Nat
  BY DEF Acc, PacketType
<1> DEFINE n == a.s.cur_packets + 1
           se == a.s.saw_err \/ p.err
           fr == a.s.from \cup {p.frame}
           hu == a.s.hurt \/ p.err \/ p.status
           t == [a.s EXCEPT !.cur_packets = n, !.saw_err = se, !.from = fr,
                            !.hurt = hu]
<1>5. n \in Nat /\ fr \in SUBSET Nat
  BY <1>0 DEF FrameState
<1>6. se \in BOOLEAN /\ hu \in BOOLEAN
  OBVIOUS
<1>1. b = [a EXCEPT !.s = t]
  BY DEF AddPayload, Acc, FrameState
<1> HIDE DEF n, se, fr, hu
<1>2. t \in FrameState
  BY <1>0, <1>5, <1>6 DEF FrameState
<1>3. /\ t.active = a.s.active /\ t.cur_fid = a.s.cur_fid
      /\ t.saw_err = se
      /\ t.cur_packets = n /\ t.from = fr
  BY <1>0 DEF FrameState
<1> HIDE DEF t
<1>4. b \in Acc /\ b.s = t /\ b.recs = a.recs
  BY <1>1, <1>2 DEF Acc
<1> QED
  BY <1>3, <1>4, <1>6 DEF n, se, fr

-----------------------------------------------------------------------------
(* Positions of the camera. *)

\* Induction over the naturals, on a set: a least counterexample has a
\* predecessor in S.
LEMMA EveryNumber ==
  ASSUME NEW S, 0 \in S, \A n \in Nat : n \in S => n + 1 \in S
  PROVE  Nat \subseteq S
<1> DEFINE R == OpToRel(<, Nat)
           missing == {n \in Nat : n \notin S}
<1>1. IsWellFoundedOn(R, Nat)
  BY NatLessThanWellFounded
<1>2. \A x, y \in Nat : y < x => <<y, x>> \in R
  BY DEF OpToRel
<1> HIDE DEF R
<1> SUFFICES ASSUME missing # {} PROVE FALSE
  OBVIOUS
<1>3. PICK x \in missing : \A y \in missing : ~ (<<y, x>> \in R)
  BY <1>1, WFMin
<1>4. x \in Nat \ {0} /\ x - 1 \in Nat /\ x - 1 < x
  OBVIOUS
<1>5. x - 1 \in S
  BY <1>2, <1>3, <1>4
<1>6. x - 1 + 1 = x
  BY <1>4
<1> QED
  BY <1>4, <1>5, <1>6

\* A position is a number of whole frames and a packet within the next.
LEMMA Division ==
  ASSUME NEW n \in Nat
  PROVE  \E x \in Nat, y \in 0 .. FRAME_PKTS - 1 : n = x * FRAME_PKTS + y
<1> DEFINE F == FRAME_PKTS
           S == {k \in Nat : \E x \in Nat, y \in 0 .. F - 1 : k = x * F + y}
<1>1. F \in Nat \ {0}
  BY CameraAssumption
<1> HIDE DEF F
<1>2. 0 = 0 * F + 0 /\ 0 \in 0 .. F - 1
  BY <1>1
<1>3. ASSUME NEW k \in Nat, NEW x \in Nat, NEW y \in 0 .. F - 1, k = x * F + y
      PROVE  k + 1 \in S
  <2>1. CASE y = F - 1
    <3>1. k + 1 = (x + 1) * F + 0 /\ x + 1 \in Nat /\ 0 \in 0 .. F - 1
      BY <1>1, <1>3, <2>1, Z3
    <3> QED
      BY <3>1
  <2>2. CASE y # F - 1
    <3>1. y + 1 \in 0 .. F - 1 /\ x * F \in Nat
      BY <1>1, <2>2, Z3
    <3>2. k + 1 = x * F + (y + 1)
      BY <1>3, <3>1
    <3> QED
      BY <3>1, <3>2
  <2> QED
    BY <2>1, <2>2
<1>4. \A k \in Nat : k \in S => k + 1 \in S
  BY <1>3
<1>5. 0 \in S
  BY <1>2
<1> HIDE DEF S
<1>6. n \in S
  BY <1>4, <1>5, EveryNumber
<1> QED
  BY <1>6 DEF S, F

\* Quotient and remainder of a number written as x * F + y.
LEMMA DivisionIs ==
  ASSUME NEW F \in Nat \ {0}, NEW n \in Nat,
         NEW x \in Nat, NEW y \in 0 .. F - 1, n = x * F + y
  PROVE  n \div F = x /\ n % F = y
<1>1. n \div F = x
  BY SMTT(30)
<1>2. n % F = y
  BY SMTT(30)
<1> QED
  BY <1>1, <1>2

\* The frame of the next packet is that of this one, or the next after an EOF.
LEMMA NextFrame ==
  ASSUME NEW n \in Nat
  PROVE  /\ n \div FRAME_PKTS \in Nat
         /\ (n + 1) \div FRAME_PKTS =
              IF n % FRAME_PKTS = FRAME_PKTS - 1
              THEN n \div FRAME_PKTS + 1 ELSE n \div FRAME_PKTS
<1> DEFINE F == FRAME_PKTS
<1>1. F \in Nat \ {0}
  BY CameraAssumption
<1>2. PICK x \in Nat, y \in 0 .. F - 1 : n = x * F + y
  BY Division
<1> HIDE DEF F
<1>3. n \div F = x /\ n % F = y
  BY <1>1, <1>2, DivisionIs
<1>4. CASE y = F - 1
  <2>1. n + 1 = (x + 1) * F + 0 /\ x + 1 \in Nat /\ 0 \in 0 .. F - 1 /\ n + 1 \in Nat
    BY <1>1, <1>2, <1>4, Z3
  <2>2. (n + 1) \div F = x + 1
    BY <1>1, <2>1, DivisionIs
  <2> QED
    BY <1>3, <1>4, <2>2 DEF F
<1>5. CASE y # F - 1
  <2>1. y + 1 \in 0 .. F - 1 /\ x * F \in Nat /\ n + 1 \in Nat
    BY <1>1, <1>5, Z3
  <2>2. n + 1 = x * F + (y + 1)
    BY <1>2, <2>1
  <2>3. (n + 1) \div F = x
    BY <1>1, <2>1, <2>2, DivisionIs
  <2> QED
    BY <1>3, <1>5, <2>3 DEF F
<1> QED
  BY <1>4, <1>5

\* What the camera's packet at position n looks like to the probe.
LEMMA PacketIs ==
  ASSUME NEW n \in Nat, NEW fate \in Fate, NEW p, p = Packet(n, fate)
  PROVE  /\ p \in PacketType
         /\ p.frame = n \div FRAME_PKTS
         /\ p.fid = p.frame % 2
         /\ p.eof <=> n % FRAME_PKTS = FRAME_PKTS - 1
         /\ fate = "empty" => ~p.data /\ ~p.status
         /\ fate # "empty" /\ ~p.data => p.status
         /\ fate = "ok" => p.data
         /\ p.err => p.data
         /\ p.status \/ p.err <=> fate \notin {"ok", "empty"}
<1> DEFINE status == fate \in {"lost", "bad"}
           data == fate \notin {"lost", "empty"}
           eof == n % FRAME_PKTS = FRAME_PKTS - 1
           err == fate = "err"
           frame == n \div FRAME_PKTS
           fid == (n \div FRAME_PKTS) % 2
<1>1. frame \in Nat
  BY NextFrame
<1> HIDE DEF frame
<1>2. fid \in {0, 1}
  <2>1. \A k \in Nat : k % 2 \in {0, 1}
    BY Z3
  <2>2. fid = frame % 2
    BY DEF frame
  <2> QED
    BY <1>1, <2>1, <2>2
<1>3. status \in BOOLEAN /\ data \in BOOLEAN /\ eof \in BOOLEAN /\ err \in BOOLEAN
  OBVIOUS
<1>4. p = [status |-> status, data |-> data, fid |-> fid, eof |-> eof,
           err |-> err, frame |-> frame]
  BY DEF Packet, frame
<1>5. /\ fate = "empty" => ~data /\ ~status
      /\ fate # "empty" /\ ~data => status
      /\ fate = "ok" => data
      /\ err => data
      /\ status \/ err <=> fate \notin {"ok", "empty"}
  BY DEF Fate
<1>6. fid = frame % 2
  BY DEF frame
<1> HIDE DEF status, data, eof, err, fid
<1>7. p \in PacketType
  BY <1>1, <1>2, <1>3, <1>4 DEF PacketType
<1>8. /\ p.status = status /\ p.data = data /\ p.eof = eof
      /\ p.frame = frame /\ p.fid = fid /\ p.err = err
  BY <1>4
<1> QED
  BY <1>3, <1>5, <1>6, <1>7, <1>8 DEF frame, eof

-----------------------------------------------------------------------------
(* The invariant of the walk. *)

\* The camera frame of the packet at position n.
FrameOf(n) == n \div FRAME_PKTS

\* The frames of the last record, those of `base' when there is none yet.
Newest(recs, base) == IF recs = << >> THEN base ELSE recs[Len(recs)].from

\* The frame being assembled, when the next packet is of camera frame f: its
\* packets share its FID, and a frame without error holds those of f alone.
Assembling(s, f) ==
  /\ s.active <=> s.cur_packets > 0
  /\ s.active <=> s.from # {}
  /\ \A g \in s.from : g % 2 = s.cur_fid /\ g <= f
  /\ s.active /\ ~s.saw_err => s.from = {f}

\* Camera frames go into records in order.
Follows(s, last, f) ==
  /\ \A l \in last : \A g \in s.from : l < g
  /\ ~s.active => \A l \in last : l < f

GoodRecord(r) ==
  /\ r.packets > 0
  /\ ~r.errored => \E g : r.from = {g}

GoodRecords(recs) == \A i \in DOMAIN recs : GoodRecord(recs[i])

InOrder(recs, base) ==
  \A i \in DOMAIN recs :
    \A l \in (IF i = 1 THEN base ELSE recs[i - 1].from) :
      \A g \in recs[i].from : l < g

Walked(a, f, base) ==
  /\ a \in Acc
  /\ Assembling(a.s, f)
  /\ Follows(a.s, Newest(a.recs, base), f)
  /\ GoodRecords(a.recs)
  /\ InOrder(a.recs, base)

\* Records are only added.
Grows(recs, more) ==
  \A i \in DOMAIN recs : i \in DOMAIN more /\ more[i] = recs[i]

\* Frame f is in a record that its EOF ended.
EndedIn(f, recs) == \E i \in DOMAIN recs : recs[i].eof /\ f \in recs[i].from

\* p is a packet of camera frame f.
PacketOf(p, f) == p \in PacketType /\ p.frame = f /\ p.fid = f % 2

\* One record extends another, step after step.
LEMMA GrowsTrans ==
  ASSUME NEW r1, NEW r2, NEW r3, Grows(r1, r2), Grows(r2, r3)
  PROVE  Grows(r1, r3)
BY DEF Grows

\* Emitting a frame adds a good record after those of the frames before.
LEMMA EmitWalked ==
  ASSUME NEW a, NEW f \in Nat, NEW base \in SUBSET Nat, Walked(a, f, base),
         a.s.active, NEW eof \in BOOLEAN, NEW e, e = EmitFrame(a, eof)
  PROVE  /\ GoodRecords(e.recs)
         /\ InOrder(e.recs, base)
         /\ Newest(e.recs, base) = a.s.from
         /\ Grows(a.recs, e.recs)
         /\ eof => \A g \in a.s.from : EndedIn(g, e.recs)
<1> DEFINE r == Record(a.s, eof)
           n == Len(a.recs)
<1>1. /\ a \in Acc /\ a.recs \in Seq(FrameRecord) /\ a.s \in FrameState
      /\ n \in Nat /\ DOMAIN a.recs = 1 .. n
  BY DEF Walked, Acc
<1>2. e.recs = Append(a.recs, r) /\ r \in FrameRecord
  BY <1>1, EmitIs
<1>3. /\ r.eof = eof /\ r.packets = a.s.cur_packets
      /\ r.from = a.s.from
      /\ r.errored <=> ~eof \/ a.s.saw_err
  BY DEF Record
<1> HIDE DEF r
<1>4. /\ e.recs \in Seq(FrameRecord)
      /\ Len(e.recs) = n + 1 /\ DOMAIN e.recs = 1 .. n + 1
      /\ e.recs[n + 1] = r
      /\ \A i \in 1 .. n : e.recs[i] = a.recs[i]
  BY <1>1, <1>2
<1>5. GoodRecord(r)
  <2>1. /\ a.s.cur_packets > 0
        /\ ~a.s.saw_err => a.s.from = {f}
    BY DEF Walked, Assembling
  <2> QED
    BY <1>3, <2>1 DEF GoodRecord
<1>6. GoodRecords(e.recs)
  <2> SUFFICES ASSUME NEW i \in DOMAIN e.recs PROVE GoodRecord(e.recs[i])
    BY DEF GoodRecords
  <2>1. i \in 1 .. n \/ i = n + 1
    BY <1>1, <1>4
  <2> QED
    BY <1>1, <1>4, <1>5, <2>1 DEF Walked, GoodRecords
<1>7. InOrder(e.recs, base)
  <2> SUFFICES ASSUME NEW i \in DOMAIN e.recs,
                      NEW l \in (IF i = 1 THEN base ELSE e.recs[i - 1].from),
                      NEW g \in e.recs[i].from
               PROVE  l < g
    BY DEF InOrder
  <2>1. CASE i \in 1 .. n
    <3>1. e.recs[i] = a.recs[i] /\ (i # 1 => i - 1 \in 1 .. n)
      BY <1>1, <1>4, <2>1
    <3>2. i # 1 => e.recs[i - 1] = a.recs[i - 1]
      BY <1>4, <3>1
    <3> QED
      BY <1>1, <2>1, <3>1, <3>2 DEF Walked, InOrder
  <2>2. CASE i = n + 1
    <3>1. l \in Newest(a.recs, base)
      <4>1. CASE n = 0
        BY <1>1, <2>2, <4>1 DEF Newest
      <4>2. CASE n # 0
        <5>1. i # 1 /\ i - 1 = n /\ n \in 1 .. n /\ a.recs # << >>
          BY <1>1, <2>2, <4>2
        <5> QED
          BY <1>4, <5>1 DEF Newest
      <4> QED
        BY <4>1, <4>2
    <3>2. g \in a.s.from
      BY <1>3, <1>4, <2>2
    <3> QED
      BY <3>1, <3>2 DEF Walked, Follows
  <2> QED
    BY <1>1, <1>4, <2>1, <2>2
<1>8. Newest(e.recs, base) = a.s.from
  <2>1. e.recs # << >>
    BY <1>1, <1>4
  <2> QED
    BY <1>3, <1>4, <2>1 DEF Newest
<1>9. Grows(a.recs, e.recs)
  BY <1>1, <1>4 DEF Grows
<1>10. eof => \A g \in a.s.from : EndedIn(g, e.recs)
  <2>1. n + 1 \in DOMAIN e.recs
    BY <1>1, <1>4
  <2> QED
    BY <1>3, <1>4, <2>1 DEF EndedIn
<1> QED
  BY <1>6, <1>7, <1>8, <1>9, <1>10

\* A packet's status and length keep the invariant of the walk.
LEMMA DescriptorWalked ==
  ASSUME NEW a, NEW f \in Nat, NEW base \in SUBSET Nat, Walked(a, f, base),
         NEW p \in PacketType, NEW d, d = Descriptor(a, p)
  PROVE  /\ Walked(d, f, base)
         /\ d.recs = a.recs
         /\ p.status => d.s.saw_err
<1>1. a \in Acc /\ a.s \in FrameState
  BY DEF Walked, Acc
<1>2. /\ d \in Acc
      /\ d.recs = a.recs
      /\ d.s.active = a.s.active /\ d.s.cur_fid = a.s.cur_fid
      /\ d.s.cur_packets = a.s.cur_packets /\ d.s.from = a.s.from
      /\ d.s.saw_err <=> a.s.saw_err \/ p.status
  BY <1>1, DescriptorIs
<1>5. Assembling(d.s, f)
  <2>1. Assembling(a.s, f)
    BY DEF Walked
  <2>2. d.s.active /\ ~d.s.saw_err => d.s.from = {f}
    BY <1>2, <2>1 DEF Assembling
  <2> QED
    BY <1>2, <2>1, <2>2 DEF Assembling
<1>6. Follows(d.s, Newest(d.recs, base), f)
  BY <1>2 DEF Walked, Follows
<1>7. GoodRecords(d.recs) /\ InOrder(d.recs, base)
  BY <1>2 DEF Walked
<1> QED
  BY <1>2, <1>5, <1>6, <1>7 DEF Walked

\* A packet's payload goes to the frame being assembled, to the first of a new
\* one, or to the one its toggled FID starts after ending the frame before.
LEMMA PayloadWalked ==
  ASSUME NEW a, NEW f \in Nat, NEW base \in SUBSET Nat, Walked(a, f, base),
         NEW p, PacketOf(p, f),
         NEW c, c = Assigned(a, p), NEW b, b = AddPayload(c, p)
  PROVE  /\ Walked(b, f, base)
         /\ b.s.active
         /\ f \in b.s.from
         /\ Grows(a.recs, b.recs)
<1>0. a.s.active \in BOOLEAN
  BY DEF Walked, Acc, FrameState
<1>1. a \in Acc /\ a.s \in FrameState
  BY DEF Walked, Acc
<1>2. Assembling(a.s, f) /\ Follows(a.s, Newest(a.recs, base), f)
  BY DEF Walked
<1>4. p \in PacketType
  BY DEF PacketOf
<1>10. p.frame = f /\ p.fid = f % 2
  BY DEF PacketOf
<1>3. /\ c \in Acc
      /\ c.s.active = TRUE /\ c.s.cur_fid = p.fid
      /\ \A g \in c.s.from : g % 2 = p.fid /\ g <= f
      /\ ~c.s.saw_err => c.s.from \in SUBSET {f}
      /\ \A l \in Newest(c.recs, base) : l < f /\ \A g \in c.s.from : l < g
      /\ GoodRecords(c.recs) /\ InOrder(c.recs, base)
      /\ Grows(a.recs, c.recs)
  <2>1. CASE ~a.s.active
    <3>1. c = StartFrame(a, p)
      BY <2>1 DEF Assigned
    <3>2. /\ c \in Acc
          /\ c.recs = a.recs
          /\ c.s.active = TRUE /\ c.s.cur_fid = p.fid
          /\ c.s.saw_err = a.s.saw_err
          /\ c.s.from = a.s.from
      <4>1. c \in Acc /\ c.recs = a.recs
        BY <1>1, <1>4, <3>1, StartIs
      <4>2. c.s.active = TRUE
        BY <1>1, <1>4, <3>1, StartIs
      <4>3. c.s.cur_fid = p.fid /\ c.s.from = a.s.from
        BY <1>1, <1>4, <3>1, StartIs
      <4>4. c.s.saw_err = a.s.saw_err
        BY <1>1, <1>4, <3>1, StartIs
      <4> QED
        BY <4>1, <4>2, <4>3, <4>4
    <3>3. a.s.from = {} /\ \A l \in Newest(a.recs, base) : l < f
      BY <1>2, <2>1 DEF Assembling, Follows
    <3>5. GoodRecords(c.recs) /\ InOrder(c.recs, base) /\ Grows(a.recs, c.recs)
      BY <3>2 DEF Walked, Grows
    <3> QED
      BY <1>2, <3>2, <3>3, <3>5 DEF Assembling
  <2>2. CASE a.s.active /\ p.fid # a.s.cur_fid
    <3>0. PICK e : e = EmitFrame(a, FALSE)
      OBVIOUS
    <3>6. e \in Acc
      BY <1>1, <3>0, EmitIs
    <3>1. e.s.saw_err = FALSE /\ e.s.from = {}
      BY <1>1, <3>0, EmitIs
    <3>2. /\ GoodRecords(e.recs) /\ InOrder(e.recs, base)
          /\ Newest(e.recs, base) = a.s.from /\ Grows(a.recs, e.recs)
      BY <2>2, <3>0, EmitWalked
    <3>3. c = StartFrame(e, p)
      BY <2>2, <3>0 DEF Assigned
    <3>4. /\ c \in Acc
          /\ c.recs = e.recs
          /\ c.s.active = TRUE /\ c.s.cur_fid = p.fid
          /\ c.s.saw_err = e.s.saw_err
          /\ c.s.from = e.s.from
      <4>1. c \in Acc /\ c.recs = e.recs
        BY <1>4, <3>3, <3>6, StartIs
      <4>2. c.s.active = TRUE
        BY <1>4, <3>3, <3>6, StartIs
      <4>3. c.s.cur_fid = p.fid /\ c.s.from = e.s.from
        BY <1>4, <3>3, <3>6, StartIs
      <4>4. c.s.saw_err = e.s.saw_err
        BY <1>4, <3>3, <3>6, StartIs
      <4> QED
        BY <4>1, <4>2, <4>3, <4>4
    <3>5. \A g \in a.s.from : g < f
      <4> SUFFICES ASSUME NEW g \in a.s.from PROVE g < f
        OBVIOUS
      <4>1. g % 2 = a.s.cur_fid /\ g <= f /\ g \in Nat
        BY <1>1, <1>2 DEF Assembling, FrameState
      <4>2. g # f
        BY <1>10, <2>2, <4>1
      <4> QED
        BY <4>1, <4>2
    <3> QED
      BY <3>1, <3>2, <3>4, <3>5
  <2>3. CASE a.s.active /\ p.fid = a.s.cur_fid
    <3>1. c = a
      BY <2>3 DEF Assigned
    <3>2. /\ a.s.active = TRUE
          /\ \A g \in a.s.from : g % 2 = p.fid /\ g <= f
          /\ ~a.s.saw_err => a.s.from \in SUBSET {f}
      BY <1>0, <1>1, <1>2, <2>3 DEF Assembling
    <3>3. \A l \in Newest(a.recs, base) : l < f /\ \A g \in a.s.from : l < g
      <4> SUFFICES ASSUME NEW l \in Newest(a.recs, base) PROVE l < f /\ \A g \in a.s.from : l < g
        OBVIOUS
      <4>1. \A g \in a.s.from : l < g
        BY <1>2 DEF Follows
      <4>2. PICK g \in a.s.from : TRUE
        BY <1>2, <2>3 DEF Assembling
      <4>3. l < g /\ g <= f /\ g \in Nat /\ l \in Nat
        <5>1. l \in Nat
          <6>1. CASE a.recs = << >>
            BY <6>1 DEF Newest
          <6>2. CASE a.recs # << >>
            <7>1. a.recs \in Seq(FrameRecord) /\ a.recs[Len(a.recs)] \in FrameRecord
              BY <1>1, <6>2 DEF Acc
            <7> QED
              BY <6>2, <7>1 DEF Newest, FrameRecord
          <6> QED
            BY <6>1, <6>2
        <5> QED
          BY <1>1, <3>2, <4>1, <4>2, <5>1 DEF FrameState
      <4> QED
        BY <4>1, <4>3
    <3>4. GoodRecords(a.recs) /\ InOrder(a.recs, base) /\ Grows(a.recs, a.recs)
      BY DEF Walked, Grows
    <3> QED
      BY <1>1, <2>3, <3>1, <3>2, <3>3, <3>4
  <2> QED
    BY <2>1, <2>2, <2>3
<1>5. /\ b \in Acc
      /\ b.recs = c.recs
      /\ b.s.active = c.s.active /\ b.s.cur_fid = c.s.cur_fid
      /\ b.s.saw_err <=> c.s.saw_err \/ p.err
      /\ b.s.cur_packets = c.s.cur_packets + 1
      /\ b.s.from = c.s.from \cup {f}
  BY <1>3, <1>4, <1>10, AddPayloadIs
<1>6. b.s.saw_err \in BOOLEAN /\ c.s.cur_packets \in Nat
  BY <1>3, <1>5 DEF Acc, FrameState
<1>7. Assembling(b.s, f)
  <2>2. b.s.active = TRUE /\ b.s.cur_packets > 0 /\ b.s.from # {}
    BY <1>3, <1>5, <1>6
  <2>3. \A g \in b.s.from : g % 2 = b.s.cur_fid /\ g <= f
    BY <1>3, <1>5, <1>10
  <2>4. ~b.s.saw_err => b.s.from = {f}
    BY <1>3, <1>5
  <2> QED
    BY <2>2, <2>3, <2>4 DEF Assembling
<1>8. Follows(b.s, Newest(b.recs, base), f)
  <2>1. \A l \in Newest(b.recs, base) : \A g \in b.s.from : l < g
    BY <1>3, <1>5
  <2> QED
    BY <1>3, <1>5, <2>1 DEF Follows
<1>9. Walked(b, f, base)
  BY <1>3, <1>5, <1>7, <1>8 DEF Walked
<1> QED
  BY <1>3, <1>5, <1>9

\* The camera moves on to the next frame, past an EOF that ended the frame
\* being assembled or that was lost.
LEMMA FrameOverWalked ==
  ASSUME NEW a, NEW f \in Nat, NEW base \in SUBSET Nat, Walked(a, f, base),
         a.s.saw_err \/ ~a.s.active
  PROVE  Walked(a, f + 1, base)
<1>1. a \in Acc /\ a.s \in FrameState
  BY DEF Walked, Acc
<1>2. \A g \in a.s.from : g \in Nat
  BY <1>1 DEF FrameState
<1>3. Assembling(a.s, f + 1)
  <2>1. Assembling(a.s, f)
    BY DEF Walked
  <2>2. \A g \in a.s.from : g <= f => g <= f + 1
    BY <1>2
  <2> QED
    BY <2>1, <2>2 DEF Assembling
<1>4. \A l \in Newest(a.recs, base) : l \in Nat
  <2>1. CASE a.recs = << >>
    BY <2>1 DEF Newest
  <2>2. CASE a.recs # << >>
    <3>1. a.recs \in Seq(FrameRecord) /\ a.recs[Len(a.recs)] \in FrameRecord
      BY <1>1, <2>2 DEF Acc
    <3> QED
      BY <2>2, <3>1 DEF Newest, FrameRecord
  <2> QED
    BY <2>1, <2>2
<1>5. Follows(a.s, Newest(a.recs, base), f + 1)
  <2>1. Follows(a.s, Newest(a.recs, base), f)
    BY DEF Walked
  <2>2. \A l \in Newest(a.recs, base) : l < f => l < f + 1
    BY <1>4
  <2> QED
    BY <2>1, <2>2 DEF Follows
<1> QED
  BY <1>3, <1>5 DEF Walked

\* One packet of an URB.
LEMMA PacketWalked ==
  ASSUME NEW n \in Nat, NEW fate \in Fate, NEW base \in SUBSET Nat,
         NEW a, Walked(a, FrameOf(n), base),
         NEW p, p = Packet(n, fate),
         NEW b, b = ParsePacket(a, p),
         NEW m, m = IF fate = "empty" THEN n ELSE n + 1
  PROVE  /\ Walked(b, FrameOf(m), base)
         /\ Grows(a.recs, b.recs)
         /\ n % FRAME_PKTS = FRAME_PKTS - 1 /\ fate = "ok" => EndedIn(FrameOf(n), b.recs)
<1>0. PICK f : f = FrameOf(n)
  OBVIOUS
<1>1. /\ f \in Nat
      /\ FrameOf(n + 1) = IF n % FRAME_PKTS = FRAME_PKTS - 1 THEN f + 1 ELSE f
  BY <1>0, NextFrame DEF FrameOf
<1>2. /\ p \in PacketType
      /\ p.frame = f
      /\ p.fid = p.frame % 2
  BY <1>0, PacketIs DEF FrameOf
<1>3. /\ p.eof <=> n % FRAME_PKTS = FRAME_PKTS - 1
      /\ fate = "empty" => ~p.data /\ ~p.status
      /\ fate # "empty" /\ ~p.data => p.status
      /\ fate = "ok" => p.data
  BY PacketIs
<1>4. PacketOf(p, f)
  BY <1>2 DEF PacketOf
<1>5. Walked(a, f, base)
  BY <1>0
<1>6. PICK d : d = Descriptor(a, p)
  OBVIOUS
<1>7. Walked(d, f, base) /\ d.recs = a.recs /\ (p.status => d.s.saw_err)
  BY <1>1, <1>2, <1>5, <1>6, DescriptorWalked
<1>8. CASE ~p.data
  <2>1. b = d
    BY <1>6, <1>8 DEF ParsePacket
  <2>2. Grows(a.recs, b.recs)
    BY <1>7, <2>1 DEF Grows
  <2>3. Walked(b, FrameOf(m), base)
    <3>1. CASE fate = "empty"
      BY <1>0, <1>7, <2>1, <3>1
    <3>2. CASE fate # "empty"
      <4>1. d.s.saw_err /\ m = n + 1
        BY <1>3, <1>7, <1>8, <3>2
      <4>2. Walked(d, f + 1, base)
        BY <1>1, <1>7, <4>1, FrameOverWalked
      <4> QED
        BY <1>1, <1>7, <2>1, <4>1, <4>2
    <3> QED
      BY <3>1, <3>2
  <2> QED
    BY <1>3, <1>8, <2>2, <2>3
<1>9. CASE p.data
  <2>0. m = n + 1
    BY <1>3, <1>9
  <2>1. PICK c : c = Assigned(d, p)
    OBVIOUS
  <2>2. PICK q : q = AddPayload(c, p)
    OBVIOUS
  <2>3. Walked(q, f, base) /\ q.s.active /\ f \in q.s.from /\ Grows(a.recs, q.recs)
    BY <1>1, <1>4, <1>7, <2>1, <2>2, PayloadWalked
  <2>4. CASE ~p.eof
    <3>1. b = q
      BY <1>6, <1>9, <2>1, <2>2, <2>4 DEF ParsePacket
    <3>2. FrameOf(m) = f
      BY <1>1, <1>3, <2>0, <2>4
    <3> QED
      BY <1>3, <2>3, <2>4, <3>1, <3>2
  <2>5. CASE p.eof
    <3>1. b = EmitFrame(q, TRUE)
      BY <1>6, <1>9, <2>1, <2>2, <2>5 DEF ParsePacket
    <3>2. FrameOf(m) = f + 1
      BY <1>1, <1>3, <2>0, <2>5
    <3>3. /\ GoodRecords(b.recs) /\ InOrder(b.recs, base)
          /\ Newest(b.recs, base) = q.s.from
          /\ Grows(q.recs, b.recs)
          /\ \A g \in q.s.from : EndedIn(g, b.recs)
      BY <1>1, <2>3, <3>1, EmitWalked
    <3>4. q \in Acc
      BY <2>3 DEF Walked
    <3>5. b \in Acc
      BY <3>1, <3>4, EmitIs
    <3>6. /\ b.s.active = FALSE
          /\ b.s.cur_packets = 0 /\ b.s.from = {}
      BY <3>1, <3>4, EmitIs
    <3>7. Assembling(b.s, f + 1)
      BY <3>6 DEF Assembling
    <3>8. Follows(b.s, Newest(b.recs, base), f + 1)
      <4>1. \A g \in q.s.from : g <= f
        BY <2>3 DEF Walked, Assembling
      <4>2. \A g \in q.s.from : g \in Nat
        BY <3>4 DEF Acc, FrameState
      <4>3. \A g \in q.s.from : g < f + 1
        BY <1>1, <4>1, <4>2
      <4> QED
        BY <3>3, <3>6, <4>3 DEF Follows
    <3>9. Walked(b, f + 1, base)
      BY <3>3, <3>5, <3>7, <3>8 DEF Walked
    <3> QED
      BY <1>0, <2>3, <3>2, <3>3, <3>9, GrowsTrans
  <2> QED
    BY <2>4, <2>5
<1> QED
  BY <1>2, <1>8, <1>9

\* The last record's frames.
LEMMA NewestIs ==
  ASSUME NEW recs \in Seq(FrameRecord), NEW base \in SUBSET Nat
  PROVE  /\ Newest(recs, base) \in SUBSET Nat
         /\ recs # << >> => Last(recs) \in FrameRecord /\ Newest(recs, base) = Last(recs).from
<1>1. CASE recs = << >>
  BY <1>1 DEF Newest
<1>2. CASE recs # << >>
  <2>1. recs[Len(recs)] \in FrameRecord
    BY <1>2
  <2>2. Last(recs) = recs[Len(recs)]
    BY DEF Last
  <2>3. Last(recs).from \in SUBSET Nat
    BY <2>1, <2>2 DEF FrameRecord
  <2> QED
    BY <1>2, <2>1, <2>2, <2>3 DEF Newest
<1> QED
  BY <1>1, <1>2

-----------------------------------------------------------------------------
(* What errors are charged to. *)

\* Whether the last record ended with EOF; `beof' when there is none yet.
NewestEof(recs, beof) == IF recs = << >> THEN beof ELSE recs[Len(recs)].eof

\* A camera frame of D follows those of `last'.
Hit(D, last) == \E g \in D : \A l \in last : l < g

\* Record r comes after frames `last', in a record that ended with EOF iff
\* leof; D are the damaged frames.
ChargedRecord(r, D, last, leof) ==
  LET charged == \E g \in D : (\A l \in last : l < g) /\ \E h \in r.from : g <= h
  IN  r.eof => (r.errored => charged) /\ (charged /\ leof => r.errored)

\* saw_err and the records so far, when the next packet is of camera frame f.
Charges(saw, recs, f, base, beof, D) ==
  /\ \A g \in D : g \in Nat /\ g <= f
  /\ \A l \in Newest(recs, base) : l < f
  /\ \A i \in DOMAIN recs : \A g \in recs[i].from : g < f
  /\ saw => Hit(D, Newest(recs, base))
  /\ Hit(D, Newest(recs, base)) /\ NewestEof(recs, beof) => saw
  /\ \A i \in DOMAIN recs :
       ChargedRecord(recs[i], D, IF i = 1 THEN base ELSE recs[i - 1].from,
                     IF i = 1 THEN beof ELSE recs[i - 1].eof)

\* The damaged frames with that of a packet of f that was not intact.
Struck(D, f, bad) == IF bad THEN D \cup {f} ELSE D

\* An error of the current packet is noted in saw_err.
LEMMA ChargesMore ==
  ASSUME NEW saw \in BOOLEAN, NEW recs \in Seq(FrameRecord), NEW f \in Nat,
         NEW base \in SUBSET Nat, NEW beof \in BOOLEAN, NEW D,
         Charges(saw, recs, f, base, beof, D), NEW bad \in BOOLEAN
  PROVE  Charges(saw \/ bad, recs, f, base, beof, Struck(D, f, bad))
<1>1. CASE ~bad
  BY <1>1 DEF Struck
<1>2. CASE bad
  <2>1. PICK last : last = Newest(recs, base)
    OBVIOUS
  <2>2. PICK more : more = D \cup {f}
    OBVIOUS
  <2>3. \A l \in last : l < f
    BY <2>1 DEF Charges
  <2>4. \A g \in more : g \in Nat /\ g <= f
    BY <2>2 DEF Charges
  <2>5. Hit(more, last)
    BY <2>2, <2>3 DEF Hit
  <2>6. ASSUME NEW i \in DOMAIN recs
        PROVE  ChargedRecord(recs[i], more, IF i = 1 THEN base ELSE recs[i - 1].from,
                             IF i = 1 THEN beof ELSE recs[i - 1].eof)
    <3>1. \A h \in recs[i].from : h < f /\ h \in Nat
      <4>1. recs[i] \in FrameRecord
        OBVIOUS
      <4> QED
        BY <4>1 DEF Charges, FrameRecord
    <3>2. ~ \E h \in recs[i].from : f <= h
      BY <3>1
    <3>3. ChargedRecord(recs[i], D, IF i = 1 THEN base ELSE recs[i - 1].from,
                        IF i = 1 THEN beof ELSE recs[i - 1].eof)
      BY DEF Charges
    <3> QED
      BY <2>2, <3>2, <3>3 DEF ChargedRecord
  <2>7. Charges(TRUE, recs, f, base, beof, more)
    BY <2>1, <2>3, <2>4, <2>5, <2>6 DEF Charges
  <2> QED
    BY <1>2, <2>2, <2>7 DEF Struck
<1> QED
  BY <1>1, <1>2

\* The camera moves on to a later frame.
LEMMA ChargesOver ==
  ASSUME NEW saw \in BOOLEAN, NEW recs \in Seq(FrameRecord), NEW f \in Nat,
         NEW base \in SUBSET Nat, NEW beof \in BOOLEAN, NEW D,
         Charges(saw, recs, f, base, beof, D)
  PROVE  Charges(saw, recs, f + 1, base, beof, D)
<1>1. \A l \in Newest(recs, base) : l \in Nat
  BY NewestIs
<1>2. \A i \in DOMAIN recs : \A g \in recs[i].from : g \in Nat
  <2>1. \A i \in DOMAIN recs : recs[i] \in FrameRecord
    OBVIOUS
  <2> QED
    BY <2>1 DEF FrameRecord
<1>3. \A l \in Nat : (l < f => l < f + 1) /\ (l <= f => l <= f + 1)
  OBVIOUS
<1>4. \A g \in D : g \in Nat /\ g <= f + 1
  BY <1>3 DEF Charges
<1>5. /\ \A l \in Newest(recs, base) : l < f + 1
      /\ \A i \in DOMAIN recs : \A g \in recs[i].from : g < f + 1
  BY <1>1, <1>2, <1>3 DEF Charges
<1> QED
  BY <1>4, <1>5 DEF Charges

\* A record is emitted, and saw_err reset: no frame damaged so far is left to
\* be charged, unless the record ended without EOF.
LEMMA ChargesAppend ==
  ASSUME NEW saw \in BOOLEAN, NEW recs \in Seq(FrameRecord), NEW f \in Nat,
         NEW base \in SUBSET Nat, NEW beof \in BOOLEAN, NEW D,
         Charges(saw, recs, f, base, beof, D),
         NEW r \in FrameRecord, \A g \in r.from : g < f,
         ChargedRecord(r, D, Newest(recs, base), NewestEof(recs, beof)),
         Hit(D, r.from) => ~r.eof,
         NEW more, more = Append(recs, r)
  PROVE  Charges(FALSE, more, f, base, beof, D)
<1>1. PICK n : n = Len(recs)
  OBVIOUS
<1>2. /\ n \in Nat /\ DOMAIN recs = 1 .. n
      /\ more \in Seq(FrameRecord) /\ more # << >>
      /\ Len(more) = n + 1 /\ DOMAIN more = 1 .. n + 1
      /\ more[n + 1] = r
      /\ \A i \in 1 .. n : more[i] = recs[i]
  BY <1>1
<1>3. Newest(more, base) = r.from /\ NewestEof(more, beof) = r.eof
  BY <1>2 DEF Newest, NewestEof
<1>4. \A i \in 1 .. n + 1 : i \in 1 .. n \/ i = n + 1
  BY <1>2
<1>5. \A i \in DOMAIN more : \A g \in more[i].from : g < f
  BY <1>2, <1>4 DEF Charges
<1>6. ASSUME NEW i \in DOMAIN more
      PROVE  ChargedRecord(more[i], D, IF i = 1 THEN base ELSE more[i - 1].from,
                           IF i = 1 THEN beof ELSE more[i - 1].eof)
  <2>1. CASE i \in 1 .. n
    <3>1. more[i] = recs[i] /\ (i # 1 => i - 1 \in 1 .. n)
      BY <1>2, <2>1
    <3>2. i # 1 => more[i - 1] = recs[i - 1]
      BY <1>2, <3>1
    <3>3. ChargedRecord(recs[i], D, IF i = 1 THEN base ELSE recs[i - 1].from,
                        IF i = 1 THEN beof ELSE recs[i - 1].eof)
      BY <1>2, <2>1 DEF Charges
    <3> QED
      BY <3>1, <3>2, <3>3
  <2>2. CASE i = n + 1
    <3>1. /\ Newest(recs, base) = IF i = 1 THEN base ELSE more[i - 1].from
          /\ NewestEof(recs, beof) = IF i = 1 THEN beof ELSE more[i - 1].eof
      <4>1. CASE n = 0
        BY <1>1, <1>2, <2>2, <4>1 DEF Newest, NewestEof
      <4>2. CASE n # 0
        <5>1. i # 1 /\ i - 1 = n /\ n \in 1 .. n /\ recs # << >>
          BY <1>1, <1>2, <2>2, <4>2
        <5> QED
          BY <1>1, <1>2, <5>1 DEF Newest, NewestEof
      <4> QED
        BY <4>1, <4>2
    <3> QED
      BY <1>2, <2>2, <3>1
  <2> QED
    BY <1>2, <1>4, <2>1, <2>2
<1>7. \A g \in D : g \in Nat /\ g <= f
  BY DEF Charges
<1> QED
  BY <1>3, <1>5, <1>6, <1>7 DEF Charges

\* The frame the packet's payload goes to: a toggled FID ends the frame being
\* assembled without EOF.
LEMMA AssignedCharged ==
  ASSUME NEW a, NEW f \in Nat, NEW base \in SUBSET Nat, NEW beof \in BOOLEAN, NEW D,
         Walked(a, f, base), Charges(a.s.saw_err, a.recs, f, base, beof, D),
         NEW p, PacketOf(p, f), NEW c, c = Assigned(a, p)
  PROVE  c \in Acc /\ Charges(c.s.saw_err, c.recs, f, base, beof, D)
<1>1. a \in Acc /\ a.s \in FrameState /\ a.recs \in Seq(FrameRecord)
  BY DEF Walked, Acc
<1>2. p \in PacketType /\ p.fid = f % 2
  BY DEF PacketOf
<1>3. CASE ~a.s.active
  <2>1. c = StartFrame(a, p)
    BY <1>3 DEF Assigned
  <2>2. c \in Acc /\ c.recs = a.recs
    BY <1>1, <1>2, <2>1, StartIs
  <2>3. c.s.saw_err = a.s.saw_err
    BY <1>1, <1>2, <2>1, StartIs
  <2> QED
    BY <2>2, <2>3
<1>4. CASE a.s.active /\ p.fid # a.s.cur_fid
  <2>1. PICK e : e = EmitFrame(a, FALSE)
    OBVIOUS
  <2>2. PICK r : r = Record(a.s, FALSE)
    OBVIOUS
  <2>3. /\ e \in Acc /\ e.s.saw_err = FALSE
        /\ e.recs = Append(a.recs, r) /\ r \in FrameRecord
    BY <1>1, <2>1, <2>2, EmitIs
  <2>4. r.eof = FALSE /\ r.from = a.s.from
    BY <2>2 DEF Record
  <2>5. \A g \in r.from : g < f
    <3> SUFFICES ASSUME NEW g \in a.s.from PROVE g < f
      BY <2>4
    <3>1. g % 2 = a.s.cur_fid /\ g <= f /\ g \in Nat
      BY <1>1 DEF Walked, Assembling, FrameState
    <3>2. g # f
      BY <1>2, <1>4, <3>1
    <3> QED
      BY <3>1, <3>2
  <2>6. a.s.saw_err \in BOOLEAN
    BY <1>1 DEF FrameState
  <2>7. ChargedRecord(r, D, Newest(a.recs, base), NewestEof(a.recs, beof))
    BY <2>4 DEF ChargedRecord
  <2>8. Charges(FALSE, e.recs, f, base, beof, D)
    BY <1>1, <2>3, <2>4, <2>5, <2>6, <2>7, ChargesAppend
  <2>9. c = StartFrame(e, p)
    BY <1>4, <2>1 DEF Assigned
  <2>12. e \in Acc
    BY <2>3
  <2>10. c \in Acc /\ c.recs = e.recs
    BY <1>2, <2>9, <2>12, StartIs
  <2>11. c.s.saw_err = e.s.saw_err
    BY <1>2, <2>9, <2>12, StartIs
  <2> QED
    BY <2>3, <2>8, <2>10, <2>11
<1>5. CASE a.s.active /\ p.fid = a.s.cur_fid
  <2>1. c = a
    BY <1>5 DEF Assigned
  <2> QED
    BY <1>1, <2>1
<1>6. a.s.active \in BOOLEAN
  BY <1>1 DEF FrameState
<1> QED
  BY <1>3, <1>4, <1>5, <1>6

\* One packet of an URB.
LEMMA PacketCharged ==
  ASSUME NEW n \in Nat, NEW fate \in Fate, NEW base \in SUBSET Nat, NEW beof \in BOOLEAN,
         NEW D, NEW a, Walked(a, FrameOf(n), base),
         Charges(a.s.saw_err, a.recs, FrameOf(n), base, beof, D),
         NEW p, p = Packet(n, fate),
         NEW b, b = ParsePacket(a, p),
         NEW m, m = IF fate = "empty" THEN n ELSE n + 1,
         NEW bad \in BOOLEAN, bad <=> fate \notin {"ok", "empty"}
  PROVE  Charges(b.s.saw_err, b.recs, FrameOf(m), base, beof, Struck(D, FrameOf(n), bad))
<1>0. PICK f : f = FrameOf(n)
  OBVIOUS
<1>1. /\ f \in Nat
      /\ FrameOf(n + 1) = IF n % FRAME_PKTS = FRAME_PKTS - 1 THEN f + 1 ELSE f
  BY <1>0, NextFrame DEF FrameOf
<1>2. /\ p \in PacketType
      /\ p.frame = f
      /\ p.fid = p.frame % 2
  BY <1>0, PacketIs DEF FrameOf
<1>3. /\ p.eof <=> n % FRAME_PKTS = FRAME_PKTS - 1
      /\ fate = "empty" => ~p.data /\ ~p.status
      /\ p.err => p.data
      /\ p.status \/ p.err <=> bad
  BY PacketIs
<1>4. PacketOf(p, f) /\ p.status \in BOOLEAN /\ p.err \in BOOLEAN
  BY <1>2 DEF PacketOf, PacketType
<1>5. a \in Acc /\ a.s \in FrameState /\ a.recs \in Seq(FrameRecord) /\ Walked(a, f, base)
  BY <1>0 DEF Walked, Acc
<1>6. PICK d : d = Descriptor(a, p)
  OBVIOUS
<1>7. d \in Acc /\ d.recs = a.recs /\ (d.s.saw_err <=> a.s.saw_err \/ p.status)
  BY <1>2, <1>5, <1>6, DescriptorIs
<1>8. Walked(d, f, base)
  BY <1>1, <1>2, <1>5, <1>6, DescriptorWalked
<1>9. a.s.saw_err \in BOOLEAN /\ d.s.saw_err \in BOOLEAN
  BY <1>5, <1>7 DEF Acc, FrameState
<1>10. PICK D1 : D1 = Struck(D, f, p.status)
  OBVIOUS
<1>11. Charges(d.s.saw_err, d.recs, f, base, beof, D1)
  <2>1. Charges(a.s.saw_err \/ p.status, a.recs, f, base, beof, D1)
    BY <1>0, <1>1, <1>4, <1>5, <1>9, <1>10, ChargesMore
  <2>2. d.s.saw_err = (a.s.saw_err \/ p.status)
    BY <1>4, <1>7, <1>9
  <2> QED
    BY <1>7, <2>1, <2>2
<1>12. d.recs \in Seq(FrameRecord)
  BY <1>5, <1>7
<1>13. CASE ~p.data
  <2>1. b = d
    BY <1>6, <1>13 DEF ParsePacket
  <2>2. D1 = Struck(D, f, bad)
    BY <1>3, <1>10, <1>13 DEF Struck
  <2>3. Charges(d.s.saw_err, d.recs, f + 1, base, beof, D1)
    BY <1>1, <1>9, <1>11, <1>12, ChargesOver
  <2>4. FrameOf(m) = f \/ FrameOf(m) = f + 1
    BY <1>0, <1>1
  <2> QED
    BY <1>0, <1>11, <2>1, <2>2, <2>3, <2>4
<1>14. CASE p.data
  <2>0. m = n + 1
    BY <1>3, <1>14
  <2>1. PICK c : c = Assigned(d, p)
    OBVIOUS
  <2>2. PICK q : q = AddPayload(c, p)
    OBVIOUS
  <2>3. c \in Acc /\ Charges(c.s.saw_err, c.recs, f, base, beof, D1)
    BY <1>1, <1>4, <1>8, <1>11, <2>1, AssignedCharged
  <2>4. q \in Acc /\ q.recs = c.recs /\ (q.s.saw_err <=> c.s.saw_err \/ p.err)
    BY <1>2, <2>2, <2>3, AddPayloadIs
  <2>5. /\ c.s.saw_err \in BOOLEAN /\ q.s.saw_err \in BOOLEAN
        /\ c.recs \in Seq(FrameRecord)
        /\ q.s \in FrameState
    BY <2>3, <2>4 DEF Acc, FrameState
  <2>6. PICK D2 : D2 = Struck(D1, f, p.err)
    OBVIOUS
  <2>7. Charges(q.s.saw_err, q.recs, f, base, beof, D2)
    <3>1. Charges(c.s.saw_err \/ p.err, c.recs, f, base, beof, D2)
      BY <1>1, <1>4, <2>3, <2>5, <2>6, ChargesMore
    <3>2. q.s.saw_err = (c.s.saw_err \/ p.err)
      BY <1>4, <2>4, <2>5
    <3> QED
      BY <2>4, <3>1, <3>2
  <2>8. D2 = Struck(D, f, bad)
    BY <1>3, <1>10, <2>6 DEF Struck
  <2>9. CASE ~p.eof
    <3>1. b = q
      BY <1>6, <1>14, <2>1, <2>2, <2>9 DEF ParsePacket
    <3>2. FrameOf(m) = f
      BY <1>1, <1>3, <2>0, <2>9
    <3> QED
      BY <1>0, <2>7, <2>8, <3>1, <3>2
  <2>10. CASE p.eof
    <3>1. b = EmitFrame(q, TRUE)
      BY <1>6, <1>14, <2>1, <2>2, <2>10 DEF ParsePacket
    <3>2. FrameOf(m) = f + 1
      BY <1>1, <1>3, <2>0, <2>10
    <3>3. PICK r : r = Record(q.s, TRUE)
      OBVIOUS
    <3>4. b.s.saw_err = FALSE /\ b.recs = Append(q.recs, r) /\ r \in FrameRecord
      BY <2>4, <3>1, <3>3, EmitIs
    <3>5. r.eof = TRUE /\ r.from = q.s.from /\ r.errored = q.s.saw_err
      BY <2>5, <3>3 DEF Record
    <3>6. Walked(q, f, base) /\ f \in q.s.from
      BY <1>1, <1>4, <1>8, <2>1, <2>2, PayloadWalked
    <3>7. \A g \in r.from : g \in Nat /\ g <= f
      BY <2>5, <3>5, <3>6 DEF Walked, Assembling, FrameState
    <3>8. \A g \in r.from : g < f + 1
      BY <1>1, <3>7
    <3>9. \A g \in D2 : g \in Nat /\ g <= f
      BY <2>7 DEF Charges
    <3>10. ~ Hit(D2, r.from)
      BY <1>1, <3>5, <3>6, <3>9 DEF Hit
    <3>11. ChargedRecord(r, D2, Newest(q.recs, base), NewestEof(q.recs, beof))
      BY <2>7, <3>5, <3>6, <3>9 DEF ChargedRecord, Charges, Hit
    <3>12. Charges(q.s.saw_err, q.recs, f + 1, base, beof, D2)
      BY <1>1, <2>4, <2>5, <2>7, ChargesOver
    <3>13. Charges(FALSE, b.recs, f + 1, base, beof, D2)
      <4>1. PICK f1 : f1 = f + 1
        OBVIOUS
      <4>2. PICK recs : recs = q.recs
        OBVIOUS
      <4>3. f1 \in Nat /\ recs \in Seq(FrameRecord)
        BY <1>1, <2>4, <2>5, <4>1, <4>2
      <4>4. /\ q.s.saw_err \in BOOLEAN /\ Charges(q.s.saw_err, recs, f1, base, beof, D2)
            /\ r \in FrameRecord /\ \A g \in r.from : g < f1
            /\ ChargedRecord(r, D2, Newest(recs, base), NewestEof(recs, beof))
            /\ b.recs = Append(recs, r)
        BY <2>5, <3>4, <3>8, <3>11, <3>12, <4>1, <4>2
      <4>5. Hit(D2, r.from) => ~r.eof
        BY <3>10
      <4>6. Charges(FALSE, b.recs, f1, base, beof, D2)
        BY <4>3, <4>4, <4>5, ChargesAppend
      <4> QED
        BY <4>1, <4>6
    <3> QED
      BY <1>0, <2>8, <3>2, <3>4, <3>13
  <2> QED
    BY <2>9, <2>10
<1> QED
  BY <1>2, <1>13, <1>14

-----------------------------------------------------------------------------
(* The walk over the packets of an URB. *)

\* The loop is the recursion it is written as.
LEMMA WalkIs ==
  ASSUME NEW s, NEW pkts, Len(pkts) \in Nat
  PROVE  /\ Walk(s, pkts)[0] = [s |-> s, recs |-> << >>]
         /\ \A i \in 1 .. Len(pkts) :
              Walk(s, pkts)[i] = ParsePacket(Walk(s, pkts)[i - 1], pkts[i])
<1> DEFINE start == [s |-> s, recs |-> << >>]
           Loop(acc, k) ==
             acc = [i \in 0 .. k |->
                      IF i = 0 THEN start ELSE ParsePacket(acc[i - 1], pkts[i])]
           S == {k \in Nat : \E acc : Loop(acc, k)}
<1> HIDE DEF start
<1>1. 0 \in S
  <2> DEFINE g == [i \in 0 .. 0 |-> start]
  <2>1. Loop(g, 0)
    OBVIOUS
  <2> QED
    BY <2>1
<1>2. ASSUME NEW k \in Nat, k \in S
      PROVE  k + 1 \in S
  <2>1. PICK acc : Loop(acc, k)
    BY <1>2
  <2> DEFINE g == [i \in 0 .. k + 1 |->
                     IF i = 0 THEN start ELSE ParsePacket(acc[i - 1], pkts[i])]
  <2>2. \A i \in 0 .. k : g[i] = acc[i]
    <3>1. \A i \in 0 .. k : acc[i] = IF i = 0 THEN start ELSE ParsePacket(acc[i - 1], pkts[i])
      BY <2>1
    <3>2. \A i \in 0 .. k : i \in 0 .. k + 1
      OBVIOUS
    <3> QED
      BY <3>1, <3>2
  <2>3. \A i \in 0 .. k + 1 : i # 0 => g[i - 1] = acc[i - 1]
    <3>1. \A i \in 0 .. k + 1 : i # 0 => i - 1 \in 0 .. k
      OBVIOUS
    <3> HIDE DEF g
    <3> QED
      BY <2>2, <3>1
  <2>4. Loop(g, k + 1)
    <3>1. \A i \in 0 .. k + 1 :
            (IF i = 0 THEN start ELSE ParsePacket(acc[i - 1], pkts[i])) =
            (IF i = 0 THEN start ELSE ParsePacket(g[i - 1], pkts[i]))
      <4> HIDE DEF g
      <4> QED
        BY <2>3
    <3>2. g = [i \in 0 .. k + 1 |->
                 IF i = 0 THEN start ELSE ParsePacket(acc[i - 1], pkts[i])]
      OBVIOUS
    <3> HIDE DEF g
    <3> QED
      BY <3>1, <3>2
  <2> HIDE DEF g, Loop
  <2> QED
    BY <2>4
<1>3. \E acc : Loop(acc, Len(pkts))
  <2> HIDE DEF S
  <2>1. Len(pkts) \in S
    BY <1>1, <1>2, EveryNumber
  <2> QED
    BY <2>1 DEF S
<1>4. Walk(s, pkts) = CHOOSE acc : Loop(acc, Len(pkts))
  BY DEF Walk, start
<1>5. Loop(Walk(s, pkts), Len(pkts))
  <2> HIDE DEF Loop
  <2> QED
    BY <1>3, <1>4
<1> DEFINE w == Walk(s, pkts)
<1>6. w = [i \in 0 .. Len(pkts) |->
             IF i = 0 THEN start ELSE ParsePacket(w[i - 1], pkts[i])]
  BY <1>5
<1> HIDE DEF w
<1>7. \A i \in 0 .. Len(pkts) :
        w[i] = IF i = 0 THEN start ELSE ParsePacket(w[i - 1], pkts[i])
  BY <1>6
<1>8. \A i \in 1 .. Len(pkts) : i \in 0 .. Len(pkts) /\ i # 0
  OBVIOUS
<1>9. 0 \in 0 .. Len(pkts)
  OBVIOUS
<1> QED
  BY <1>7, <1>8, <1>9 DEF w, start

\* How many packets of the camera the first k slots take.
LEMMA RealIs ==
  ASSUME NEW n \in Nat, NEW fates \in [1 .. n -> Fate]
  PROVE  /\ Real(fates, 0) = 0
         /\ \A k \in 0 .. n : Real(fates, k) \in Nat
         /\ \A k \in 1 .. n :
              Real(fates, k) =
                IF fates[k] = "empty" THEN Real(fates, k - 1) ELSE Real(fates, k - 1) + 1
<1> DEFINE R(k) == {j \in 1 .. k : fates[j] # "empty"}
<1>1. \A k \in 0 .. n : IsFiniteSet(R(k))
  <2> SUFFICES ASSUME NEW k \in 0 .. n PROVE IsFiniteSet(R(k))
    OBVIOUS
  <2>1. IsFiniteSet(1 .. k)
    BY FS_Interval
  <2>2. R(k) \in SUBSET (1 .. k)
    OBVIOUS
  <2> QED
    BY <2>1, <2>2, FS_Subset
<1>2. R(0) = {}
  OBVIOUS
<1>3. ASSUME NEW k \in 1 .. n
      PROVE  /\ k - 1 \in 0 .. n /\ k \notin R(k - 1)
             /\ R(k) = IF fates[k] = "empty" THEN R(k - 1) ELSE R(k - 1) \cup {k}
  <2>1. 1 .. k = (1 .. k - 1) \cup {k} /\ k \notin 1 .. k - 1 /\ k - 1 \in 0 .. n
    OBVIOUS
  <2> QED
    BY <2>1
<1>4. \A k : Real(fates, k) = Cardinality(R(k))
  BY DEF Real
<1> HIDE DEF R
<1>5. \A k \in 0 .. n : Real(fates, k) \in Nat
  BY <1>1, <1>4, FS_CardinalityType
<1>6. Real(fates, 0) = 0
  BY <1>2, <1>4, FS_EmptySet
<1>7. ASSUME NEW k \in 1 .. n
      PROVE  Real(fates, k) =
               IF fates[k] = "empty" THEN Real(fates, k - 1) ELSE Real(fates, k - 1) + 1
  <2>1. CASE fates[k] = "empty"
    <3>1. R(k) = R(k - 1)
      BY <1>3, <2>1
    <3> QED
      BY <1>4, <2>1, <3>1
  <2>2. CASE fates[k] # "empty"
    <3>1. R(k) = R(k - 1) \cup {k} /\ k \notin R(k - 1) /\ k - 1 \in 0 .. n
      BY <1>3, <2>2
    <3>2. Cardinality(R(k - 1) \cup {k}) = Cardinality(R(k - 1)) + 1
      BY <1>1, <3>1, FS_AddElement
    <3>3. Cardinality(R(k)) = Cardinality(R(k - 1)) + 1
      BY <3>1, <3>2
    <3> QED
      BY <1>4, <2>2, <3>3
  <2> QED
    BY <2>1, <2>2
<1> QED
  BY <1>5, <1>6, <1>7

\* A frame none of whose packets was lost or damaged is in a record its EOF
\* ended, if the camera has passed it in the first i packets.
Accounted(w, fates, pkts, i) ==
  \A g \in Nat :
    g < FrameOf(sent + Real(fates, i)) =>
      \/ g < FrameOf(sent)
      \/ EndedIn(g, w[i].recs)
      \/ \E j \in 1 .. i : fates[j] \notin {"ok", "empty"} /\ pkts[j].frame = g

\* The camera frames damaged before the URB or by one of its first i packets.
DamagedBy(fates, pkts, i) ==
  damaged \cup {pkts[j].frame : j \in {k \in 1 .. i : fates[k] \notin {"ok", "empty"}}}

\* So does the walk over all packets of a URB.
LEMMA UrbWalked ==
  ASSUME NEW n \in Nat, NEW fates \in [1 .. n -> Fate], sent \in Nat,
         NEW base \in SUBSET Nat, NEW pkts, pkts = Packets(fates),
         NEW w, w = Walk(st, pkts), Walked([s |-> st, recs |-> << >>], FrameOf(sent), base),
         NEW beof \in BOOLEAN, Charges(st.saw_err, << >>, FrameOf(sent), base, beof, damaged)
  PROVE  /\ Len(pkts) = n /\ DOMAIN pkts = 1 .. n
         /\ Walked(w[n], FrameOf(sent + Real(fates, n)), base)
         /\ Accounted(w, fates, pkts, n)
         /\ Charges(w[n].s.saw_err, w[n].recs, FrameOf(sent + Real(fates, n)), base, beof,
                    DamagedBy(fates, pkts, n))
<1>1. Len(pkts) = n /\ DOMAIN pkts = 1 .. n
  BY DEF Packets
<1>2. \A i \in 1 .. n : pkts[i] = Packet(sent + Real(fates, i - 1), fates[i])
  BY DEF Packets
<1>3. /\ w[0] = [s |-> st, recs |-> << >>]
      /\ \A i \in 1 .. n : w[i] = ParsePacket(w[i - 1], pkts[i])
  BY <1>1, WalkIs
<1>4. /\ Real(fates, 0) = 0
      /\ \A k \in 0 .. n : Real(fates, k) \in Nat
      /\ \A k \in 1 .. n :
           Real(fates, k) =
             IF fates[k] = "empty" THEN Real(fates, k - 1) ELSE Real(fates, k - 1) + 1
  BY RealIs
<1> DEFINE Good(i) == /\ Walked(w[i], FrameOf(sent + Real(fates, i)), base)
                      /\ Accounted(w, fates, pkts, i)
                      /\ Charges(w[i].s.saw_err, w[i].recs, FrameOf(sent + Real(fates, i)),
                                 base, beof, DamagedBy(fates, pkts, i))
           S == {i \in Nat : i <= n => Good(i)}
<1>5. Good(0)
  <2>1. sent + Real(fates, 0) = sent
    BY <1>4
  <2>2. DamagedBy(fates, pkts, 0) = damaged
    BY DEF DamagedBy
  <2>3. w[0].s.saw_err = st.saw_err /\ w[0].recs = << >>
    BY <1>3
  <2>4. Charges(w[0].s.saw_err, w[0].recs, FrameOf(sent + Real(fates, 0)), base, beof,
                DamagedBy(fates, pkts, 0))
    BY <2>1, <2>2, <2>3
  <2> QED
    BY <1>3, <2>1, <2>4 DEF Accounted
<1>6. ASSUME NEW k \in Nat, k + 1 <= n, Good(k)
      PROVE  Good(k + 1)
  <2>1. k \in 0 .. n /\ k + 1 \in 1 .. n /\ k + 1 - 1 = k
    BY <1>6
  <2>2. PICK x : x = sent + Real(fates, k)
    OBVIOUS
  <2>3. x \in Nat
    BY <1>4, <2>1, <2>2
  <2>4. PICK fate : fate = fates[k + 1]
    OBVIOUS
  <2>5. fate \in Fate
    BY <2>1, <2>4
  <2>6. PICK p : p = pkts[k + 1]
    OBVIOUS
  <2>7. p = Packet(x, fate)
    BY <1>2, <2>1, <2>2, <2>4, <2>6
  <2>8. PICK a : a = w[k]
    OBVIOUS
  <2>9. PICK b : b = w[k + 1]
    OBVIOUS
  <2>10. b = ParsePacket(a, p)
    BY <1>3, <2>1, <2>6, <2>8, <2>9
  <2>11. PICK m : m = IF fate = "empty" THEN x ELSE x + 1
    OBVIOUS
  <2>12. sent + Real(fates, k + 1) = m
    BY <1>4, <2>1, <2>2, <2>4, <2>11
  <2>13. Walked(a, FrameOf(x), base)
    BY <1>6, <2>2, <2>8
  <2>14. /\ Walked(b, FrameOf(m), base)
         /\ Grows(a.recs, b.recs)
         /\ x % FRAME_PKTS = FRAME_PKTS - 1 /\ fate = "ok" => EndedIn(FrameOf(x), b.recs)
    BY <2>3, <2>5, <2>7, <2>10, <2>11, <2>13, PacketWalked
  <2>15. Accounted(w, fates, pkts, k + 1)
    <3> SUFFICES ASSUME NEW g \in Nat, g < FrameOf(m)
                 PROVE  \/ g < FrameOf(sent)
                        \/ EndedIn(g, b.recs)
                        \/ \E j \in 1 .. k + 1 :
                             fates[j] \notin {"ok", "empty"} /\ pkts[j].frame = g
      BY <2>9, <2>12 DEF Accounted
    <3>1. CASE g < FrameOf(x)
      <4>1. \/ g < FrameOf(sent)
            \/ EndedIn(g, a.recs)
            \/ \E j \in 1 .. k : fates[j] \notin {"ok", "empty"} /\ pkts[j].frame = g
        BY <1>6, <2>2, <2>8, <3>1 DEF Accounted
      <4>2. EndedIn(g, a.recs) => EndedIn(g, b.recs)
        BY <2>14 DEF EndedIn, Grows
      <4>3. \A j \in 1 .. k : j \in 1 .. k + 1
        OBVIOUS
      <4> QED
        BY <4>1, <4>2, <4>3
    <3>2. CASE ~(g < FrameOf(x))
      <4>1. /\ FrameOf(x) \in Nat
            /\ FrameOf(x + 1) = IF x % FRAME_PKTS = FRAME_PKTS - 1
                                THEN FrameOf(x) + 1 ELSE FrameOf(x)
        BY <2>3, NextFrame DEF FrameOf
      <4>2. fate # "empty"
        BY <2>11, <3>2
      <4>3. m = x + 1
        BY <2>11, <4>2
      <4>4. x % FRAME_PKTS = FRAME_PKTS - 1 /\ g = FrameOf(x)
        BY <3>2, <4>1, <4>3
      <4>5. CASE fate = "ok"
        BY <2>14, <4>4, <4>5
      <4>6. CASE fate # "ok"
        <5>1. p.frame = FrameOf(x)
          BY <2>3, <2>5, <2>7, PacketIs DEF FrameOf
        <5> QED
          BY <2>1, <2>4, <2>6, <4>2, <4>4, <4>6, <5>1
      <4> QED
        BY <4>5, <4>6
    <3> QED
      BY <3>1, <3>2
  <2>16. PICK bad \in BOOLEAN : bad <=> fate \notin {"ok", "empty"}
    OBVIOUS
  <2>17. DamagedBy(fates, pkts, k + 1) = Struck(DamagedBy(fates, pkts, k), FrameOf(x), bad)
    <3>1. 1 .. k + 1 = (1 .. k) \cup {k + 1}
      BY <2>1
    <3>2. pkts[k + 1].frame = FrameOf(x)
      BY <2>3, <2>5, <2>6, <2>7, PacketIs DEF FrameOf
    <3> QED
      BY <2>4, <2>16, <3>1, <3>2 DEF DamagedBy, Struck
  <2>18. Charges(a.s.saw_err, a.recs, FrameOf(x), base, beof, DamagedBy(fates, pkts, k))
    BY <1>6, <2>2, <2>8
  <2>19. PICK D : D = DamagedBy(fates, pkts, k)
    OBVIOUS
  <2>20. Charges(a.s.saw_err, a.recs, FrameOf(x), base, beof, D)
    BY <2>18, <2>19
  <2>21. Charges(b.s.saw_err, b.recs, FrameOf(m), base, beof, Struck(D, FrameOf(x), bad))
    BY <2>3, <2>5, <2>7, <2>10, <2>11, <2>13, <2>16, <2>20, PacketCharged
  <2> QED
    BY <2>9, <2>12, <2>14, <2>15, <2>17, <2>19, <2>21
<1> HIDE DEF Good
<1>7. \A k \in Nat : k \in S => k + 1 \in S
  BY <1>6
<1>8. 0 \in S
  BY <1>5
<1> HIDE DEF S
<1>9. n \in S
  BY <1>7, <1>8, EveryNumber
<1>10. Good(n)
  BY <1>9 DEF S
<1> QED
  BY <1>1, <1>10 DEF Good

-----------------------------------------------------------------------------
(* The stream over its URBs. *)

FrameInv ==
  /\ sent \in Nat
  /\ wire \in Nat
  /\ prior \in [from : SUBSET Nat, eof : BOOLEAN]
  /\ Walked([s |-> st, recs |-> out], FrameOf(sent), prior.from)
  /\ Charges(st.saw_err, out, FrameOf(sent), prior.from, prior.eof, damaged)
  /\ IntactFrameReported

\* A stream that has seen no packet.
LEMMA InitFrames == Init => FrameInv
<1> SUFFICES ASSUME Init PROVE FrameInv
  OBVIOUS
<1>1. /\ st = NoState /\ out = << >> /\ wire = 0 /\ damaged = {}
      /\ prior.from = {} /\ prior.eof = TRUE /\ prior \in [from : SUBSET Nat, eof : BOOLEAN]
      /\ sent \in 0 .. FRAME_PKTS - 1
  BY DEF Init
<1>2. FRAME_PKTS \in Nat \ {0} /\ sent \in Nat
  BY <1>1, CameraAssumption
<1>3. FrameOf(sent) = 0
  <2>1. sent = 0 * FRAME_PKTS + sent
    BY <1>2
  <2>2. sent \div FRAME_PKTS = 0
    BY <1>1, <1>2, <2>1, DivisionIs
  <2> QED
    BY <2>2 DEF FrameOf
<1> DEFINE a == [s |-> st, recs |-> << >>]
<1>4. NoState \in FrameState
  BY DEF NoState, FrameState
<1>5. a \in Acc
  BY <1>1, <1>4 DEF Acc
<1>6. a.s = NoState /\ a.recs = << >> /\ DOMAIN a.recs = {}
  BY <1>1
<1> HIDE DEF a
<1>7. Assembling(NoState, 0)
  BY DEF Assembling, NoState
<1>8. Follows(NoState, {}, 0)
  BY DEF Follows
<1>9. Newest(a.recs, {}) = {} /\ GoodRecords(a.recs) /\ InOrder(a.recs, {})
  BY <1>6 DEF Newest, GoodRecords, InOrder
<1>10. Walked(a, 0, {})
  BY <1>5, <1>6, <1>7, <1>8, <1>9 DEF Walked
<1>11. IntactFrameReported
  BY <1>3 DEF IntactFrameReported, FrameOf
<1>12. Charges(FALSE, << >>, 0, {}, TRUE, {})
  BY DEF Charges, Newest, Hit
<1>13. st.saw_err = FALSE
  BY <1>1 DEF NoState
<1> QED
  BY <1>1, <1>2, <1>3, <1>10, <1>11, <1>12, <1>13 DEF FrameInv, a

\* A URB's completion keeps the frames' invariant.
LEMMA CompleteFrames ==
  ASSUME FrameInv, NEW n \in Nat, NEW fates \in [1 .. n -> Fate], VideoComplete(fates)
  PROVE  FrameInv'
<1>1. PICK pkts : pkts = Packets(fates)
  OBVIOUS
<1>2. PICK w : w = Walk(st, pkts)
  OBVIOUS
<1>3. PICK base : base = Newest(out, prior.from)
  OBVIOUS
<1>19. PICK beof : beof = NewestEof(out, prior.eof)
  OBVIOUS
<1>4. /\ sent \in Nat /\ wire \in Nat
      /\ prior \in [from : SUBSET Nat, eof : BOOLEAN]
      /\ prior.from \in SUBSET Nat /\ prior.eof \in BOOLEAN
      /\ Walked([s |-> st, recs |-> out], FrameOf(sent), prior.from)
  BY DEF FrameInv
<1>5. st \in FrameState /\ out \in Seq(FrameRecord)
  <2>1. [s |-> st, recs |-> out] \in Acc
    BY <1>4 DEF Walked
  <2> QED
    BY <2>1 DEF Acc
<1>6. base \in SUBSET Nat /\ beof \in BOOLEAN
  <2>1. base \in SUBSET Nat
    BY <1>3, <1>4, <1>5, NewestIs
  <2>2. CASE out = << >>
    BY <1>4, <1>19, <2>1, <2>2 DEF NewestEof
  <2>3. CASE out # << >>
    <3>1. out[Len(out)] \in FrameRecord
      BY <1>5, <2>3
    <3>2. out[Len(out)].eof \in BOOLEAN
      BY <3>1 DEF FrameRecord
    <3> QED
      BY <1>19, <2>1, <2>3, <3>2 DEF NewestEof
  <2> QED
    BY <2>2, <2>3
<1>7. Walked([s |-> st, recs |-> << >>], FrameOf(sent), base)
  <2>1. Assembling(st, FrameOf(sent)) /\ Follows(st, base, FrameOf(sent))
    BY <1>3, <1>4 DEF Walked
  <2>2. [s |-> st, recs |-> << >>] \in Acc
    BY <1>5 DEF Acc
  <2>3. GoodRecords(<< >>) /\ InOrder(<< >>, base) /\ Newest(<< >>, base) = base
    BY DEF GoodRecords, InOrder, Newest
  <2> QED
    BY <2>1, <2>2, <2>3 DEF Walked
<1>20. Charges(st.saw_err, << >>, FrameOf(sent), base, beof, damaged)
  <2>1. Newest(<< >>, base) = base /\ NewestEof(<< >>, beof) = beof
    BY DEF Newest, NewestEof
  <2>2. /\ \A g \in damaged : g \in Nat /\ g <= FrameOf(sent)
        /\ \A l \in base : l < FrameOf(sent)
        /\ st.saw_err => Hit(damaged, base)
        /\ Hit(damaged, base) /\ beof => st.saw_err
    BY <1>3, <1>19 DEF FrameInv, Charges
  <2> QED
    BY <2>1, <2>2 DEF Charges
<1>8. /\ Len(pkts) = n /\ DOMAIN pkts = 1 .. n
      /\ Walked(w[n], FrameOf(sent + Real(fates, n)), base)
      /\ Accounted(w, fates, pkts, n)
      /\ Charges(w[n].s.saw_err, w[n].recs, FrameOf(sent + Real(fates, n)), base, beof,
                 DamagedBy(fates, pkts, n))
  BY <1>1, <1>2, <1>4, <1>6, <1>7, <1>20, UrbWalked
<1>9. Len(fates) = n /\ DOMAIN fates = 1 .. n
  OBVIOUS
<1>10. PICK a : a = ParseUrb(st, pkts)
  OBVIOUS
<1>11. a = w[n]
  BY <1>2, <1>8, <1>10 DEF ParseUrb
<1>12. /\ st' = a.s
       /\ out' = a.recs
       /\ wire' = IF a.recs = << >> THEN wire ELSE Last(a.recs).packets
       /\ sent' = sent + Real(fates, n)
       /\ damaged' = damaged \cup
            {pkts[i].frame : i \in {j \in DOMAIN fates : fates[j] \notin {"ok", "empty"}}}
       /\ ended' = ended \cup
            UNION {a.recs[i].from : i \in {j \in DOMAIN a.recs : a.recs[j].eof}}
       /\ prior' = Before(Len(out) + 1)
  BY <1>1, <1>9, <1>10 DEF VideoComplete
<1>13. prior'.from = base /\ prior'.eof = beof /\ prior' \in [from : SUBSET Nat, eof : BOOLEAN]
  <2>1. CASE out = << >>
    BY <1>3, <1>4, <1>12, <1>19, <2>1 DEF Newest, NewestEof, Before
  <2>2. CASE out # << >>
    <3>1. Len(out) \in Nat /\ Len(out) + 1 # 1 /\ Len(out) + 1 - 1 = Len(out)
      BY <1>5, <2>2
    <3>2. prior' = [from |-> out[Len(out)].from, eof |-> out[Len(out)].eof]
      BY <1>12, <3>1 DEF Before
    <3>3. prior' = [from |-> base, eof |-> beof]
      BY <1>3, <1>19, <2>2, <3>2 DEF Newest, NewestEof
    <3> QED
      BY <1>6, <3>3
  <2> QED
    BY <2>1, <2>2
<1>14. sent' \in Nat
  <2>1. Real(fates, n) \in Nat
    BY RealIs
  <2> QED
    BY <1>4, <1>12, <2>1
<1>15. a \in Acc /\ a.recs \in Seq(FrameRecord)
  BY <1>8, <1>11 DEF Walked, Acc
<1>16. wire' \in Nat
  <2>1. a.recs # << >> => Last(a.recs).packets \in Nat
    BY <1>6, <1>15, NewestIs DEF FrameRecord
  <2> QED
    BY <1>4, <1>12, <2>1
<1>17. Walked([s |-> st', recs |-> out'], FrameOf(sent'), prior'.from)
  <2>1. a = [s |-> a.s, recs |-> a.recs]
    BY <1>15 DEF Acc
  <2> QED
    BY <1>8, <1>11, <1>12, <1>13, <2>1
<1>21. Charges(st'.saw_err, out', FrameOf(sent'), prior'.from, prior'.eof, damaged')
  <2>1. damaged' = DamagedBy(fates, pkts, n)
    BY <1>9, <1>12 DEF DamagedBy
  <2> QED
    BY <1>8, <1>11, <1>12, <1>13, <2>1
<1>18. IntactFrameReported'
  <2> SUFFICES ASSUME NEW g \in 0 .. FrameOf(sent') - 1, g \notin damaged'
               PROVE  g \in ended'
    BY DEF IntactFrameReported, FrameOf
  <2>1. FrameOf(sent) \in Nat /\ FrameOf(sent') \in Nat
    BY <1>4, <1>14, NextFrame DEF FrameOf
  <2>2. g \in Nat /\ g < FrameOf(sent + Real(fates, n))
    BY <1>12, <2>1
  <2>3. \/ g < FrameOf(sent)
        \/ EndedIn(g, a.recs)
        \/ \E j \in 1 .. n : fates[j] \notin {"ok", "empty"} /\ pkts[j].frame = g
    BY <1>8, <1>11, <2>2 DEF Accounted
  <2>4. CASE g < FrameOf(sent)
    <3>1. g \in 0 .. (sent \div FRAME_PKTS) - 1
      BY <2>1, <2>2, <2>4 DEF FrameOf
    <3>2. g \in ended
      BY <1>12, <3>1 DEF FrameInv, IntactFrameReported
    <3> QED
      BY <1>12, <3>2
  <2>5. CASE EndedIn(g, a.recs)
    BY <1>12, <2>5 DEF EndedIn
  <2>6. ASSUME NEW j \in 1 .. n, fates[j] \notin {"ok", "empty"}, pkts[j].frame = g
        PROVE  FALSE
    BY <1>9, <1>12, <2>6
  <2> QED
    BY <2>3, <2>4, <2>5, <2>6
<1> QED
  BY <1>13, <1>14, <1>16, <1>17, <1>18, <1>21 DEF FrameInv

\* FrameInv is inductive: it is kept by every URB, whatever became of its
\* packets.
LEMMA FramesInvariant == Spec => []FrameInv
<1>1. FrameInv /\ [Next]_vars => FrameInv'
  <2> SUFFICES ASSUME FrameInv, [Next]_vars PROVE FrameInv'
    OBVIOUS
  <2>1. ASSUME NEW n \in 1 .. URB_PKTS, NEW fates \in [1 .. n -> Fate], VideoComplete(fates)
        PROVE  FrameInv'
    <3>1. n \in Nat
      BY CameraAssumption
    <3> QED
      BY <2>1, <3>1, CompleteFrames
  <2>2. CASE UNCHANGED vars
    <3>1. /\ st' = st /\ out' = out /\ wire' = wire /\ sent' = sent
          /\ damaged' = damaged /\ ended' = ended /\ prior' = prior
      BY <2>2 DEF vars
    <3>2. /\ sent' \in Nat /\ wire' \in Nat
          /\ prior' \in [from : SUBSET Nat, eof : BOOLEAN]
      BY <3>1 DEF FrameInv
    <3>3. Walked([s |-> st', recs |-> out'], FrameOf(sent'), prior'.from)
      BY <3>1 DEF FrameInv
    <3>4. Charges(st'.saw_err, out', FrameOf(sent'), prior'.from, prior'.eof, damaged')
      BY <3>1 DEF FrameInv
    <3>5. IntactFrameReported'
      BY <3>1 DEF FrameInv, IntactFrameReported
    <3> QED
      BY <3>2, <3>3, <3>4, <3>5 DEF FrameInv
  <2> QED
    BY <2>1, <2>2 DEF Next
<1> QED
  BY <1>1, InitFrames, PTL DEF Spec

\* A frame is being assembled exactly when it has packets, every record has
\* one, and the corroborated wire frame is a count (struct uvc_stream_state).
THEOREM FramesTypeCorrect == Spec => []TypeOK
<1>1. FrameInv => TypeOK
  <2> SUFFICES ASSUME FrameInv PROVE TypeOK
    OBVIOUS
  <2>1. [s |-> st, recs |-> out] \in Acc /\ Assembling(st, FrameOf(sent)) /\ GoodRecords(out)
    BY DEF FrameInv, Walked
  <2>2. st \in FrameState
    BY <2>1 DEF Acc
  <2>3. st.cur_fid \in {0, 1} /\ st.cur_err_packets \in Nat /\ st.saw_err \in BOOLEAN
    BY <2>2 DEF FrameState
  <2>4. \A i \in DOMAIN out : out[i].packets > 0
    BY <2>1 DEF GoodRecords, GoodRecord
  <2> QED
    BY <2>1, <2>3, <2>4 DEF TypeOK, FrameInv, Assembling
<1> QED
  BY <1>1, FramesInvariant, PTL

\* A frame reported clean (uvc_emit_frame with errored = 0) holds the packets
\* of exactly one camera frame, however many packets were lost around it.
THEOREM CleanFramesAreWhole == Spec => []CleanFrameIsOneFrame
<1>1. FrameInv => CleanFrameIsOneFrame
  <2> SUFFICES ASSUME FrameInv, NEW i \in DOMAIN out, ~out[i].errored
               PROVE  Cardinality(out[i].from) = 1
    BY DEF CleanFrameIsOneFrame
  <2>1. GoodRecord(out[i])
    BY DEF FrameInv, Walked, GoodRecords
  <2>2. PICK g : out[i].from = {g}
    BY <2>1 DEF GoodRecord
  <2>3. Cardinality({g}) = 1
    BY FS_Singleton
  <2> QED
    BY <2>2, <2>3
<1> QED
  BY <1>1, FramesInvariant, PTL

\* The packets of a camera frame never end up in two consecutive records, of
\* one URB or of two: no frame enters the frame rate or the drop count twice.
THEOREM FramesNotSplit == Spec => []NoFrameSplit
<1>1. FrameInv => NoFrameSplit
  <2> SUFFICES ASSUME FrameInv, NEW i \in DOMAIN out,
                      NEW g \in out[i].from \cap Before(i).from
               PROVE  FALSE
    BY DEF NoFrameSplit
  <2>1. InOrder(out, prior.from) /\ [s |-> st, recs |-> out] \in Acc
    BY DEF FrameInv, Walked
  <2>2. g < g
    <3>1. Before(i).from = IF i = 1 THEN prior.from ELSE out[i - 1].from
      BY DEF Before
    <3> QED
      BY <2>1, <3>1 DEF InOrder
  <2>3. out \in Seq(FrameRecord)
    BY <2>1 DEF Acc
  <2>4. out[i] \in FrameRecord
    BY <2>3
  <2>5. g \in Nat
    BY <2>4 DEF FrameRecord
  <2> QED
    BY <2>2, <2>5
<1> QED
  BY <1>1, FramesInvariant, PTL

\* A record that its EOF ended is errored only if a camera frame was damaged
\* after those of the record before it, up to its own, and errored if one was,
\* unless the record before ended without EOF (saw_err, uvc_emit_frame): an error
\* is neither lost nor inherited, across packets and URBs.
THEOREM ErrorsChargedToOneFrame == Spec => []ErrorsChargedToTheirFrame
<1>1. FrameInv => ErrorsChargedToTheirFrame
  <2> SUFFICES ASSUME FrameInv, NEW i \in DOMAIN out, out[i].eof
               PROVE  /\ out[i].errored => DamagedSince(i) # {}
                      /\ DamagedSince(i) # {} /\ Before(i).eof => out[i].errored
    BY DEF ErrorsChargedToTheirFrame
  <2>1. ChargedRecord(out[i], damaged, IF i = 1 THEN prior.from ELSE out[i - 1].from,
                      IF i = 1 THEN prior.eof ELSE out[i - 1].eof)
    BY DEF FrameInv, Charges
  <2>2. /\ Before(i).from = IF i = 1 THEN prior.from ELSE out[i - 1].from
        /\ Before(i).eof = IF i = 1 THEN prior.eof ELSE out[i - 1].eof
    BY DEF Before
  <2>3. ChargedRecord(out[i], damaged, Before(i).from, Before(i).eof)
    BY <2>1, <2>2
  <2> QED
    BY <2>3 DEF ChargedRecord, DamagedSince
<1> QED
  BY <1>1, FramesInvariant, PTL

\* A camera frame of which every packet arrived intact is in a record that its
\* EOF ended, whatever was lost around it (uvc_parse_frames).
THEOREM IntactFramesReported == Spec => []IntactFrameReported
<1>1. FrameInv => IntactFrameReported
  BY DEF FrameInv
<1> QED
  BY <1>1, FramesInvariant, PTL
=============================================================================
