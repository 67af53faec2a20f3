--------------------------- MODULE CallStash_proofs ---------------------------
(***************************************************************************)
(* The reports of returned calls, for every set of threads, devices and    *)
(* hooked functions, every depth of nesting and every size of the maps.    *)
(***************************************************************************)
EXTENDS CallStash, FiniteSetTheorems, SequenceTheorems, TLAPS

\* The entry of a call in progress is its own, and is missing only if there was no
\* room for it: no other call of the thread, none of another thread and no missed
\* exit gets between the entry hook and the exit hook.
HasOwnEntry(t, call) ==
  /\ t \in DOMAIN pending[call.fn] => pending[call.fn][t] = call.dev
  /\ t \notin DOMAIN pending[call.fn] => call.full

EntryIsOwn == \A t \in Threads: \A i \in DOMAIN stack[t]: HasOwnEntry(t, stack[t][i])

StashInv ==
  /\ TypeOK
  /\ pending = [f \in Hooked |-> pending[f]]
  /\ \A f \in Hooked: IsFiniteSet(DOMAIN pending[f])
  /\ EntryIsOwn
  /\ ReturnNamesItsDevice
  /\ LostOnlyToAFullMap
  /\ EntriesAreAccountedFor

\* What TypeOK says of the map of one function.
MapOK(map) ==
  /\ DOMAIN map \subseteq Threads
  /\ IsFiniteSet(DOMAIN map)
  /\ Cardinality(DOMAIN map) <= MapMax
  /\ \A t \in DOMAIN map: map[t] \in Devices

-----------------------------------------------------------------------------

(* stash: the thread's entry is replaced, or added within max_entries, or  *)
(* the map stays as it is; other threads keep theirs.                      *)
LEMMA PutFacts ==
  ASSUME NEW map, MapOK(map), NEW t \in Threads, NEW d \in Devices
  PROVE  /\ MapOK(Put(map, t, d))
         /\ t \in DOMAIN Put(map, t, d) <=> Room(map, t)
         /\ t \in DOMAIN Put(map, t, d) => Put(map, t, d)[t] = d
         /\ \A s \in Threads \ {t}: /\ s \in DOMAIN Put(map, t, d) <=> s \in DOMAIN map
                                    /\ s \in DOMAIN map => Put(map, t, d)[s] = map[s]
<1>. DEFINE D == DOMAIN map
<1>1. CASE ~Room(map, t)
  <2>1. Put(map, t, d) = map /\ t \notin D
    BY <1>1 DEF Put, Room
  <2>. QED BY <1>1, <2>1
<1>2. CASE Room(map, t)
  <2>1. Put(map, t, d) = [s \in D \cup {t} |-> IF s = t THEN d ELSE map[s]]
    BY <1>2 DEF Put
  <2>2. /\ IsFiniteSet(D \cup {t})
        /\ t \notin D => Cardinality(D \cup {t}) = Cardinality(D) + 1
    BY FS_AddElement DEF MapOK
  <2>3. Cardinality(D) \in Nat
    BY FS_CardinalityType DEF MapOK
  <2>4. Cardinality(D \cup {t}) <= MapMax
    <3>1. CASE t \in D
      <4>1. D \cup {t} = D
        BY <3>1
      <4>. QED BY <4>1 DEF MapOK
    <3>2. CASE t \notin D
      BY <1>2, <3>2, <2>2, <2>3, StashAssumption DEF Room
    <3>. QED BY <3>1, <3>2
  <2>. QED BY <1>2, <2>1, <2>2, <2>4 DEF MapOK
<1>. QED BY <1>1, <1>2

(* pop_emit: the thread's entry goes, other threads keep theirs.           *)
LEMMA DropFacts ==
  ASSUME NEW map, MapOK(map), NEW t \in Threads
  PROVE  /\ MapOK(Drop(map, t))
         /\ DOMAIN Drop(map, t) = DOMAIN map \ {t}
         /\ \A s \in DOMAIN map \ {t}: Drop(map, t)[s] = map[s]
<1>. DEFINE D == DOMAIN map
<1>1. DOMAIN Drop(map, t) = D \ {t} /\ \A s \in D \ {t}: Drop(map, t)[s] = map[s]
  BY DEF Drop
<1>2. IsFiniteSet(D \ {t}) /\ Cardinality(D \ {t}) <= Cardinality(D)
  BY FS_Subset DEF MapOK
<1>3. Cardinality(D \ {t}) \in Nat /\ Cardinality(D) \in Nat
  BY <1>2, FS_CardinalityType DEF MapOK
<1>. QED BY <1>1, <1>2, <1>3, StashAssumption DEF MapOK

(* What TypeOK says of one call in progress.                               *)
LEMMA CallFacts ==
  ASSUME TypeOK, NEW t \in Threads, NEW i \in DOMAIN stack[t]
  PROVE  /\ stack[t] \in Seq(Call) /\ i \in 1..Len(stack[t])
         /\ stack[t][i] \in Call
         /\ stack[t][i].fn \in Hooked /\ stack[t][i].dev \in Devices
<1>1. stack[t] \in Seq(Call) /\ i \in 1..Len(stack[t])
  BY DEF TypeOK
<1>2. stack[t][i] \in Call
  BY <1>1
<1>. QED BY <1>1, <1>2 DEF Call

(* A call returns: the thread's stack loses its innermost call only.       *)
LEMMA LeaveFacts ==
  ASSUME TypeOK, NEW t \in Threads, Leave(t)
  PROVE  /\ Innermost(t) \in Call
         /\ Innermost(t) = stack[t][Len(stack[t])] /\ Len(stack[t]) \in DOMAIN stack[t]
         /\ stack' \in [Threads -> Seq(Call)]
         /\ \A s \in Threads \ {t}: stack'[s] = stack[s]
         /\ DOMAIN stack'[t] = DOMAIN stack[t] \ {Len(stack[t])}
         /\ Len(stack'[t]) = Len(stack[t]) - 1
         /\ \A i \in DOMAIN stack'[t]: stack'[t][i] = stack[t][i]
<1>. DEFINE q == stack[t]
            r == SubSeq(q, 1, Len(q) - 1)
<1>1. stack \in [Threads -> Seq(Call)] /\ q \in Seq(Call) /\ q # <<>>
  BY DEF TypeOK, Leave
<1>2. Len(q) \in Nat \ {0}
  BY <1>1
<1>3. /\ r \in Seq(Call) /\ Len(r) = Len(q) - 1
      /\ \A i \in 1..Len(q) - 1: r[i] = q[i]
  <2>1. Len(q) - 1 \in Int /\ \A i \in 1..Len(q) - 1: q[i] \in Call
    BY <1>1, <1>2
  <2>2. /\ r \in Seq(Call)
        /\ Len(r) = IF 1 <= Len(q) - 1 THEN Len(q) - 1 - 1 + 1 ELSE 0
        /\ \A i \in 1..(Len(q) - 1) - 1 + 1: r[i] = q[1 + i - 1]
    <3>1. \A i \in 1..Len(q) - 1: q[i] \in Call
      BY <2>1
    <3>2. 1 \in Int /\ Len(q) - 1 \in Int
      BY <2>1
    <3>. HIDE DEF q
    <3>. QED BY ONLY <3>1, <3>2, SubSeqProperties DEF r
  <2>3. (Len(q) - 1) - 1 + 1 = Len(q) - 1 /\ \A i \in 1..Len(q) - 1: 1 + i - 1 = i
    BY <1>2
  <2>4. Len(r) = Len(q) - 1
    <3>1. \A n \in Nat \ {0}: (IF 1 <= n - 1 THEN n - 1 - 1 + 1 ELSE 0) = n - 1
      OBVIOUS
    <3>2. Len(r) = IF 1 <= Len(q) - 1 THEN Len(q) - 1 - 1 + 1 ELSE 0
      BY <2>2
    <3>. HIDE DEF q, r
    <3>. QED BY <1>2, <3>1, <3>2
  <2>. QED BY <2>2, <2>3, <2>4
<1>4. stack' = [stack EXCEPT ![t] = r]
  BY DEF Leave
<1>5. stack'[t] = r
  BY <1>1, <1>4
<1>6. DOMAIN q = 1..Len(q) /\ DOMAIN r = 1..Len(q) - 1
  BY <1>1, <1>3
<1>7. Innermost(t) = q[Len(q)] /\ q[Len(q)] \in Call
  BY <1>1, <1>2 DEF Innermost
<1>. QED BY <1>1, <1>2, <1>3, <1>4, <1>5, <1>6, <1>7

-----------------------------------------------------------------------------

(* No call is in progress when the hooks are attached.                     *)
LEMMA InitInv == Init => StashInv
<1>. SUFFICES ASSUME Init PROVE StashInv
  OBVIOUS
<1>1. IsFiniteSet({}) /\ Cardinality({}) = 0
  BY FS_EmptySet
<1>2. \A f \in Hooked: DOMAIN pending[f] = {}
  BY DEF Init
<1>3. \A t \in Threads: stack[t] = <<>> /\ DOMAIN stack[t] = {}
  BY DEF Init
<1>4. stack \in [Threads -> Seq(Call)]
  BY DEF Init
<1>5. TypeOK
  BY <1>1, <1>2, <1>3, <1>4, StashAssumption DEF Init, TypeOK
<1>. QED
  BY <1>1, <1>2, <1>3, <1>5
  DEF Init, StashInv, EntryIsOwn, HasOwnEntry, ReturnNamesItsDevice, LostOnlyToAFullMap,
  EntriesAreAccountedFor

(* The entry hook writes the entry of the call that begins.                *)
LEMMA StashStep ==
  ASSUME StashInv, NEW t \in Threads, NEW f \in Hooked, NEW d \in Devices,
         NEW exit \in BOOLEAN, Stash(t, f, d, exit)
  PROVE  StashInv'
<1>. DEFINE call == [fn |-> f, dev |-> d, exit |-> exit, full |-> ~Room(pending[f], t)]
            q == stack[t]
<1>a. /\ \A i \in DOMAIN q: q[i].fn # f
      /\ pending' = [pending EXCEPT ![f] = Put(pending[f], t, d)]
      /\ stack' = [stack EXCEPT ![t] = Append(q, call)]
      /\ last' = last /\ missed' = missed
  BY DEF Stash, MayEnter
<1>b. call \in Call
  BY DEF Call
<1>c. stack \in [Threads -> Seq(Call)] /\ q \in Seq(Call) /\ Len(q) \in Nat
  BY DEF StashInv, TypeOK
<1>. HIDE DEF call
<1>d. /\ stack' \in [Threads -> Seq(Call)]
      /\ \A s \in Threads \ {t}: stack'[s] = stack[s]
      /\ stack'[t] = Append(q, call)
  BY <1>a, <1>b, <1>c
<1>e. /\ DOMAIN stack'[t] = DOMAIN q \cup {Len(q) + 1}
      /\ stack'[t][Len(q) + 1] = call
      /\ Len(q) + 1 \notin DOMAIN q
      /\ \A i \in DOMAIN q: stack'[t][i] = q[i]
  BY <1>b, <1>c, <1>d
<1>f. \A g \in Hooked: MapOK(pending[g])
  BY DEF StashInv, TypeOK, MapOK
<1>g. /\ pending' = [g \in Hooked |-> pending'[g]]
      /\ pending'[f] = Put(pending[f], t, d)
      /\ \A g \in Hooked \ {f}: pending'[g] = pending[g]
  BY <1>a DEF StashInv
<1>h. /\ MapOK(pending'[f])
      /\ t \in DOMAIN pending'[f] <=> Room(pending[f], t)
      /\ t \in DOMAIN pending'[f] => pending'[f][t] = d
      /\ \A s \in Threads \ {t}: /\ s \in DOMAIN pending'[f] <=> s \in DOMAIN pending[f]
                                 /\ s \in DOMAIN pending[f] => pending'[f][s] = pending[f][s]
  BY <1>f, <1>g, PutFacts
<1>i. \A g \in Hooked: MapOK(pending'[g])
  BY <1>f, <1>g, <1>h
<1>j. \A s \in Threads: \A i \in DOMAIN stack[s]: stack[s][i].fn \in Hooked
  BY CallFacts DEF StashInv
<1>1. TypeOK'
  <2>1. \A s \in Threads: \A i, j \in DOMAIN stack'[s]:
          stack'[s][i].fn = stack'[s][j].fn => i = j
    <3>. SUFFICES ASSUME NEW s \in Threads, NEW i \in DOMAIN stack'[s], NEW j \in DOMAIN stack'[s],
                         stack'[s][i].fn = stack'[s][j].fn
                  PROVE  i = j
      OBVIOUS
    <3>1. CASE s # t
      BY <3>1, <1>d DEF StashInv, TypeOK
    <3>2. CASE s = t
      <4>1. call.fn = f
        BY DEF call
      <4>2. CASE i \in DOMAIN q /\ j \in DOMAIN q
        BY <3>2, <4>2, <1>e DEF StashInv, TypeOK
      <4>. QED BY <3>2, <4>1, <4>2, <1>a, <1>e
    <3>. QED BY <3>1, <3>2
  <2>. QED BY <2>1, <1>a, <1>d, <1>i DEF StashInv, TypeOK, MapOK
<1>2. EntryIsOwn'
  <2>. SUFFICES ASSUME NEW s \in Threads, NEW i \in DOMAIN stack'[s], NEW c, c = stack'[s][i]
                PROVE  /\ s \in DOMAIN pending'[c.fn] => pending'[c.fn][s] = c.dev
                       /\ s \notin DOMAIN pending'[c.fn] => c.full
    BY DEF EntryIsOwn, HasOwnEntry
  <2>1. CASE s # t
    <3>1. i \in DOMAIN stack[s] /\ c = stack[s][i] /\ c.fn \in Hooked
      BY <2>1, <1>d, <1>j
    <3>2. /\ s \in DOMAIN pending[c.fn] => pending[c.fn][s] = c.dev
          /\ s \notin DOMAIN pending[c.fn] => c.full
      BY <3>1 DEF StashInv, EntryIsOwn, HasOwnEntry
    <3>3. CASE c.fn = f
      BY <2>1, <3>2, <3>3, <1>h
    <3>4. CASE c.fn # f
      BY <3>1, <3>2, <3>4, <1>g
    <3>. QED BY <3>3, <3>4
  <2>2. CASE s = t /\ i \in DOMAIN q
    <3>1. c = q[i] /\ c.fn \in Hooked /\ c.fn # f
      BY <2>2, <1>a, <1>e, <1>j
    <3>2. /\ t \in DOMAIN pending[c.fn] => pending[c.fn][t] = c.dev
          /\ t \notin DOMAIN pending[c.fn] => c.full
      BY <2>2, <3>1 DEF StashInv, EntryIsOwn, HasOwnEntry
    <3>. QED BY <2>2, <3>1, <3>2, <1>g
  <2>3. CASE s = t /\ i \notin DOMAIN q
    <3>1. c = call
      BY <2>3, <1>e
    <3>2. call.fn = f /\ call.dev = d /\ call.full = ~Room(pending[f], t)
      BY DEF call
    <3>. QED BY <2>3, <3>1, <3>2, <1>h
  <2>. QED BY <2>1, <2>2, <2>3
<1>3. ReturnNamesItsDevice' /\ LostOnlyToAFullMap'
  BY <1>a DEF StashInv, ReturnNamesItsDevice, LostOnlyToAFullMap, Reportable
<1>4. EntriesAreAccountedFor'
  <2>. SUFFICES ASSUME NEW g \in Hooked, NEW s \in DOMAIN pending'[g], <<g, s>> \notin missed
                PROVE  \E i \in DOMAIN stack'[s]: stack'[s][i].fn = g
    BY <1>a DEF EntriesAreAccountedFor
  <2>0. s \in Threads
    BY <1>i DEF MapOK
  <2>1. CASE s = t /\ g = f
    <3>1. stack'[t][Len(q) + 1].fn = f /\ Len(q) + 1 \in DOMAIN stack'[t]
      BY <1>e DEF call
    <3>. QED BY <2>1, <3>1
  <2>2. CASE s # t \/ g # f
    <3>1. s \in DOMAIN pending[g]
      <4>1. CASE g # f
        BY <4>1, <1>g
      <4>2. CASE g = f
        BY <2>0, <2>2, <4>2, <1>h
      <4>. QED BY <4>1, <4>2
    <3>2. PICK i \in DOMAIN stack[s] : stack[s][i].fn = g
      BY <3>1 DEF StashInv, EntriesAreAccountedFor
    <3>3. i \in DOMAIN stack'[s] /\ stack'[s][i] = stack[s][i]
      <4>1. CASE s # t
        BY <2>0, <3>2, <4>1, <1>d
      <4>2. CASE s = t
        BY <3>2, <4>2, <1>e
      <4>. QED BY <4>1, <4>2
    <3>. QED BY <3>2, <3>3
  <2>. QED BY <2>1, <2>2
<1>. QED BY <1>1, <1>2, <1>3, <1>4, <1>g, <1>i DEF StashInv, MapOK

(* The exit hook takes the entry of the call that returns, and reports the *)
(* device in it.                                                           *)
LEMMA PopStep ==
  ASSUME StashInv, NEW t \in Threads, NEW ok \in BOOLEAN, PopEmit(t, ok)
  PROVE  StashInv'
<1>. DEFINE call == Innermost(t)
            f == call.fn
            reported == IF Reportable(f, ok) THEN Popped(f, t) \cap Watched ELSE {}
<1>a. /\ Leave(t)
      /\ pending' = [pending EXCEPT ![f] = Drop(pending[f], t)]
      /\ last' = [call |-> call, ok |-> ok, reported |-> reported]
      /\ missed' = missed \ {<<f, t>>}
  BY DEF PopEmit, PoppedMap
<1>b. /\ call \in Call
      /\ call = stack[t][Len(stack[t])] /\ Len(stack[t]) \in DOMAIN stack[t]
      /\ stack' \in [Threads -> Seq(Call)]
      /\ \A s \in Threads \ {t}: stack'[s] = stack[s]
      /\ DOMAIN stack'[t] = DOMAIN stack[t] \ {Len(stack[t])}
      /\ \A i \in DOMAIN stack'[t]: stack'[t][i] = stack[t][i]
  BY <1>a, LeaveFacts DEF StashInv
<1>c. f \in Hooked /\ call.dev \in Devices
  BY <1>b DEF Call
<1>d. /\ t \in DOMAIN pending[f] => pending[f][t] = call.dev
      /\ t \notin DOMAIN pending[f] => call.full
  <2>1. HasOwnEntry(t, call)
    <3>. HIDE DEF call
    <3>. QED BY <1>b DEF StashInv, EntryIsOwn
  <2>. QED BY <2>1 DEF HasOwnEntry
<1>e. reported \subseteq {call.dev} /\ reported \subseteq Devices
  BY <1>c, <1>d DEF Popped
<1>f. reported # {} \/ call.dev \notin Watched \/ ~Reportable(f, ok) \/ call.full
  BY <1>d DEF Popped
<1>. HIDE DEF call, f, reported
<1>g. \A g \in Hooked: MapOK(pending[g])
  BY DEF StashInv, TypeOK, MapOK
<1>h. /\ pending' = [g \in Hooked |-> pending'[g]]
      /\ pending'[f] = Drop(pending[f], t)
      /\ \A g \in Hooked \ {f}: pending'[g] = pending[g]
  BY <1>a, <1>c DEF StashInv
<1>i. /\ MapOK(pending'[f])
      /\ DOMAIN pending'[f] = DOMAIN pending[f] \ {t}
      /\ \A s \in DOMAIN pending[f] \ {t}: pending'[f][s] = pending[f][s]
  BY <1>c, <1>g, <1>h, DropFacts
<1>j. \A g \in Hooked: MapOK(pending'[g])
  BY <1>g, <1>h, <1>i
<1>1. TypeOK'
  <2>1. last' \in Return
    BY <1>a, <1>b, <1>e DEF Return
  <2>2. \A s \in Threads: \A i, j \in DOMAIN stack'[s]:
          stack'[s][i].fn = stack'[s][j].fn => i = j
    <3>1. \A s \in Threads: /\ DOMAIN stack'[s] \subseteq DOMAIN stack[s]
                            /\ \A i \in DOMAIN stack'[s]: stack'[s][i] = stack[s][i]
      BY <1>b
    <3>. QED BY <3>1 DEF StashInv, TypeOK
  <2>. QED BY <2>1, <2>2, <1>b, <1>j DEF TypeOK, MapOK
<1>2. EntryIsOwn'
  <2>. SUFFICES ASSUME NEW s \in Threads, NEW i \in DOMAIN stack'[s], NEW c, c = stack'[s][i]
                PROVE  /\ s \in DOMAIN pending'[c.fn] => pending'[c.fn][s] = c.dev
                       /\ s \notin DOMAIN pending'[c.fn] => c.full
    BY DEF EntryIsOwn, HasOwnEntry
  <2>1. i \in DOMAIN stack[s] /\ c = stack[s][i] /\ stack \in [Threads -> Seq(Call)]
    BY <1>b DEF StashInv, TypeOK
  <2>2. c.fn \in Hooked
    BY <2>1, CallFacts DEF StashInv
  <2>3. /\ s \in DOMAIN pending[c.fn] => pending[c.fn][s] = c.dev
        /\ s \notin DOMAIN pending[c.fn] => c.full
    BY <2>1 DEF StashInv, EntryIsOwn, HasOwnEntry
  <2>4. s = t => c.fn # f
    BY <2>1, <1>b DEF StashInv, TypeOK, f
  <2>5. CASE c.fn = f
    BY <2>3, <2>4, <2>5, <1>i
  <2>6. CASE c.fn # f
    BY <2>2, <2>3, <2>6, <1>h
  <2>. QED BY <2>5, <2>6
<1>3. ReturnNamesItsDevice'
  BY <1>a, <1>e DEF ReturnNamesItsDevice
<1>4. LostOnlyToAFullMap'
  BY <1>a, <1>f DEF LostOnlyToAFullMap, Reportable, f
<1>5. EntriesAreAccountedFor'
  <2>. SUFFICES ASSUME NEW g \in Hooked, NEW s \in DOMAIN pending'[g], <<g, s>> \notin missed'
                PROVE  \E i \in DOMAIN stack'[s]: stack'[s][i].fn = g
    BY DEF EntriesAreAccountedFor
  <2>0. s \in Threads
    BY <1>j DEF MapOK
  <2>1. s \in DOMAIN pending[g] /\ ~(g = f /\ s = t)
    <3>1. CASE g # f
      BY <3>1, <1>h
    <3>2. CASE g = f
      BY <3>2, <1>i
    <3>. QED BY <3>1, <3>2
  <2>2. <<g, s>> \notin missed
    BY <1>a, <2>1
  <2>3. PICK i \in DOMAIN stack[s] : stack[s][i].fn = g
    BY <2>1, <2>2 DEF StashInv, EntriesAreAccountedFor
  <2>4. CASE s # t
    BY <2>0, <2>3, <2>4, <1>b
  <2>5. CASE s = t
    <3>1. i # Len(stack[t])
      BY <2>1, <2>3, <2>5, <1>b DEF f
    <3>. QED BY <2>3, <2>5, <3>1, <1>b
  <2>. QED BY <2>4, <2>5
<1>. QED BY <1>1, <1>2, <1>3, <1>4, <1>5, <1>h, <1>j DEF StashInv, MapOK

(* A return no hook sees leaves its entry in the map, to be replaced by    *)
(* the thread's next call of the function.                                 *)
LEMMA UnseenStep ==
  ASSUME StashInv, NEW t \in Threads, ReturnUnseen(t)
  PROVE  StashInv'
<1>a. /\ Leave(t) /\ pending' = pending /\ last' = last
      /\ missed' = missed \cup {<<Innermost(t).fn, t>>}
  BY DEF ReturnUnseen
<1>b. /\ stack' \in [Threads -> Seq(Call)]
      /\ \A s \in Threads: /\ DOMAIN stack'[s] \subseteq DOMAIN stack[s]
                           /\ \A i \in DOMAIN stack'[s]: stack'[s][i] = stack[s][i]
  BY <1>a, LeaveFacts DEF StashInv
<1>1. TypeOK'
  BY <1>a, <1>b DEF StashInv, TypeOK
<1>2. EntryIsOwn'
  <2>. SUFFICES ASSUME NEW s \in Threads, NEW i \in DOMAIN stack'[s]
                PROVE  HasOwnEntry(s, stack[s][i])'
    BY DEF EntryIsOwn
  <2>1. i \in DOMAIN stack[s] /\ stack'[s][i] = stack[s][i]
    BY <1>b
  <2>2. HasOwnEntry(s, stack[s][i])
    BY <2>1 DEF StashInv, EntryIsOwn
  <2>. QED BY <1>a, <2>1, <2>2 DEF HasOwnEntry
<1>3. EntriesAreAccountedFor'
  <2>. SUFFICES ASSUME NEW g \in Hooked, NEW s \in DOMAIN pending[g], <<g, s>> \notin missed'
                PROVE  \E i \in DOMAIN stack'[s]: stack'[s][i].fn = g
    BY <1>a DEF EntriesAreAccountedFor
  <2>1. s \in Threads /\ <<g, s>> \notin missed
    BY <1>a DEF StashInv, TypeOK
  <2>2. PICK i \in DOMAIN stack[s] : stack[s][i].fn = g
    BY <2>1 DEF StashInv, EntriesAreAccountedFor
  <2>3. i \in DOMAIN stack'[s] /\ stack'[s][i] = stack[s][i]
    <3>1. CASE s # t
      BY <1>a, <2>1, <2>2, <3>1, LeaveFacts DEF StashInv
    <3>2. CASE s = t
      <4>1. i # Len(stack[t])
        BY <1>a, <2>2, <3>2 DEF Innermost
      <4>. QED BY <1>a, <2>2, <3>2, <4>1, LeaveFacts DEF StashInv
    <3>. QED BY <3>1, <3>2
  <2>. QED BY <2>2, <2>3
<1>. QED
  BY <1>a, <1>1, <1>2, <1>3 DEF StashInv, ReturnNamesItsDevice, LostOnlyToAFullMap, Reportable

(* Every entry and every return keeps the invariant.                       *)
LEMMA NextInv == StashInv /\ [Next]_vars => StashInv'
<1>. SUFFICES ASSUME StashInv, [Next]_vars PROVE StashInv'
  OBVIOUS
<1>1. ASSUME NEW t \in Threads, NEW f \in Hooked, NEW d \in Devices, NEW exit \in BOOLEAN,
             Stash(t, f, d, exit)
      PROVE  StashInv'
  BY <1>1, StashStep
<1>2. ASSUME NEW t \in Threads, NEW ok \in BOOLEAN, PopEmit(t, ok) PROVE StashInv'
  BY <1>2, PopStep
<1>3. ASSUME NEW t \in Threads, ReturnUnseen(t) PROVE StashInv'
  BY <1>3, UnseenStep
<1>4. CASE UNCHANGED vars
  BY <1>4 DEF vars, StashInv, TypeOK, EntryIsOwn, HasOwnEntry, ReturnNamesItsDevice, LostOnlyToAFullMap,
  Reportable, EntriesAreAccountedFor
<1>. QED BY <1>1, <1>2, <1>3, <1>4 DEF Next

-----------------------------------------------------------------------------

(* StashInv holds in every reachable state.                                *)
THEOREM Invariant == Spec => []StashInv
<1>1. Init => StashInv
  BY InitInv
<1>2. StashInv /\ [Next]_vars => StashInv'
  BY NextInv
<1>. QED BY <1>1, <1>2, PTL DEF Spec

(* The pending maps keep their type and stay within max_entries.           *)
THEOREM TypeCorrect == Spec => []TypeOK
<1>1. StashInv => TypeOK
  BY DEF StashInv
<1>. QED BY <1>1, Invariant, PTL

(* pop_emit reports the device of the call that returned and no other.     *)
THEOREM NoMisattribution == Spec => []ReturnNamesItsDevice
<1>1. StashInv => ReturnNamesItsDevice
  BY DEF StashInv
<1>. QED BY <1>1, Invariant, PTL

(* pop_emit finds nothing only if the map was full when stash ran.         *)
THEOREM NoOtherLoss == Spec => []LostOnlyToAFullMap
<1>1. StashInv => LostOnlyToAFullMap
  BY DEF StashInv
<1>. QED BY <1>1, Invariant, PTL

(* What fills a map is calls under way and calls whose exit was missed:    *)
(* pop_emit leaves nothing of a call that failed or was filtered out.      *)
THEOREM MapsFillWithCalls == Spec => []EntriesAreAccountedFor
<1>1. StashInv => EntriesAreAccountedFor
  BY DEF StashInv
<1>. QED BY <1>1, Invariant, PTL
=============================================================================
