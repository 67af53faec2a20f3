------------------------------ MODULE CallStash ------------------------------
(***************************************************************************)
(* How enum.bpf.c and lifecycle.bpf.c report a kernel call that returned:  *)
(* the entry hook stashes the usb_device of the call under the thread, in  *)
(* a map of its own for each function, and the exit hook pops it.          *)
(*                                                                         *)
(* A thread has a stack of calls.  A call may run without its exit hook:   *)
(* the entry hook is attached before the exit hook, and a kretprobe that   *)
(* is out of instances does not fire.  A call with neither hook leaves the *)
(* maps alone and is left out.                                             *)
(***************************************************************************)
EXTENDS Integers, Sequences, FiniteSets

CONSTANTS
  Threads,   \* pid_tgid values
  Devices,   \* usb_device pointers
  Watched,   \* devices that pass (filter_vid, filter_pid)
  Hooked,    \* functions hooked at both ends
  MapMax,    \* max_entries of each map (64)
  MaxDepth   \* bound: nesting of hooked calls in a thread

\* usb_new_device is the one function whose failure is not reported
AllHooked == {"usb_get_device_descriptor", "hub_set_address", "usb_set_configuration",
              "usb_new_device"}

ASSUME StashAssumption ==
  Hooked \subseteq AllHooked /\ Watched \subseteq Devices /\ MapMax \in Nat /\ MaxDepth \in Nat

VARIABLES
  stack,     \* the hooked calls a thread is in, innermost last
  pending,   \* [function -> the map: thread -> device]
  last,      \* history: the return of the last call that had both hooks
  missed     \* history: <<function, thread>> whose last return no hook saw

vars == <<stack, pending, last, missed>>

\* full: the stash of the call found no room
Call == [fn: Hooked, dev: Devices, exit: BOOLEAN, full: BOOLEAN]

\* reported: the devices named by the event of the return, {} when there is none
Return == [call: Call, ok: BOOLEAN, reported: SUBSET Devices]
NoReturn == [reported |-> {}]

-----------------------------------------------------------------------------

\* bpf_map_update_elem(BPF_ANY) and bpf_map_delete_elem
RoomOver(map, t) == t \in DOMAIN map \/ Cardinality(DOMAIN map) <= MapMax
Room(map, t) == t \in DOMAIN map \/ Cardinality(DOMAIN map) < MapMax
PutNew(map, t, d) ==
  IF Room(map, t)
  THEN [s \in DOMAIN map \cup {t} |-> IF s \in DOMAIN map THEN map[s] ELSE d]
  ELSE map
PutShort(map, t, d) ==
  IF Cardinality(DOMAIN map) + 1 < MapMax
  THEN [s \in DOMAIN map \cup {t} |-> IF s = t THEN d ELSE map[s]]
  ELSE map
Put(map, t, d) ==
  IF Room(map, t) THEN [s \in DOMAIN map \cup {t} |-> IF s = t THEN d ELSE map[s]] ELSE map
Drop(map, t) == [s \in DOMAIN map \ {t} |-> map[s]]

\* the functions do not recurse within a thread
MayEnter(t, f) ==
  Len(stack[t]) < MaxDepth /\ \A i \in DOMAIN stack[t]: stack[t][i].fn # f

Stash(t, f, d, exit) ==
  /\ MayEnter(t, f)
  /\ pending' = [pending EXCEPT ![f] = Put(@, t, d)]
  /\ stack' = [stack EXCEPT ![t] = Append(@,
       [fn |-> f, dev |-> d, exit |-> exit, full |-> ~Room(pending[f], t)])]
  /\ UNCHANGED <<last, missed>>

Popped(f, t) == IF t \in DOMAIN pending[f] THEN {pending[f][t]} ELSE {}
Reportable(f, ok) == f = "usb_new_device" => ok

\* the map of f after the pop: the entry goes whether an event is emitted or not
PoppedMapIfReported(f, t, ok) == IF Reportable(f, ok) THEN Drop(pending[f], t) ELSE pending[f]
PoppedMap(f, t, ok) == Drop(pending[f], t)

Innermost(t) == stack[t][Len(stack[t])]
Leave(t) ==
  /\ stack[t] # <<>>
  /\ stack' = [stack EXCEPT ![t] = SubSeq(@, 1, Len(@) - 1)]

\* a return with the exit hook
PopEmit(t, ok) ==
  /\ Leave(t)
  /\ LET call == Innermost(t)
     IN  /\ call.exit
         /\ pending' = [pending EXCEPT ![call.fn] = PoppedMap(call.fn, t, ok)]
         /\ missed' = missed \ {<<call.fn, t>>}
         /\ last' = [call |-> call, ok |-> ok,
                     reported |-> IF Reportable(call.fn, ok)
                                  THEN Popped(call.fn, t) \cap Watched ELSE {}]

\* a return no hook sees
ReturnUnseen(t) ==
  /\ Leave(t)
  /\ ~Innermost(t).exit
  /\ missed' = missed \cup {<<Innermost(t).fn, t>>}
  /\ UNCHANGED <<pending, last>>

Init ==
  /\ stack = [t \in Threads |-> <<>>]
  /\ pending = [f \in Hooked |-> <<>>]
  /\ last = NoReturn
  /\ missed = {}

Next ==
  \E t \in Threads:
    \/ \E f \in Hooked, d \in Devices, exit \in BOOLEAN: Stash(t, f, d, exit)
    \/ \E ok \in BOOLEAN: PopEmit(t, ok)
    \/ ReturnUnseen(t)

Spec == Init /\ [][Next]_vars

-----------------------------------------------------------------------------

\* A thread is at most once in a function, and a map holds at most max_entries.
TypeOK ==
  /\ stack \in [Threads -> Seq(Call)]
  /\ \A t \in Threads: \A i, j \in DOMAIN stack[t]: stack[t][i].fn = stack[t][j].fn => i = j
  /\ \A f \in Hooked: /\ DOMAIN pending[f] \subseteq Threads
                       /\ Cardinality(DOMAIN pending[f]) <= MapMax
                       /\ \A t \in DOMAIN pending[f]: pending[f][t] \in Devices
  /\ last = NoReturn \/ last \in Return

\* The event of a return names the device of the call that returned: not that of an
\* outer or inner call, of another thread, or of an earlier call whose exit was missed.
ReturnNamesItsDevice == last # NoReturn => last.reported \subseteq {last.call.dev}

\* The return of a watched call that is to be reported is lost only when its stash
\* found the map full.
LostOnlyToAFullMap ==
  last # NoReturn =>
    \/ last.reported # {}
    \/ last.call.dev \notin Watched \/ ~Reportable(last.call.fn, last.ok)
    \/ last.call.full

\* What takes up the map is a call under way, or one whose exit was missed and that the
\* thread has not made again: a call that failed or was filtered out leaves nothing.
EntriesAreAccountedFor ==
  \A f \in Hooked: \A t \in DOMAIN pending[f]:
    <<f, t>> \in missed \/ \E i \in DOMAIN stack[t]: stack[t][i].fn = f
=============================================================================
