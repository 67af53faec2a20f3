------------------------------- MODULE Session -------------------------------
(***************************************************************************)
(* One process of usbtrace, from the command line to its exit status:      *)
(* main.c, the single-module harness of run.c, the bring-up and cleanup of *)
(* diag_run, the feature probe of probe.c, and what the session owns.      *)
(*                                                                         *)
(* `hid' stands for the modules that only run the harness, and brings its  *)
(* report-rate meter; `uvc' brings the tallies of uvcvideo's frames; diag  *)
(* loads rules and several probes.  The engine that evaluates the rules    *)
(* and its loop are in DiagPipeline.                                       *)
(***************************************************************************)
EXTENDS RuleLoader, HidRate, UvcDriver

CONSTANTS
  DiagSources   \* the skeletons diag brings up, in order (nine)

ASSUME SourcesAssumption == DiagSources \in Seq(STRING)

VARIABLES
  cmd,         \* what the command line asks for
  phase,       \* where main is
  g_running,   \* cleared by on_signal
  skels,       \* skeletons opened and not destroyed
  tried,       \* how many sources diag has tried to bring up
  handles,     \* the sources diag has a non-NULL pointer to
  mux,         \* the event consumer: whether it exists, and its maps
  engine,      \* "none", "live", "destroyed"
  status,      \* exit status, -1 = running
  failed,      \* history: the step that ended the session early
  misreleased  \* history: releases of what was not held

sessionVars == <<cmd, phase, g_running, skels, tried, handles, mux, engine, status, failed,
                 misreleased>>
vars == <<sessionVars, ruleVars, hidVars, driverVars>>

NoMux == [open |-> FALSE, maps |-> {}]

\* libbpf skeletons are destroyed, and the consumer freed, after a check for NULL
Destroy(ss) == skels' = skels \ ss /\ misreleased' = misreleased + Cardinality(ss \ skels)
Keep == UNCHANGED <<skels, misreleased>>

-----------------------------------------------------------------------------
(* probe.c: is the target of a hook present?  A kernel is the set of hooks  *)
(* whose target it has, the files that can be read, and those that name its *)
(* function: kallsyms and available_filter_functions may each miss it.      *)

Hooks == {"kprobe", "tracepoint"}
Symbols == {"kallsyms", "available_filter_functions"}
Kernels == [present: SUBSET Hooks, readable: SUBSET (Symbols \cup {"events"}), naming: SUBSET Symbols]

\* usbtrace_kfunc_available: a hit in either file; absent only when one
\* could be read
KfuncAvailable(k) ==
  IF "kprobe" \in k.present /\ k.readable \cap k.naming # {} THEN 1
  ELSE IF k.readable \cap Symbols # {} THEN 0 ELSE -1

\* usbtrace_tracepoint_available and usbtrace_tracepoint_event_available
TracepointAvailable(k) ==
  IF "events" \notin k.readable THEN -1 ELSE IF "tracepoint" \in k.present THEN 1 ELSE 0

\* the hooks some file that can be read shows to be there
Listed(k) ==
  {hook \in k.present : \E f \in k.readable : f \in IF hook = "kprobe" THEN k.naming ELSE {"events"}}

\* sec_available
SecAvailable(k, hook) == IF hook = "kprobe" THEN KfuncAvailable(k) ELSE TracepointAvailable(k)

\* usbtrace_autoload_filter: the hooks that stay enabled
Enabled(k) == {hook \in Hooks : SecAvailable(k, hook) # 0}

\* why a skeleton does not come up: no hook, or an attachment that failed,
\* as that of an enabled hook without a target does
Refusals(k) ==
  IF Enabled(k) = {} THEN {"hooks"}
  ELSE {"load", "attach"} \cup (IF Enabled(k) \subseteq k.present THEN {"none"} ELSE {})

-----------------------------------------------------------------------------
(* main.c. *)

Exit(code) == phase' = "exited" /\ status' = code

\* What ends at once: `help' is also -h, -V and the help of a module, `unknown'
\* also a global option or a help topic that does not exist, and no word at all.
Words == {"help", "list", "unknown"}
Modules == {"hid", "uvc", "diag"}

\* the exit status of `list', `help' and of what is no module
WordStatus(word) == IF word = "unknown" THEN 2 ELSE 0

Dispatch(word, args) ==
  /\ phase = "start"
  /\ cmd' = word
  /\ IF word \in Words THEN Exit(WordStatus(word))
     ELSE IF args # "run" THEN Exit(IF args = "help" THEN 0 ELSE 2)
     ELSE phase' = (IF word = "diag" THEN "rules" ELSE "open") /\ UNCHANGED status
  /\ Keep
  /\ UNCHANGED <<g_running, tried, handles, mux, engine, failed, ruleVars, hidVars, driverVars>>

\* on_signal; before the handlers are there a signal ends the process
Signal ==
  /\ phase \notin {"start", "exited"}
  /\ g_running' = FALSE
  /\ UNCHANGED <<cmd, phase, skels, tried, handles, mux, engine, status, failed, misreleased,
                 ruleVars, hidVars, driverVars>>

-----------------------------------------------------------------------------
(* The harness: usbtrace_run within a module's run. *)

Single == cmd \in {"hid", "uvc"}

\* hid_run and uvc_run: open, and destroy after the harness, whatever it returns
OpenSkeleton(ok) ==
  /\ phase = "open" /\ Single
  /\ IF ok THEN /\ skels' = {cmd} /\ phase' = "bring_up" /\ UNCHANGED <<status, failed>>
     ELSE /\ Exit(1) /\ failed' = "open" /\ UNCHANGED skels
  /\ UNCHANGED <<cmd, g_running, tried, handles, mux, engine, misreleased, ruleVars, hidVars, driverVars>>

BringUp(k, refusal) ==
  /\ phase = "bring_up" /\ refusal \in Refusals(k)
  /\ IF refusal = "none" THEN phase' = "mux" /\ Keep /\ UNCHANGED <<status, failed>>
     ELSE /\ Exit(1) /\ Destroy({cmd})
          /\ failed' = IF refusal = "hooks" /\ Listed(k) # {} THEN "hooks listed" ELSE refusal
  /\ UNCHANGED <<cmd, g_running, tried, handles, mux, engine, ruleVars, hidVars, driverVars>>

\* usbtrace_evmux_new, usbtrace_evmux_add and on_start; a consumer whose only
\* map cannot be joined is freed
OpenMux(new, add) ==
  /\ phase = "mux" /\ Single
  /\ IF new /\ add
     THEN /\ mux' = [open |-> TRUE, maps |-> {cmd}] /\ phase' = "loop" /\ Keep
          /\ UNCHANGED <<status, failed>>
     ELSE /\ Exit(1) /\ Destroy({cmd}) /\ failed' = "mux" /\ UNCHANGED mux
  /\ UNCHANGED <<cmd, g_running, tried, handles, engine, ruleVars, hidVars, driverVars>>

\* The records of one poll pass the module's callback; the kernel goes on.
HidRecord ==
  /\ phase = "loop" /\ cmd = "hid"
  /\ \E e \in Endpoints, in \in BOOLEAN, ok \in BOOLEAN, ts \in 1 .. MaxTs :
       newest <= ts + RATE_SKEW /\ HidOnEvent(e, in, ok, ts)
  /\ UNCHANGED <<sessionVars, ruleVars, driverVars>>

UvcStep ==
  /\ phase = "loop" /\ cmd = "uvc"
  /\ DriverNext
  /\ UNCHANGED <<sessionVars, ruleVars, hidVars>>

\* A variant: a poll interrupted by the signal leaves its error.
PollErrSticky(result) == IF result \in {"EINTR", "error"} THEN -1 ELSE 0
\* the err of the loop after its last poll: EINTR and EAGAIN are cleared
PollErr(result) == IF result = "error" THEN -1 ELSE 0

Results == {"records", "EINTR", "error"}

\* The loops of usbtrace_run and diag_run end when a poll returns after the
\* signal or with an error, or are not entered at all.  Other polls change
\* nothing here.  on_stop follows.
LastPoll(result) ==
  /\ phase = "loop"
  /\ result = "error" \/ ~g_running
  /\ status' = IF PollErr(result) = 0 THEN 0 ELSE 1
  /\ failed' = IF result = "error" THEN "poll" ELSE failed
  /\ phase' = "stopped"
  /\ IF cmd = "hid" THEN HidOnStop ELSE UNCHANGED hidVars
  /\ Keep
  /\ UNCHANGED <<cmd, g_running, tried, handles, mux, engine, ruleVars, driverVars>>

\* usbtrace_evmux_free, then the module destroys its skeleton
EndSingle ==
  /\ phase = "stopped" /\ Single
  /\ mux' = NoMux /\ Destroy({cmd}) /\ phase' = "exited"
  /\ UNCHANGED <<cmd, g_running, tried, handles, engine, status, failed, ruleVars, hidVars,
                 driverVars>>

-----------------------------------------------------------------------------
(* diag_run. *)

LoadRules ==
  /\ phase = "rules"
  /\ LoaderNext
  /\ UNCHANGED <<sessionVars, hidVars, driverVars>>

\* diag_engine_create takes the rules; without an engine they are freed here
CreateEngine(ok) ==
  /\ phase = "rules" /\ load \in {"loaded", "failed"}
  /\ CASE load = "failed" ->
            Exit(1) /\ failed' = "rules" /\ UNCHANGED <<engine, ruleVars>>
       [] load = "loaded" /\ ok ->
            phase' = "sources" /\ engine' = "live" /\ UNCHANGED <<status, failed, ruleVars>>
       [] load = "loaded" /\ ~ok ->
            Exit(1) /\ failed' = "engine" /\ RulesFree /\ UNCHANGED engine
  /\ Keep
  /\ UNCHANGED <<cmd, g_running, tried, handles, mux, hidVars, driverVars>>

\* A variant: the pointer to a destroyed source is kept.
HandleKept(s, up) == {s}
\* a source that does not come up is destroyed, its pointer NULL
HandleOf(s, up) == IF up THEN {s} ELSE {}

\* One source: it may not open, not come up, or be up.
TrySource(k, opened, refusal) ==
  LET s  == DiagSources[tried + 1]
      up == opened /\ refusal = "none"
  IN  /\ phase = "sources" /\ tried < Len(DiagSources)
      /\ refusal \in Refusals(k)
      /\ tried' = tried + 1
      /\ skels' = IF up THEN skels \cup {s} ELSE skels
      /\ handles' = handles \cup (IF opened THEN HandleOf(s, up) ELSE {})
      /\ UNCHANGED <<cmd, phase, g_running, mux, engine, status, failed, misreleased,
                     ruleVars, hidVars, driverVars>>

\* Every source that is up joins the consumer or is silently left out;
\* without one that joined there is nothing to wait for.
JoinSources(new, joined) ==
  /\ phase = "sources" /\ tried = Len(DiagSources)
  /\ joined \subseteq (IF new THEN handles ELSE {})
  /\ mux' = [open |-> new, maps |-> joined]
  /\ IF joined # {} THEN phase' = "loop" /\ UNCHANGED <<status, failed>>
     ELSE phase' = "stopped" /\ status' = 1 /\ failed' = IF new THEN "sources" ELSE "mux"
  /\ Keep
  /\ UNCHANGED <<cmd, g_running, tried, handles, engine, ruleVars, hidVars, driverVars>>

\* the cleanup label, after diag_engine_report if the loop was entered
EndDiag ==
  /\ phase = "stopped" /\ cmd = "diag"
  /\ mux' = NoMux /\ Destroy(handles) /\ handles' = {}
  /\ engine' = "destroyed" /\ RulesFree
  /\ phase' = "exited"
  /\ UNCHANGED <<cmd, g_running, tried, status, failed, hidVars, driverVars>>

-----------------------------------------------------------------------------

Init ==
  /\ cmd = "none" /\ phase = "start" /\ g_running = TRUE
  /\ skels = {} /\ tried = 0 /\ handles = {} /\ mux = NoMux /\ engine = "none"
  /\ status = -1 /\ failed = "none" /\ misreleased = 0
  /\ LoaderInit /\ HidInit /\ DriverInit

Next ==
  \/ \E word \in Words \cup Modules, args \in {"run", "help", "bad"} : Dispatch(word, args)
  \/ Signal
  \/ \E ok \in BOOLEAN : OpenSkeleton(ok) \/ CreateEngine(ok)
  \/ /\ phase \in {"bring_up", "sources"}
     /\ \E k \in Kernels : \E refusal \in Refusals(k) :
          BringUp(k, refusal) \/ \E opened \in BOOLEAN : TrySource(k, opened, refusal)
  \/ \E new, add \in BOOLEAN : OpenMux(new, add)
  \/ HidRecord \/ UvcStep
  \/ LoadRules
  \/ \E new \in BOOLEAN, joined \in SUBSET handles : JoinSources(new, joined)
  \/ \E result \in Results : LastPoll(result)
  \/ EndSingle \/ EndDiag

Spec == Init /\ [][Next]_vars

-----------------------------------------------------------------------------
(* Properties. *)

(* The parts of a session keep their types together, and what is polled is  *)
(* up: a source in the consumer has an open skeleton behind it.             *)
SessionTypeOK ==
  /\ cmd \in Words \cup Modules \cup {"none"} /\ g_running \in BOOLEAN
  /\ phase \in {"start", "rules", "open", "bring_up", "sources", "mux", "loop", "stopped", "exited"}
  /\ mux.open \in BOOLEAN /\ mux.maps \subseteq skels /\ (mux.maps # {} => mux.open)
  /\ tried \in 0 .. Len(DiagSources) /\ status \in {-1, 0, 1, 2}
  /\ LoaderTypeOK /\ HidTypeOK /\ DriverTypeOK

(* However a session ends - refused, short of memory, with some sources     *)
(* missing, by a signal at any point or a poll error - every skeleton, the  *)
(* consumer, the engine and the rules are released, and none twice.         *)
ReleasedOnce ==
  /\ misreleased = 0
  /\ phase = "exited" =>
       /\ skels = {} /\ ~mux.open /\ engine # "live"
       /\ load \in {"none", "failed", "freed"}

(* A session exits with 1 exactly when one of its steps failed, whatever    *)
(* the signal interrupts; and a module is refused for lack of hooks only    *)
(* when no file that can be read shows one of them.                         *)
ExitStatusIsTrue ==
  /\ failed # "hooks listed"
  /\ phase = "exited" /\ cmd \in Modules => (status = 1 <=> failed # "none")
=============================================================================
