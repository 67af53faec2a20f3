---------------------------- MODULE Session_proofs ----------------------------
(***************************************************************************)
(* A session releases what it owns and tells the truth in its exit status, *)
(* for every list of probes and rules; and it is a session of the rate     *)
(* meter and of the driver's tallies, whose theorems hold of it.           *)
(***************************************************************************)
EXTENDS Session, SessionParts_proofs

\* What a session holds, phase by phase.
PhaseOwns ==
  /\ phase \in {"start", "rules", "open", "bring_up", "sources", "mux", "loop", "stopped", "exited"}
  /\ phase = "start" => skels = {} /\ handles = {} /\ mux = NoMux /\ engine = "none" /\ load = "none"
  /\ phase = "open" => /\ cmd \in {"hid", "uvc"} /\ skels = {} /\ mux = NoMux
                       /\ engine = "none" /\ load = "none"
  /\ phase \in {"bring_up", "mux"} =>
       /\ cmd \in {"hid", "uvc"} /\ skels = {cmd} /\ mux = NoMux
       /\ engine = "none" /\ load = "none"
  /\ phase = "rules" => /\ cmd = "diag" /\ skels = {} /\ handles = {} /\ mux = NoMux
                        /\ engine = "none" /\ load # "freed"
  /\ phase = "sources" => /\ cmd = "diag" /\ handles = skels /\ mux = NoMux
                          /\ engine = "live" /\ load = "loaded"
  /\ phase \in {"loop", "stopped"} =>
       \/ cmd \in {"hid", "uvc"} /\ skels = {cmd} /\ engine = "none" /\ load = "none"
       \/ cmd = "diag" /\ handles = skels /\ engine = "live" /\ load = "loaded"
  /\ phase = "exited" => /\ skels = {} /\ ~mux.open /\ engine # "live"
                         /\ load \in {"none", "failed", "freed"}

\* The status says 1 from the moment a step fails.
StatusFollowsFailure ==
  /\ failed # "hooks listed"
  /\ phase \notin {"stopped", "exited"} => status = -1 /\ failed = "none"
  /\ phase = "stopped" => (status = 1 <=> failed # "none")
  /\ phase = "exited" /\ cmd \in Modules => (status = 1 <=> failed # "none")

\* The rules are translated nodes of the document, accepted ones.
Rules == {Rule(node) : node \in {n \in RuleNodes : Parses(n)}}

RulesInv ==
  /\ rules \in Seq(Rules) /\ Len(rules) <= MAX_RULES
  /\ load = "none" => heap = {} /\ rules = << >>
  /\ RulesOwnedOrReleased

SessionInv ==
  /\ PhaseOwns /\ StatusFollowsFailure
  /\ misreleased = 0
  /\ RulesInv

-----------------------------------------------------------------------------
(* The feature probe. *)

\* probe.c says that a hook is absent only when every file it could read
\* leaves it out: a module refused for lack of hooks has none that is listed.
LEMMA RefusedWithoutHooks ==
  ASSUME NEW k \in Kernels, "hooks" \in Refusals(k)
  PROVE  Listed(k) = {}
<1>1. Enabled(k) = {}
  BY DEF Refusals
<1>2. \A hook \in Hooks : SecAvailable(k, hook) = 0
  BY <1>1 DEF Enabled
<1>3. KfuncAvailable(k) = 0 /\ TracepointAvailable(k) = 0
  BY <1>2 DEF Hooks, SecAvailable
<1>4. k.present \subseteq Hooks
  BY DEF Kernels
<1>5. ~("kprobe" \in k.present /\ k.readable \cap k.naming # {})
  BY <1>3 DEF KfuncAvailable
<1>6. ~("events" \in k.readable /\ "tracepoint" \in k.present)
  BY <1>3 DEF TracepointAvailable
<1>. QED BY <1>4, <1>5, <1>6 DEF Listed, Hooks

\* Destroying all that is open is releasing each skeleton once.
LEMMA DestroyFacts ==
  ASSUME NEW ss, ss = skels, Destroy(ss), misreleased = 0
  PROVE  skels' = {} /\ misreleased' = 0
<1>1. ss \ skels = {} /\ skels \ ss = {}
  OBVIOUS
<1>2. Cardinality(ss \ skels) = 0
  BY <1>1, FS_EmptySet
<1>. QED BY <1>1, <1>2 DEF Destroy

-----------------------------------------------------------------------------
(* The rules and their strings. *)

\* The strings of the rules before the one that fails are freed, its own stay.
LEMMA ParseRuleStep ==
  ASSUME RulesInv, NEW node \in RuleNodes, ParseRule(node)
  PROVE  RulesInv' /\ load' # "none" /\ load' # "freed"
<1>. DEFINE n == Len(rules)
            own == StringsOf(n + 1, node)
<1>1. n \in Nat /\ DOMAIN rules = 1 .. n
  BY LenProperties DEF RulesInv
<1>2. \A h \in own : h[1] = n + 1
  BY DEF StringsOf
<1>3. /\ load = "parsing" /\ misfreed' = misfreed /\ misfreed = 0
      /\ \A i \in DOMAIN rules : <<i, "id">> \in heap
      /\ \A h \in heap : h[1] \in DOMAIN rules
  BY DEF ParseRule, RulesInv, RulesOwnedOrReleased
<1>4. CASE Parses(node)
  <2>1. rules' = Append(rules, Rule(node)) /\ heap' = heap \cup own /\ load' = load
    BY <1>4 DEF ParseRule
  <2>0. Rule(node) \in Rules
    BY <1>4 DEF Rules
  <2>2. rules' \in Seq(Rules) /\ Len(rules') = n + 1
    BY <2>0, <2>1, AppendProperties DEF RulesInv
  <2>7. Len(rules') <= MAX_RULES
    BY <1>1, <2>2, LoaderAssumption DEF ParseRule, LoaderAssumption
  <2>3. DOMAIN rules' = 1 .. n + 1
    BY <2>2, LenProperties
  <2>4. <<n + 1, "id">> \in own
    BY <1>4 DEF Parses, StringsOf
  <2>. HIDE DEF n, own
  <2>5. \A i \in DOMAIN rules' : <<i, "id">> \in heap'
    <3>. SUFFICES ASSUME NEW i \in DOMAIN rules' PROVE <<i, "id">> \in heap'
      OBVIOUS
    <3>1. i \in DOMAIN rules \/ i = n + 1
      BY <1>1, <2>3
    <3>2. CASE i \in DOMAIN rules
      BY <1>3, <2>1, <3>2
    <3>3. CASE i = n + 1
      BY <2>1, <2>4, <3>3
    <3>. QED BY <3>1, <3>2, <3>3
  <2>6. \A h \in heap' : h[1] \in DOMAIN rules'
    BY <1>1, <1>2, <1>3, <2>1, <2>3
  <2>. QED BY <1>3, <2>1, <2>2, <2>5, <2>6, <2>7 DEF RulesInv, RulesOwnedOrReleased
<1>5. CASE ~Parses(node)
  <2>1. rules' = << >> /\ load' = "failed" /\ heap' = (heap \cup own) \ Freed(n)
    BY <1>5 DEF ParseRule
  <2>2. Freed(n) = heap
    BY <1>1, <1>3 DEF Freed
  <2>3. \A h \in heap' : h[1] = n + 1
    BY <1>2, <2>1, <2>2
  <2>4. rules' \in Seq(Rules) /\ Len(rules') <= MAX_RULES
    BY <2>1, EmptySeq, LoaderAssumption DEF LoaderAssumption
  <2>. QED BY <1>3, <2>1, <2>3, <2>4 DEF RulesInv, RulesOwnedOrReleased
<1>. QED BY <1>4, <1>5

\* diag_rules_free of a loaded array leaves no string.
LEMMA RulesFreeStep ==
  ASSUME RulesInv, load = "loaded", RulesFree
  PROVE  RulesInv' /\ load' = "freed"
<1>1. Len(rules) \in Nat /\ DOMAIN rules = 1 .. Len(rules)
  BY LenProperties DEF RulesInv
<1>2. Freed(Len(rules)) = heap
  BY <1>1 DEF Freed, RulesInv, RulesOwnedOrReleased
<1>3. load' = "freed" /\ misfreed' = misfreed + 0 /\ heap' = {} /\ rules' = << >>
  BY <1>2 DEF RulesFree
<1>4. rules' \in Seq(Rules) /\ Len(rules') <= MAX_RULES /\ misfreed' = 0
  BY <1>3, EmptySeq, LoaderAssumption DEF RulesInv, RulesOwnedOrReleased, LoaderAssumption
<1>. QED BY <1>3, <1>4 DEF RulesInv, RulesOwnedOrReleased

\* A step that leaves the rule loader alone.
LEMMA RulesKept ==
  ASSUME RulesInv, UNCHANGED ruleVars
  PROVE  RulesInv' /\ load' = load
BY DEF RulesInv, RulesOwnedOrReleased, ruleVars

\* The loader itself frees or hands over what it allocated.
LEMMA LoaderStep ==
  ASSUME RulesInv, LoaderNext
  PROVE  RulesInv' /\ load' # "freed"
<1>1. ASSUME NEW usable \in BOOLEAN, LoadOpen(usable) PROVE RulesInv' /\ load' # "freed"
  <2>1. heap = {} /\ rules = << >> /\ DOMAIN rules = {} /\ misfreed = 0
    BY <1>1 DEF LoadOpen, RulesInv, RulesOwnedOrReleased
  <2>2. load' \in {"parsing", "failed"} /\ UNCHANGED <<rules, heap, misfreed>>
    BY <1>1 DEF LoadOpen
  <2>. QED BY <2>1, <2>2 DEF RulesInv, RulesOwnedOrReleased
<1>2. ASSUME NEW node \in RuleNodes, ParseRule(node) PROVE RulesInv' /\ load' # "freed"
  BY <1>2, ParseRuleStep
<1>3. CASE LoadEnd
  BY <1>3 DEF LoadEnd, RulesInv, RulesOwnedOrReleased
<1>. QED BY <1>1, <1>2, <1>3 DEF LoaderNext

-----------------------------------------------------------------------------
(* The steps of main and of the harness. *)

\* usage, help, list, and the start of a module
LEMMA DispatchStep ==
  ASSUME SessionInv, NEW word \in Words \cup Modules, NEW args \in {"run", "help", "bad"},
         Dispatch(word, args)
  PROVE  SessionInv'
<1>1. RulesInv' /\ load' = load /\ misreleased' = 0
  BY RulesKept DEF SessionInv, Dispatch, Keep
<1>2. PhaseOwns' /\ StatusFollowsFailure'
  BY DEF SessionInv, PhaseOwns, StatusFollowsFailure, Dispatch, Keep, Exit, WordStatus, Words,
         Modules, NoMux, ruleVars
<1>. QED BY <1>1, <1>2 DEF SessionInv

\* open, bring-up and the consumer of one module
LEMMA SingleStep ==
  ASSUME SessionInv,
         \/ \E ok \in BOOLEAN : OpenSkeleton(ok)
         \/ \E k \in Kernels : \E refusal \in Refusals(k) : BringUp(k, refusal)
         \/ \E new, add \in BOOLEAN : OpenMux(new, add)
  PROVE  SessionInv'
<1>1. ASSUME NEW ok \in BOOLEAN, OpenSkeleton(ok) PROVE SessionInv'
  <2>1. RulesInv' /\ load' = load /\ misreleased' = 0
    BY <1>1, RulesKept DEF SessionInv, OpenSkeleton
  <2>2. /\ phase = "open" /\ cmd \in {"hid", "uvc"} /\ skels = {} /\ mux = NoMux /\ engine = "none"
        /\ load = "none" /\ failed = "none" /\ status = -1 /\ UNCHANGED <<cmd, mux, engine>>
    BY <1>1 DEF OpenSkeleton, SessionInv, PhaseOwns, StatusFollowsFailure
  <2>3. CASE ok
    <3>1. phase' = "bring_up" /\ skels' = {cmd} /\ UNCHANGED <<status, failed>>
      BY <1>1, <2>3 DEF OpenSkeleton
    <3>2. PhaseOwns' /\ StatusFollowsFailure'
      BY <2>1, <2>2, <3>1 DEF PhaseOwns, StatusFollowsFailure, NoMux
    <3>. QED BY <2>1, <3>2 DEF SessionInv
  <2>4. CASE ~ok
    <3>1. phase' = "exited" /\ status' = 1 /\ failed' = "open" /\ skels' = skels
      BY <1>1, <2>4 DEF OpenSkeleton, Exit
    <3>2. PhaseOwns'
      BY <2>1, <2>2, <3>1 DEF PhaseOwns, NoMux
    <3>3. StatusFollowsFailure'
      BY <3>1 DEF StatusFollowsFailure
    <3>. QED BY <2>1, <3>2, <3>3 DEF SessionInv
  <2>. QED BY <2>3, <2>4
<1>2. ASSUME NEW k \in Kernels, NEW refusal \in Refusals(k), BringUp(k, refusal) PROVE SessionInv'
  <2>1. RulesInv' /\ load' = load
    BY <1>2, RulesKept DEF SessionInv, BringUp
  <2>2. phase = "bring_up" /\ skels = {cmd} /\ misreleased = 0
    BY <1>2 DEF BringUp, SessionInv, PhaseOwns
  <2>3. CASE refusal = "none"
    <3>1. PhaseOwns' /\ StatusFollowsFailure' /\ misreleased' = 0
      BY <1>2, <2>1, <2>2, <2>3 DEF SessionInv, PhaseOwns, StatusFollowsFailure, BringUp, Keep
    <3>. QED BY <2>1, <3>1 DEF SessionInv
  <2>4. CASE refusal # "none"
    <3>1. Destroy({cmd}) /\ phase' = "exited" /\ status' = 1
          /\ failed' = (IF refusal = "hooks" /\ Listed(k) # {} THEN "hooks listed" ELSE refusal)
          /\ UNCHANGED <<cmd, mux, engine>>
      BY <1>2, <2>4 DEF BringUp, Exit
    <3>2. skels' = {} /\ misreleased' = 0
      BY <2>2, <3>1, DestroyFacts
    <3>3. failed' = refusal /\ refusal # "hooks listed"
      BY <3>1, RefusedWithoutHooks DEF Refusals
    <3>4. PhaseOwns'
      <4>1. mux = NoMux /\ engine = "none" /\ load = "none"
        BY <2>2 DEF SessionInv, PhaseOwns
      <4>. QED BY <2>1, <3>1, <3>2, <4>1 DEF PhaseOwns, NoMux
    <3>5. StatusFollowsFailure'
      BY <2>4, <3>1, <3>3 DEF StatusFollowsFailure
    <3>. QED BY <2>1, <3>2, <3>4, <3>5 DEF SessionInv
  <2>. QED BY <2>3, <2>4
<1>3. ASSUME NEW new \in BOOLEAN, NEW add \in BOOLEAN, OpenMux(new, add) PROVE SessionInv'
  <2>1. RulesInv' /\ load' = load
    BY <1>3, RulesKept DEF SessionInv, OpenMux
  <2>2. phase = "mux" /\ skels = {cmd} /\ misreleased = 0
    BY <1>3 DEF OpenMux, SessionInv, PhaseOwns
  <2>3. CASE new /\ add
    <3>1. PhaseOwns' /\ StatusFollowsFailure' /\ misreleased' = 0
      BY <1>3, <2>1, <2>2, <2>3 DEF SessionInv, PhaseOwns, StatusFollowsFailure, OpenMux, Keep
    <3>. QED BY <2>1, <3>1 DEF SessionInv
  <2>4. CASE ~(new /\ add)
    <3>1. Destroy({cmd}) /\ phase' = "exited" /\ status' = 1 /\ failed' = "mux"
          /\ UNCHANGED <<cmd, mux, engine>>
      BY <1>3, <2>4 DEF OpenMux, Exit
    <3>2. skels' = {} /\ misreleased' = 0
      BY <2>2, <3>1, DestroyFacts
    <3>3. PhaseOwns' /\ StatusFollowsFailure'
      BY <2>1, <2>2, <3>1, <3>2 DEF SessionInv, PhaseOwns, StatusFollowsFailure, NoMux
    <3>. QED BY <2>1, <3>2, <3>3 DEF SessionInv
  <2>. QED BY <2>3, <2>4
<1>. QED BY <1>1, <1>2, <1>3

\* the loop and its end, of a single module and of diag
LEMMA LoopStep ==
  ASSUME SessionInv, HidRecord \/ UvcStep \/ \E result \in Results : LastPoll(result)
  PROVE  SessionInv'
<1>1. CASE HidRecord \/ UvcStep
  <2>1. UNCHANGED sessionVars /\ UNCHANGED ruleVars
    BY <1>1 DEF HidRecord, UvcStep
  <2>. QED BY <2>1, RulesKept DEF SessionInv, PhaseOwns, StatusFollowsFailure, sessionVars
<1>2. ASSUME NEW result \in Results, LastPoll(result) PROVE SessionInv'
  <2>1. RulesInv' /\ load' = load /\ misreleased' = 0
    BY <1>2, RulesKept DEF SessionInv, LastPoll, Keep
  <2>2. /\ phase = "loop" /\ phase' = "stopped" /\ failed = "none"
        /\ status' = IF PollErr(result) = 0 THEN 0 ELSE 1
        /\ failed' = IF result = "error" THEN "poll" ELSE failed
        /\ UNCHANGED <<cmd, handles, mux, engine, skels>>
    BY <1>2 DEF LastPoll, Keep, SessionInv, StatusFollowsFailure
  <2>3. PhaseOwns' /\ StatusFollowsFailure'
    BY <2>1, <2>2 DEF SessionInv, PhaseOwns, StatusFollowsFailure, PollErr
  <2>. QED BY <2>1, <2>3 DEF SessionInv
<1>. QED BY <1>1, <1>2

\* The end of a single-module run destroys the one skeleton it opened.
LEMMA EndSingleStep ==
  ASSUME SessionInv, EndSingle
  PROVE  SessionInv'
<1>1. RulesInv' /\ load' = load
  BY RulesKept DEF SessionInv, EndSingle
<1>2. /\ phase = "stopped" /\ skels = {cmd} /\ misreleased = 0 /\ load = "none" /\ engine = "none"
      /\ cmd \in Modules /\ Destroy({cmd})
      /\ phase' = "exited" /\ mux' = NoMux /\ UNCHANGED <<cmd, engine, status, failed>>
  BY DEF EndSingle, Single, SessionInv, PhaseOwns, Modules
<1>3. skels' = {} /\ misreleased' = 0
  BY <1>2, DestroyFacts
<1>4. PhaseOwns' /\ StatusFollowsFailure'
  BY <1>1, <1>2, <1>3 DEF SessionInv, PhaseOwns, StatusFollowsFailure, NoMux, Modules
<1>. QED BY <1>1, <1>3, <1>4 DEF SessionInv

-----------------------------------------------------------------------------
(* The steps of diag_run. *)

\* loading the rules, and the engine that takes them
LEMMA RulesStep ==
  ASSUME SessionInv, LoadRules \/ \E ok \in BOOLEAN : CreateEngine(ok)
  PROVE  SessionInv'
<1>1. CASE LoadRules
  <2>1. RulesInv' /\ load' # "freed" /\ phase = "rules" /\ UNCHANGED sessionVars
    BY <1>1, LoaderStep DEF LoadRules, SessionInv
  <2>. QED BY <2>1 DEF SessionInv, PhaseOwns, StatusFollowsFailure, sessionVars
<1>2. ASSUME NEW ok \in BOOLEAN, CreateEngine(ok) PROVE SessionInv'
  <2>1. /\ phase = "rules" /\ cmd = "diag" /\ skels = {} /\ handles = {} /\ mux = NoMux
        /\ engine = "none" /\ failed = "none" /\ status = -1
        /\ skels' = skels /\ misreleased' = 0 /\ UNCHANGED <<cmd, handles, mux>>
    BY <1>2 DEF CreateEngine, Keep, SessionInv, PhaseOwns, StatusFollowsFailure
  <2>2. CASE load = "failed"
    <3>1. phase' = "exited" /\ status' = 1 /\ failed' = "rules" /\ engine' = engine
          /\ UNCHANGED ruleVars
      BY <1>2, <2>2 DEF CreateEngine, Exit
    <3>2. RulesInv' /\ load' = load
      BY <3>1, RulesKept DEF SessionInv
    <3>3. PhaseOwns'
      BY <2>1, <2>2, <3>1, <3>2 DEF PhaseOwns, NoMux
    <3>4. StatusFollowsFailure'
      BY <3>1 DEF StatusFollowsFailure
    <3>. QED BY <2>1, <3>2, <3>3, <3>4 DEF SessionInv
  <2>3. CASE load = "loaded" /\ ok
    <3>1. phase' = "sources" /\ engine' = "live" /\ UNCHANGED <<status, failed, ruleVars>>
      BY <1>2, <2>3 DEF CreateEngine
    <3>2. RulesInv' /\ load' = load
      BY <3>1, RulesKept DEF SessionInv
    <3>3. PhaseOwns'
      BY <2>1, <2>3, <3>1, <3>2 DEF PhaseOwns, NoMux
    <3>4. StatusFollowsFailure'
      BY <2>1, <3>1 DEF StatusFollowsFailure
    <3>. QED BY <2>1, <3>2, <3>3, <3>4 DEF SessionInv
  <2>4. CASE load = "loaded" /\ ~ok
    <3>1. phase' = "exited" /\ status' = 1 /\ failed' = "engine" /\ engine' = engine /\ RulesFree
      BY <1>2, <2>4 DEF CreateEngine, Exit
    <3>2. RulesInv' /\ load' = "freed"
      BY <2>4, <3>1, RulesFreeStep DEF SessionInv
    <3>3. PhaseOwns'
      BY <2>1, <3>1, <3>2 DEF PhaseOwns, NoMux
    <3>4. StatusFollowsFailure'
      BY <3>1 DEF StatusFollowsFailure
    <3>. QED BY <2>1, <3>2, <3>3, <3>4 DEF SessionInv
  <2>5. load \in {"loaded", "failed"}
    BY <1>2 DEF CreateEngine
  <2>. QED BY <2>2, <2>3, <2>4, <2>5
<1>. QED BY <1>1, <1>2

\* a source that is up has its pointer, one that is not has none
LEMMA SourcesStep ==
  ASSUME SessionInv,
         \/ \E k \in Kernels, opened \in BOOLEAN :
              \E refusal \in Refusals(k) : TrySource(k, opened, refusal)
         \/ \E new \in BOOLEAN, joined \in SUBSET handles : JoinSources(new, joined)
  PROVE  SessionInv'
<1>1. ASSUME NEW k \in Kernels, NEW opened \in BOOLEAN, NEW refusal \in Refusals(k),
             TrySource(k, opened, refusal)
      PROVE  SessionInv'
  <2>1. RulesInv' /\ load' = load
    BY <1>1, RulesKept DEF SessionInv, TrySource
  <2>2. /\ phase = "sources" /\ handles = skels
        /\ UNCHANGED <<cmd, phase, mux, engine, status, failed, misreleased>>
    BY <1>1 DEF TrySource, SessionInv, PhaseOwns
  <2>3. handles' = skels'
    BY <1>1, <2>2 DEF TrySource, HandleOf
  <2>4. PhaseOwns' /\ StatusFollowsFailure'
    BY <2>1, <2>2, <2>3 DEF SessionInv, PhaseOwns, StatusFollowsFailure
  <2>. QED BY <2>1, <2>2, <2>4 DEF SessionInv
<1>2. ASSUME NEW new \in BOOLEAN, NEW joined \in SUBSET handles, JoinSources(new, joined)
      PROVE  SessionInv'
  <2>1. RulesInv' /\ load' = load /\ misreleased' = 0
    BY <1>2, RulesKept DEF SessionInv, JoinSources, Keep
  <2>2. /\ cmd = "diag" /\ handles = skels /\ engine = "live" /\ load = "loaded"
        /\ failed = "none" /\ status = -1
        /\ UNCHANGED <<cmd, handles, engine, skels>>
    BY <1>2 DEF JoinSources, Keep, SessionInv, PhaseOwns, StatusFollowsFailure
  <2>3. \/ phase' = "loop" /\ UNCHANGED <<status, failed>>
        \/ phase' = "stopped" /\ status' = 1 /\ failed' \in {"sources", "mux"}
    BY <1>2 DEF JoinSources
  <2>4. PhaseOwns' /\ StatusFollowsFailure'
    BY <2>1, <2>2, <2>3 DEF PhaseOwns, StatusFollowsFailure
  <2>. QED BY <2>1, <2>4 DEF SessionInv
<1>. QED BY <1>1, <1>2

\* the cleanup label
LEMMA EndDiagStep ==
  ASSUME SessionInv, EndDiag
  PROVE  SessionInv'
<1>1. /\ phase = "stopped" /\ handles = skels /\ load = "loaded" /\ misreleased = 0
      /\ cmd = "diag" /\ Destroy(handles) /\ RulesFree
      /\ mux' = NoMux /\ engine' = "destroyed" /\ phase' = "exited"
      /\ UNCHANGED <<cmd, status, failed>>
  BY DEF EndDiag, SessionInv, PhaseOwns
<1>2. RulesInv' /\ load' = "freed"
  BY <1>1, RulesFreeStep DEF SessionInv
<1>3. skels' = {} /\ misreleased' = 0
  BY <1>1, DestroyFacts
<1>4. PhaseOwns'
  BY <1>1, <1>2, <1>3 DEF PhaseOwns, NoMux
<1>5. StatusFollowsFailure'
  BY <1>1 DEF StatusFollowsFailure, SessionInv
<1>. QED BY <1>2, <1>3, <1>4, <1>5 DEF SessionInv

-----------------------------------------------------------------------------

(* main before its first word holds nothing. *)
THEOREM SessionStart == Init => SessionInv
<1>. SUFFICES ASSUME Init PROVE SessionInv
  OBVIOUS
<1>1. RulesInv
  <2>1. rules \in Seq(Rules) /\ DOMAIN rules = {} /\ Len(rules) <= MAX_RULES
    BY EmptySeq, LoaderAssumption DEF Init, LoaderInit, LoaderAssumption
  <2>. QED BY <2>1 DEF Init, LoaderInit, RulesInv, RulesOwnedOrReleased
<1>2. PhaseOwns /\ StatusFollowsFailure
  BY DEF Init, LoaderInit, PhaseOwns, StatusFollowsFailure, NoMux
<1>. QED BY <1>1, <1>2 DEF SessionInv, Init

(* Every step of main, the harness, diag_run and the signal handler keeps  *)
(* the invariant.                                                          *)
THEOREM SessionStep == SessionInv /\ [Next]_vars => SessionInv'
<1>. SUFFICES ASSUME SessionInv, [Next]_vars PROVE SessionInv'
  OBVIOUS
<1>1. ASSUME NEW word \in Words \cup Modules, NEW args \in {"run", "help", "bad"},
             Dispatch(word, args)
      PROVE  SessionInv'
  BY <1>1, DispatchStep
<1>2. CASE Signal
  <2>1. RulesInv' /\ load' = load
    BY <1>2, RulesKept DEF Signal, SessionInv
  <2>. QED BY <1>2, <2>1 DEF Signal, SessionInv, PhaseOwns, StatusFollowsFailure
<1>3. ASSUME NEW ok \in BOOLEAN, OpenSkeleton(ok) \/ CreateEngine(ok) PROVE SessionInv'
  BY <1>3, SingleStep, RulesStep
<1>4. ASSUME NEW k \in Kernels, NEW refusal \in Refusals(k),
             BringUp(k, refusal) \/ \E opened \in BOOLEAN : TrySource(k, opened, refusal)
      PROVE  SessionInv'
  BY <1>4, SingleStep, SourcesStep
<1>5. ASSUME NEW new \in BOOLEAN, NEW add \in BOOLEAN, OpenMux(new, add) PROVE SessionInv'
  BY <1>5, SingleStep
<1>6. CASE HidRecord \/ UvcStep \/ \E result \in Results : LastPoll(result)
  BY <1>6, LoopStep
<1>7. CASE LoadRules
  BY <1>7, RulesStep
<1>8. ASSUME NEW new \in BOOLEAN, NEW joined \in SUBSET handles, JoinSources(new, joined)
      PROVE  SessionInv'
  BY <1>8, SourcesStep
<1>9. CASE EndSingle \/ EndDiag
  BY <1>9, EndSingleStep, EndDiagStep
<1>10. CASE UNCHANGED vars
  <2>1. UNCHANGED sessionVars /\ UNCHANGED ruleVars
    BY <1>10 DEF vars
  <2>. QED BY <2>1, RulesKept DEF SessionInv, PhaseOwns, StatusFollowsFailure, sessionVars
<1>. QED BY <1>1, <1>2, <1>3, <1>4, <1>5, <1>6, <1>7, <1>8, <1>9, <1>10 DEF Next

(* main.c, run.c and diag.c: the invariant behind the theorems below. *)
THEOREM SessionInvariant == Spec => []SessionInv
<1>. QED BY SessionStart, SessionStep, PTL DEF Spec

(* The cleanup of usbtrace_run, the modules and diag_run releases every    *)
(* skeleton, the consumer, the engine and the rules once, for any list of  *)
(* sources and wherever the session was cut short.                         *)
THEOREM EverythingReleased == Spec => []ReleasedOnce
<1>1. SessionInv => ReleasedOnce
  BY DEF SessionInv, PhaseOwns, ReleasedOnce
<1>. QED BY <1>1, SessionInvariant, PTL

(* The exit status of a module is 1 exactly when one of its steps failed,  *)
(* and no module is refused while one of its hooks is listed.              *)
THEOREM StatusIsTrue == Spec => []ExitStatusIsTrue
<1>1. SessionInv => ExitStatusIsTrue
  BY DEF SessionInv, StatusFollowsFailure, ExitStatusIsTrue
<1>. QED BY <1>1, SessionInvariant, PTL

(* rules.c: for any document, only the strings of the rule that failed are *)
(* left behind, and no string is freed twice.                              *)
THEOREM RulesOwned == Spec => []RulesOwnedOrReleased
<1>1. SessionInv => RulesOwnedOrReleased
  BY DEF SessionInv, RulesInv
<1>. QED BY <1>1, SessionInvariant, PTL

-----------------------------------------------------------------------------
(* The composition: what a session does to the meter and to the tallies is *)
(* a behaviour of theirs, so that their theorems hold of it.               *)

(* The records of a session and its end are steps of the rate meter. *)
THEOREM SessionIsHid == Spec => HidSpec
<1>1. Init => HidInit
  BY DEF Init
<1>2. [Next]_vars => [HidNext]_hidVars
  <2>. SUFFICES ASSUME [Next]_vars PROVE HidNext \/ UNCHANGED hidVars
    OBVIOUS
  <2>1. CASE HidRecord
    BY <2>1 DEF HidRecord, HidNext
  <2>2. ASSUME NEW result \in Results, LastPoll(result) PROVE HidNext \/ UNCHANGED hidVars
    BY <2>2 DEF LastPoll, HidNext
  <2>3. CASE UNCHANGED vars
    BY <2>3 DEF vars
  <2>. QED BY <2>1, <2>2, <2>3 DEF Next, Dispatch, Signal, OpenSkeleton, CreateEngine, BringUp,
              TrySource, OpenMux, UvcStep, LoadRules, JoinSources, EndSingle, EndDiag
<1>. QED BY <1>1, <1>2, PTL DEF Spec, HidSpec

(* The frames of a session are steps of the driver and its hooks. *)
THEOREM SessionIsDriver == Spec => DriverSpec
<1>1. Init => DriverInit
  BY DEF Init
<1>2. [Next]_vars => [DriverNext]_driverVars
  <2>. SUFFICES ASSUME [Next]_vars PROVE DriverNext \/ UNCHANGED driverVars
    OBVIOUS
  <2>1. CASE UvcStep
    BY <2>1 DEF UvcStep
  <2>2. CASE UNCHANGED vars
    BY <2>2 DEF vars
  <2>. QED BY <2>1, <2>2 DEF Next, Dispatch, Signal, OpenSkeleton, CreateEngine, BringUp,
              TrySource, OpenMux, HidRecord, LastPoll, LoadRules, JoinSources, EndSingle, EndDiag
<1>. QED BY <1>1, <1>2, PTL DEF Spec, DriverSpec

(* hid.c in a session: a report is in one rate line or in the open window. *)
THEOREM SessionReports == Spec => []EveryReportInOneWindow
<1>. QED BY SessionIsHid, ReportsInOneWindow, PTL

(* hid.c in a session: no rate over less than the window.                  *)
THEOREM SessionRates == Spec => []NoRateOverAShortSpan
<1>. QED BY SessionIsHid, RatesOverLongSpans, PTL

(* rate_on_in in a session: the intervals of a slot are those between the  *)
(* endpoint's successful reports, averaged or counted as gaps.             *)
THEOREM SessionIntervals == Spec => []EveryIntervalAccounted
<1>. QED BY SessionIsHid, IntervalsAccounted, PTL

(* on_queue_complete in a session: the causes of a drop, up to the URB that *)
(* spans two frames, a full map and a stale tag.                           *)
THEOREM SessionDrops == Spec => []DropBlamesTheLoss
<1>. QED BY SessionIsDriver, DropsAreExplained, PTL

(* uvc.bpf.c in a session: without a gap no frame is missing.              *)
THEOREM SessionGapless == Spec => []NoGapMeansNoLoss
<1>. QED BY SessionIsDriver, GaplessIsComplete, PTL

-----------------------------------------------------------------------------
(* The types. *)

\* The rules the engine is given are ones it can evaluate.
LEMMA AcceptedRules ==
  ASSUME RulesInv, load \in {"none", "parsing", "loaded", "failed", "freed"}
  PROVE  LoaderTypeOK
<1>. SUFFICES ASSUME NEW i \in DOMAIN rules
              PROVE  /\ rules[i].id
                     /\ "nwhen" \in DOMAIN rules[i].body =>
                          rules[i].body.nwhen <= MAX_WHEN /\ rules[i].body.trigger = "good"
  BY DEF LoaderTypeOK, RulesInv
<1>1. rules[i] \in Rules
  BY ElementOfSeq, LenProperties DEF RulesInv
<1>2. PICK node \in RuleNodes : Parses(node) /\ rules[i] = Rule(node)
  BY <1>1 DEF Rules
<1>3. rules[i].id
  <2>1. "id" \in node.strings
    BY <1>2 DEF Parses
  <2>2. Rule(node).id <=> "id" \in node.strings
    BY DEF Rule
  <2>. QED BY <1>2, <2>1, <2>2
<1>4. CASE node.body.type = "deadline"
  <2>1. rules[i].body = DeadlineOf(node.body)
    BY <1>2, <1>4 DEF Rule
  <2>. QED BY <1>3, <2>1 DEF DeadlineOf
<1>5. CASE node.body.type = "event"
  <2>1. TriggerParses(node.body.trigger) /\ WhensParse(node.body.when)
    BY <1>2, <1>5 DEF Parses
  <2>2. rules[i].body = [trigger |-> node.body.trigger.kind, nwhen |-> Len(node.body.when)]
    BY <1>2, <1>5 DEF Rule
  <2>. QED BY <1>3, <2>1, <2>2 DEF TriggerParses, WhensParse
<1>. QED BY <1>4, <1>5, LoaderAssumption DEF LoaderAssumption

SessionTypes ==
  /\ cmd \in Words \cup Modules \cup {"none"} /\ g_running \in BOOLEAN
  /\ mux.open \in BOOLEAN /\ mux.maps \subseteq skels /\ (mux.maps # {} => mux.open)
  /\ tried \in 0 .. Len(DiagSources) /\ status \in {-1, 0, 1, 2}
  /\ load \in {"none", "parsing", "loaded", "failed", "freed"}

\* What is polled has an open skeleton behind it: skeletons are destroyed only
\* with the consumer gone.
LEMMA TypesStep ==
  ASSUME SessionInv, SessionTypes, [Next]_vars
  PROVE  SessionTypes'
<1>. USE DEF SessionTypes
<1>1. ASSUME NEW word \in Words \cup Modules, NEW args \in {"run", "help", "bad"},
             Dispatch(word, args)
      PROVE  SessionTypes'
  BY <1>1 DEF Dispatch, Exit, WordStatus, Keep, ruleVars
<1>2. CASE Signal
  BY <1>2 DEF Signal, ruleVars
<1>3. ASSUME NEW ok \in BOOLEAN, OpenSkeleton(ok) PROVE SessionTypes'
  BY <1>3 DEF OpenSkeleton, Exit, ruleVars, SessionInv, PhaseOwns
<1>4. ASSUME NEW ok \in BOOLEAN, CreateEngine(ok) PROVE SessionTypes'
  BY <1>4 DEF CreateEngine, Exit, Keep, RulesFree, ruleVars
<1>5. ASSUME NEW k \in Kernels, NEW refusal \in Refusals(k), BringUp(k, refusal)
      PROVE  SessionTypes'
  <2>1. mux = NoMux
    BY <1>5 DEF BringUp, SessionInv, PhaseOwns
  <2>. QED BY <1>5, <2>1 DEF BringUp, Exit, Keep, ruleVars, NoMux
<1>6. ASSUME NEW k \in Kernels, NEW opened \in BOOLEAN, NEW refusal \in Refusals(k),
             TrySource(k, opened, refusal)
      PROVE  SessionTypes'
  <2>1. Len(DiagSources) \in Nat
    BY SourcesAssumption, LenProperties DEF SourcesAssumption
  <2>2. tried' \in 0 .. Len(DiagSources)
    BY <1>6, <2>1 DEF TrySource
  <2>3. skels \subseteq skels' /\ UNCHANGED <<cmd, g_running, mux, status, ruleVars>>
    BY <1>6 DEF TrySource
  <2>. QED BY <2>2, <2>3 DEF ruleVars
<1>7. ASSUME NEW new \in BOOLEAN, NEW add \in BOOLEAN, OpenMux(new, add) PROVE SessionTypes'
  <2>1. mux = NoMux /\ skels = {cmd}
    BY <1>7 DEF OpenMux, SessionInv, PhaseOwns
  <2>2. CASE new /\ add
    <3>1. /\ mux' = [open |-> TRUE, maps |-> {cmd}] /\ skels' = skels
          /\ UNCHANGED <<cmd, g_running, tried, status, ruleVars>>
      BY <1>7, <2>2 DEF OpenMux, Keep
    <3>. QED BY <2>1, <3>1 DEF ruleVars
  <2>3. CASE ~(new /\ add)
    <3>1. mux' = mux /\ status' = 1 /\ UNCHANGED <<cmd, g_running, tried, ruleVars>>
      BY <1>7, <2>3 DEF OpenMux, Exit
    <3>. QED BY <2>1, <3>1 DEF ruleVars, NoMux
  <2>. QED BY <2>2, <2>3
<1>8. CASE HidRecord \/ UvcStep
  <2>1. UNCHANGED sessionVars /\ UNCHANGED ruleVars
    BY <1>8 DEF HidRecord, UvcStep
  <2>. QED BY <2>1 DEF sessionVars, ruleVars
<1>9. ASSUME NEW result \in Results, LastPoll(result) PROVE SessionTypes'
  BY <1>9 DEF LastPoll, Keep, ruleVars
<1>10. CASE LoadRules
  <2>1. UNCHANGED sessionVars /\ load' \in {"parsing", "loaded", "failed"}
    BY <1>10 DEF LoadRules, LoaderNext, LoadOpen, ParseRule, LoadEnd
  <2>. QED BY <2>1 DEF sessionVars
<1>11. ASSUME NEW new \in BOOLEAN, NEW joined \in SUBSET handles, JoinSources(new, joined)
       PROVE  SessionTypes'
  <2>1. /\ mux' = [open |-> new, maps |-> joined] /\ skels' = skels /\ handles = skels
        /\ joined \subseteq (IF new THEN handles ELSE {})
        /\ status' \in {status, 1} /\ UNCHANGED <<cmd, g_running, tried, ruleVars>>
    BY <1>11 DEF JoinSources, Keep, SessionInv, PhaseOwns
  <2>2. mux'.open \in BOOLEAN /\ mux'.maps \subseteq skels' /\ (mux'.maps # {} => mux'.open)
    BY <2>1
  <2>. QED BY <2>1, <2>2 DEF ruleVars
<1>12. CASE EndSingle
  BY <1>12 DEF EndSingle, NoMux, ruleVars
<1>13. CASE EndDiag
  BY <1>13 DEF EndDiag, NoMux, RulesFree
<1>14. CASE UNCHANGED vars
  BY <1>14 DEF vars, sessionVars, ruleVars
<1>. QED BY <1>1, <1>2, <1>3, <1>4, <1>5, <1>6, <1>7, <1>8, <1>9, <1>10, <1>11, <1>12, <1>13,
            <1>14 DEF Next

(* The parts of a session keep their types together, and what is polled is *)
(* up, for every list of sources and every document.                       *)
THEOREM SessionTypeCorrect == Spec => []SessionTypeOK
<1>1. Init => SessionTypes
  <2>1. Len(DiagSources) \in Nat
    BY SourcesAssumption, LenProperties DEF SourcesAssumption
  <2>. QED BY <2>1 DEF Init, LoaderInit, SessionTypes, NoMux
<1>2. Spec => []SessionTypes
  BY <1>1, SessionInvariant, TypesStep, PTL DEF Spec
<1>3. Spec => []HidInv
  BY SessionIsHid, HidInvariant, PTL
<1>4. Spec => []DriverTypeOK
  BY SessionIsDriver, DriverTypes, PTL
<1>5. SessionInv /\ SessionTypes /\ HidInv /\ DriverTypeOK => SessionTypeOK
  <2>. SUFFICES ASSUME SessionInv, SessionTypes, HidInv, DriverTypeOK PROVE SessionTypeOK
    OBVIOUS
  <2>1. LoaderTypeOK
    BY AcceptedRules DEF SessionInv, SessionTypes
  <2>2. HidTypeOK
    BY DEF HidInv
  <2>. QED BY <2>1, <2>2 DEF SessionInv, PhaseOwns, SessionTypes, SessionTypeOK
<1>. QED BY <1>2, <1>3, <1>4, <1>5, SessionInvariant, PTL
=============================================================================
