----------------------------- MODULE RuleLoader -----------------------------
(***************************************************************************)
(* The rule loader of diag (rules.c): what of a YAML document becomes the  *)
(* rule array of the engine, what is refused, and who owns the strings     *)
(* strdup made on the way.                                                 *)
(*                                                                         *)
(* A rule of the document is what the parser can tell about it: which of   *)
(* the four strings it has, and its body.  A scalar is "good" when it      *)
(* resolves, "bad" when resolve_value refuses it, "none" when it is not    *)
(* there; a list or mapping of the wrong YAML type is "bad" as well.       *)
(***************************************************************************)
EXTENDS Integers, Sequences, FiniteSets

CONSTANTS
  RuleNodes,    \* the rules a document is made of
  MAX_RULES,    \* DIAG_MAX_RULES (64)
  MAX_WHEN,     \* DIAG_MAX_WHEN (8)
  MAX_MATCH,    \* DIAG_MAX_MATCH (8)
  MAX_STATUS    \* DIAG_MAX_STATUS (16)

ASSUME LoaderAssumption ==
  /\ MAX_RULES \in Nat /\ MAX_WHEN \in Nat /\ MAX_MATCH \in Nat /\ MAX_STATUS \in Nat
  /\ \A node \in RuleNodes : node.body.type \in {"deadline", "event"}

VARIABLES
  load,      \* "none", "parsing", "loaded", "failed" or "freed"
  rules,     \* arr[0 .. n - 1]
  heap,      \* the strings of arr, as <<index, field>>
  misfreed   \* history: strings freed that were not allocated

ruleVars == <<load, rules, heap, misfreed>>

-----------------------------------------------------------------------------
(* One rule. *)

\* A condition: its kind, whether the fields and values of its match list
\* resolve, and how many entries the two lists have.
Conditions == [kind: {"good", "bad", "none"}, match: {"good", "bad"}, nmatch: Nat, nstatus: Nat]

\* parse_match_map and parse_status_in, through add_match
ListsParse(c) == c.match = "good" /\ c.nmatch <= MAX_MATCH /\ c.nstatus <= MAX_STATUS

\* parse_when: a condition without a kind is about events of every kind
WhenParses(c) == c.kind # "bad" /\ ListsParse(c)

\* parse_trigger: a trigger needs a kind
TriggerParses(c) == c.kind = "good" /\ ListsParse(c)

\* parse_deadline: without_state is taken when it resolves, and otherwise
\* left at -1 like one that is not given
DeadlineParses(d) == d.reached = "good" /\ d.timeout # "none"
DeadlineOf(d) == [without |-> IF d.without = "good" THEN "state" ELSE "any"]

\* A variant: the limit of the when list is off by one.
WhensParseOneMore(whens) ==
  Len(whens) <= MAX_WHEN + 1 /\ \A i \in DOMAIN whens : WhenParses(whens[i])
\* the when list of parse_rule: a longer one than the array is refused
WhensParse(whens) == Len(whens) <= MAX_WHEN /\ \A i \in DOMAIN whens : WhenParses(whens[i])

\* parse_rule: a deadline hides the trigger and the when list
Parses(node) ==
  /\ "id" \in node.strings
  /\ CASE node.body.type = "deadline" -> DeadlineParses(node.body)
       [] node.body.type = "event"    -> TriggerParses(node.body.trigger) /\ WhensParse(node.body.when)

Rule(node) ==
  [id |-> "id" \in node.strings,
   body |-> IF node.body.type = "deadline" THEN DeadlineOf(node.body)
            ELSE [trigger |-> node.body.trigger.kind, nwhen |-> Len(node.body.when)]]

StringsOf(i, node) == {<<i, s>> : s \in node.strings}

-----------------------------------------------------------------------------
(* The document. *)

\* diag_rules_load_file and diag_rules_load_default up to the rules list: the
\* file, the YAML and the top level may be unusable, or memory short.
LoadOpen(usable) ==
  /\ load = "none"
  /\ load' = IF usable THEN "parsing" ELSE "failed"
  /\ UNCHANGED <<rules, heap, misfreed>>

\* A variant: a failed parse returns at once.
FreedNothing(n) == {}
\* diag_rules_free(arr, n) frees the strings of the first n rules
Freed(n) == {h \in heap : h[1] <= n}

\* One item of diag_rules_parse's loop.  parse_rule allocates the strings
\* before it looks at the rest; those of the rule it fails on are not among
\* the n that are freed.
ParseRule(node) ==
  LET n == Len(rules)
  IN  /\ load = "parsing" /\ n < MAX_RULES
      /\ IF Parses(node)
         THEN /\ rules' = Append(rules, Rule(node))
              /\ heap' = heap \cup StringsOf(n + 1, node)
              /\ UNCHANGED load
         ELSE /\ rules' = << >> /\ load' = "failed"
              /\ heap' = (heap \cup StringsOf(n + 1, node)) \ Freed(n)
      /\ UNCHANGED misfreed

\* The list is at its end, or has more rules than the array: the rest is
\* ignored with a warning.
LoadEnd ==
  /\ load = "parsing"
  /\ load' = "loaded"
  /\ UNCHANGED <<rules, heap, misfreed>>

\* diag_rules_free of a loaded array, by diag_run or diag_engine_destroy
RulesFree ==
  /\ load' = "freed"
  /\ misfreed' = misfreed + (IF load = "loaded" THEN 0 ELSE 1)
  /\ heap' = heap \ Freed(Len(rules))
  /\ rules' = << >>

LoaderInit == load = "none" /\ rules = << >> /\ heap = {} /\ misfreed = 0

LoaderNext ==
  \/ \E usable \in BOOLEAN : LoadOpen(usable)
  \/ \E node \in RuleNodes : ParseRule(node)
  \/ LoadEnd

LoaderSpec == LoaderInit /\ [][LoaderNext]_ruleVars

-----------------------------------------------------------------------------
(* Properties. *)

(* The engine only gets rules it can evaluate: with an id, an event rule    *)
(* with a kind to trigger on and no more conditions than it has room for.   *)
LoaderTypeOK ==
  /\ load \in {"none", "parsing", "loaded", "failed", "freed"}
  /\ Len(rules) <= MAX_RULES
  /\ \A i \in DOMAIN rules :
       /\ rules[i].id
       /\ "nwhen" \in DOMAIN rules[i].body =>
            rules[i].body.nwhen <= MAX_WHEN /\ rules[i].body.trigger = "good"

(* Whichever rule the document fails on, no string of another rule stays    *)
(* behind, none is freed twice, and a loaded rule keeps the strings the     *)
(* engine prints.  The one rule that failed keeps its own: parse_rule has   *)
(* duplicated them and diag_rules_parse frees the rules before it.          *)
RulesOwnedOrReleased ==
  /\ misfreed = 0
  /\ load \in {"parsing", "loaded"} =>
       /\ \A i \in DOMAIN rules : <<i, "id">> \in heap
       /\ \A h \in heap : h[1] \in DOMAIN rules
  /\ load \in {"failed", "freed"} => \A g, h \in heap : g[1] = h[1]
  /\ load = "freed" => heap = {}
=============================================================================
