------------------------------- MODULE Engine -------------------------------
(***************************************************************************)
(* SigmaEngine of src/engine.rs: rules are loaded, the automaton is        *)
(* rebuilt, events are evaluated rule by rule behind two prefilters.       *)
(*                                                                         *)
(* One thread uses several engines in turn; its EvalScratch (a             *)
(* thread_local) outlives events and is shared by the engines.  Loading    *)
(* takes &mut self and evaluation &self, so the two never overlap, and     *)
(* threads that evaluate share nothing that changes.                       *)
(***************************************************************************)
EXTENDS Prefilter, Integers

CONSTANTS Engines, Rules, Inputs,   \* the engines, rules and events of a run
          MaxRules,                 \* bound on the rules of each engine
          BuildMayFail              \* whether AhoCorasick::build may fail

ASSUME RulesAssumption  == Rules \subseteq SigmaRules
ASSUME FiniteAssumption == \A rule \in Rules : IsFiniteSet(InternedLiterals(rule))
ASSUME InputsAssumption == Inputs \subseteq Events
ASSUME BoundAssumption  == MaxRules \in [Engines -> Nat] /\ BuildMayFail \in BOOLEAN

VARIABLES
    phase,          \* "idle", "load_rule", "load_rules" or "evaluate"
    current,        \* the engine that is loading or evaluating
    rules,          \* per engine: the loaded rules
    hot_data,       \* per engine: RuleHotData, parallel to rules
    ac_patterns,    \* per engine: the interned literals; an id is a position
    ac_automaton,   \* per engine: the patterns of the automaton, or none: <<>>
    ac_dirty,       \* per engine
    ac_hits,        \* the thread's EvalScratch: one bit per pattern
    event,          \* the event under evaluation
    rule_idx,       \* the rule whose turn it is
    matches         \* what evaluate_event has collected

engine_vars == <<rules, hot_data, ac_patterns, ac_automaton, ac_dirty>>
eval_vars   == <<ac_hits, event, rule_idx, matches>>
vars        == <<phase, current, engine_vars, eval_vars>>

\* Flat slice [ac_start, ac_start + ac_len) of pattern ids: here a set.
RuleHotData == [cat_hash : Nat, prod_hash : Nat, svc_hash : Nat,
                ac : SUBSET Nat, fully_ac_covered : BOOLEAN]

Init ==
    /\ phase = "idle"
    /\ current \in Engines
    /\ rules = [e \in Engines |-> <<>>]
    /\ hot_data = [e \in Engines |-> <<>>]
    /\ ac_patterns = [e \in Engines |-> <<>>]
    /\ ac_automaton = [e \in Engines |-> <<>>]
    /\ ac_dirty = [e \in Engines |-> FALSE]
    /\ ac_hits = <<>>
    /\ event \in Inputs
    /\ rule_idx = 1
    /\ matches = {}

Elements(s) == {s[i] : i \in 1..Len(s)}

-----------------------------------------------------------------------------
(* Loading.                                                                 *)

StartLoad(e) ==
    /\ phase = "idle"
    /\ Len(rules[e]) < MaxRules[e]
    /\ phase' \in {"load_rule", "load_rules"}
    /\ current' = e
    /\ UNCHANGED <<engine_vars, eval_vars>>

\* The orders in which intern_ac_pattern may meet a set of new literals.
Orders(new) == {s \in [1..Cardinality(new) -> new] : Elements(s) = new}

HotData(rule, patterns) ==
    [cat_hash  |-> HashOf(rule.logsource.category),
     prod_hash |-> HashOf(rule.logsource.product),
     svc_hash  |-> HashOf(rule.logsource.service),
     ac        |-> {i \in 1..Len(patterns) : patterns[i] \in GatedLiterals(rule)},
     fully_ac_covered |-> fully_ac_covered(rule)]

\* load_rule rebuilds after its one rule, load_rules when it has no more.
AfterRule == IF phase = "load_rule" THEN "rebuild" ELSE phase

\* What intern_ac_pattern adds: one slot per literal, shared by all rules.
NewLiterals(rule, known) == InternedLiterals(rule) \ Elements(known)

\* add_compiled_rule on a rule that compiles.
AddCompiledRule(rule) ==
    LET e == current IN
    /\ phase \in {"load_rule", "load_rules"} /\ Len(rules[e]) < MaxRules[e]
    /\ rule.defect = "none"
    /\ \E order \in Orders(NewLiterals(rule, ac_patterns[e])) :
          LET patterns == ac_patterns[e] \o order IN
          /\ ac_patterns' = [ac_patterns EXCEPT ![e] = patterns]
          /\ hot_data' = [hot_data EXCEPT ![e] = Append(@, HotData(rule, patterns))]
    /\ rules' = [rules EXCEPT ![e] = Append(@, rule)]
    /\ ac_dirty' = [ac_dirty EXCEPT ![e] = TRUE]
    /\ phase' = AfterRule
    /\ UNCHANGED <<current, ac_automaton, eval_vars>>

\* Mutant of RejectRule: literals are interned before the regexes are compiled.
RejectRule_Interns(rule) ==
    LET e == current IN
    /\ phase \in {"load_rule", "load_rules"}
    /\ rule.defect # "none"
    /\ \E order \in Orders(NewLiterals(rule, ac_patterns[e])) :
          ac_patterns' = [ac_patterns EXCEPT ![e] = @ \o order]
    /\ phase' = IF phase = "load_rule" THEN "idle" ELSE phase
    /\ UNCHANGED <<current, rules, hot_data, ac_automaton, ac_dirty, eval_vars>>

\* A rule that does not parse or compile is rejected before any state changes.
\* load_rule returns at once; load_rules goes on to the next.
RejectRule(rule) ==
    /\ phase \in {"load_rule", "load_rules"}
    /\ rule.defect # "none"
    /\ phase' = IF phase = "load_rule" THEN "idle" ELSE phase
    /\ UNCHANGED <<current, engine_vars, eval_vars>>

\* rebuild_ac: build(..).ok() leaves no automaton when the build fails.
RebuildAc ==
    LET e == current IN
    /\ phase \in {"rebuild", "load_rules"}
    /\ IF ac_dirty[e]
       THEN \/ ac_automaton' = [ac_automaton EXCEPT ![e] = ac_patterns[e]]
            \/ BuildMayFail /\ ac_automaton' = [ac_automaton EXCEPT ![e] = <<>>]
       ELSE UNCHANGED ac_automaton
    /\ ac_dirty' = [ac_dirty EXCEPT ![e] = FALSE]
    /\ phase' = "idle"
    /\ UNCHANGED <<current, rules, hot_data, ac_patterns, eval_vars>>

-----------------------------------------------------------------------------
(* Evaluation.                                                              *)

\* Mutant of Scanned: the bits of the previous event are kept.
Scanned_Stale(hits, size, automaton, ev) ==
    [i \in 1..size |-> \/ i <= Len(hits) /\ hits[i]
                       \/ i <= Len(automaton) /\ Hits(automaton[i], ev)]

\* prepare_ac resizes the bitmap, reset_ac_hits clears it, run_ac_scan_into sets
\* the bit of every pattern of the automaton that occurs.
Scanned(hits, size, automaton, ev) ==
    [i \in 1..size |-> i <= Len(automaton) /\ Hits(automaton[i], ev)]

StartEvent(e, ev) ==
    /\ phase = "idle"
    /\ phase' = "evaluate"
    /\ current' = e
    /\ event' = ev
    /\ ac_hits' = Scanned(ac_hits, Len(ac_patterns[e]), ac_automaton[e], ev)
    /\ rule_idx' = 1
    /\ matches' = {}
    /\ UNCHANGED engine_vars

\* The two checks of the hot loop.
HashesOk(hot) ==
    /\ logsource_ok(hot.cat_hash, HashOf(event.source.category))
    /\ logsource_ok(hot.prod_hash, HashOf(event.source.product))
    /\ logsource_ok(hot.svc_hash, HashOf(event.source.service))

SkippedByAc(hot) ==
    hot.fully_ac_covered /\ hot.ac # {} /\ \A i \in hot.ac : ~ac_hits[i]

\* What a full evaluation adds: nothing, or one RuleMatch.
FullEvaluation(i) ==
    LET rule  == rules[current][i]
        truth == TrueIdentifiers(rule, event)
    IN IF LogSourceMatches(rule, event) /\ Satisfied(rule, truth) # {}
       THEN {[rule |-> i, identifiers |-> truth, conditions |-> Satisfied(rule, truth)]}
       ELSE {}

\* One turn of the loop of evaluate_event_inner.
EvaluateRule ==
    LET hot == hot_data[current][rule_idx] IN
    /\ phase = "evaluate" /\ rule_idx <= Len(rules[current])
    /\ matches' = IF HashesOk(hot) /\ ~SkippedByAc(hot)
                  THEN matches \union FullEvaluation(rule_idx) ELSE matches
    /\ rule_idx' = rule_idx + 1
    /\ UNCHANGED <<phase, current, engine_vars, ac_hits, event>>

FinishEvent ==
    /\ phase = "evaluate" /\ rule_idx > Len(rules[current])
    /\ phase' = "idle"
    /\ UNCHANGED <<current, engine_vars, eval_vars>>

Next ==
    \/ \E e \in Engines : StartLoad(e) \/ \E ev \in Inputs : StartEvent(e, ev)
    \/ \E rule \in Rules : AddCompiledRule(rule) \/ RejectRule(rule)
    \/ RebuildAc \/ EvaluateRule \/ FinishEvent

Spec == Init /\ [][Next]_vars

-----------------------------------------------------------------------------
(* Properties.                                                              *)

Patterns == Text \ {<<>>}

TypeOK ==
    /\ phase \in {"idle", "load_rule", "load_rules", "rebuild", "evaluate"}
    /\ current \in Engines
    /\ rules \in [Engines -> Seq(Rules)]
    /\ hot_data \in [Engines -> Seq(RuleHotData)]
    /\ ac_patterns \in [Engines -> Seq(Patterns)]
    /\ ac_automaton \in [Engines -> Seq(Patterns)]
    /\ ac_dirty \in [Engines -> BOOLEAN]
    /\ ac_hits \in Seq(BOOLEAN)
    /\ event \in Inputs
    /\ rule_idx \in Nat \ {0}

\* What evaluating every rule in full would have found by now.
Expected(n) ==
    {[rule |-> i, identifiers |-> TrueIdentifiers(rules[current][i], event),
      conditions |-> Satisfied(rules[current][i], TrueIdentifiers(rules[current][i], event))] :
       i \in {k \in 1..n : RuleMatches(rules[current][k], event)}}

\* The prefilters are invisible: after every rule, evaluate_event has collected
\* exactly the matches that evaluating each rule in full would give, whatever was
\* loaded, rejected or evaluated before, on this engine or on another.
PrefiltersInvisible == phase = "evaluate" => matches = Expected(rule_idx - 1)

\* The scratch bitmap speaks of the event and the engine at hand, one bit for each
\* of its patterns: no index of the scan or of a rule is out of its bounds, and
\* nothing is left over from another event or another engine.
HitsAreCurrent ==
    phase = "evaluate" =>
        /\ Len(ac_hits) = Len(ac_patterns[current])
        /\ \A i \in 1..Len(rules[current]) : hot_data[current][i].ac \subseteq DOMAIN ac_hits
        /\ \A i \in DOMAIN ac_hits : ac_hits[i] <=> Hits(ac_patterns[current][i], event)

\* Every interned literal has one slot and comes from a rule that was loaded: a
\* rejected rule leaves no orphan patterns (comment in add_compiled_rule), and no
\* two slots hold the same bytes (comment of intern_ac_pattern).
PatternsOwnedOnce ==
    \A e \in Engines :
        /\ \A i, j \in 1..Len(ac_patterns[e]) :
              ac_patterns[e][i] = ac_patterns[e][j] => i = j
        /\ \A i \in 1..Len(ac_patterns[e]) :
              \E r \in Elements(rules[e]) : ac_patterns[e][i] \in InternedLiterals(r)

\* A comment of compile_ac_gating says of a gated identifier that is true: one of
\* its literals occurs in some event value, "i.e. the AC scan must report a hit".
TrueIdentifiersHit ==
    phase = "evaluate" =>
        \A r \in Elements(rules[current]) :
            \A ident \in {id \in GatedIn(r) : match_identifier(id, event)} :
                \E i \in DOMAIN ac_hits :
                    ac_hits[i] /\ ac_patterns[current][i] \in IdentLiterals(ident)
=============================================================================
