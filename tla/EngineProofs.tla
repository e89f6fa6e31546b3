---------------------------- MODULE EngineProofs ----------------------------
(***************************************************************************)
(* The prefilters of the engine lose no match: for every set of rules and  *)
(* events, every load history and every hash, as long as Unicode and ASCII *)
(* case folding agree on the text (AsciiText) and the automaton is built.  *)
(***************************************************************************)
EXTENDS Engine, FiniteSetTheorems, SequenceTheorems, TLAPS

\* On the text of the rules and events the two foldings are one.
AsciiText == \A c \in Char : Lower[c] = AsciiLower[c] /\ Lower[Lower[c]] = Lower[c]

-----------------------------------------------------------------------------
(* Lemmas about matching and gating.                                        *)

\* Folding keeps the length and folds letter by letter.
LEMMA FoldType ==
    ASSUME NEW case \in [Char -> Char], NEW s \in Text
    PROVE  /\ Fold(case, s) \in Text
           /\ Len(Fold(case, s)) = Len(s)
           /\ \A i \in 1..Len(s) : Fold(case, s)[i] = case[s[i]]
  <1>1. Len(s) \in Nat /\ \A i \in 1..Len(s) : s[i] \in Char
    BY DEF Text
  <1>2. Fold(case, s) \in [1..Len(s) -> Char]
    BY <1>1 DEF Fold
  <1> QED  BY <1>1, <1>2 DEF Fold, Text

\* A function on 1..n is a sequence of length n.
LEMMA FunctionIsSeq ==
    ASSUME NEW S, NEW n \in Nat, NEW f \in [1..n -> S]
    PROVE  f \in Seq(S) /\ Len(f) = n
  OBVIOUS

\* A literal found by the matcher is found by the automaton.
LEMMA AsciiFinds ==
    ASSUME AsciiText, NEW p \in Text, NEW t \in Text,
           Occurs(Fold(Lower, p), Fold(Lower, t))
    PROVE  Occurs(Fold(AsciiLower, Fold(Lower, p)), Fold(AsciiLower, t))
  <1> DEFINE lp == Fold(Lower, p)
             lt == Fold(Lower, t)
             ap == Fold(AsciiLower, lp)
             at == Fold(AsciiLower, t)
  <1>1. /\ lp \in Text /\ Len(lp) = Len(p) /\ Len(lt) = Len(t)
        /\ \A i \in 1..Len(p) : lp[i] = Lower[p[i]]
        /\ \A i \in 1..Len(t) : lt[i] = Lower[t[i]]
    BY FoldType, CharAssumption
  <1>2. /\ Len(ap) = Len(p) /\ Len(at) = Len(t)
        /\ \A i \in 1..Len(p) : ap[i] = AsciiLower[lp[i]]
        /\ \A i \in 1..Len(t) : at[i] = AsciiLower[t[i]]
    BY <1>1, FoldType, AsciiAssumption
  <1>3. /\ Len(p) \in Nat /\ Len(t) \in Nat
        /\ \A i \in 1..Len(p) : p[i] \in Char
        /\ \A i \in 1..Len(t) : t[i] \in Char
    BY DEF Text
  <1>4. /\ \A i \in 1..Len(p) : ap[i] = lp[i]
        /\ \A i \in 1..Len(t) : at[i] = lt[i]
    BY <1>1, <1>2, <1>3, CharAssumption DEF AsciiText
  <1>5. PICK i \in 0..Len(lt) : OccursAt(lp, lt, i)
    BY DEF Occurs
  <1>6. i \in 0..Len(at) /\ i + Len(ap) <= Len(at)
    BY <1>1, <1>2, <1>5 DEF OccursAt
  <1>7. \A j \in 1..Len(ap) : at[i + j] = ap[j]
    <2> SUFFICES ASSUME NEW j \in 1..Len(ap) PROVE at[i + j] = ap[j]
      OBVIOUS
    <2>1. lt[i + j] = lp[j]
      BY <1>1, <1>2, <1>5 DEF OccursAt
    <2>2. i + j \in 1..Len(t) /\ j \in 1..Len(p)
      BY <1>2, <1>3, <1>6
    <2> QED  BY <2>1, <2>2, <1>4
  <1> QED  BY <1>6, <1>7 DEF Occurs, OccursAt

\* Every string mode of value_matches finds the value inside the text.
LEMMA MatchOccurs ==
    ASSUME NEW v \in Values, NEW modifiers, NEW text \in Text,
           value_matches(v, modifiers, text)
    PROVE  Occurs(Fold(Lower, v.text), Fold(Lower, text))
  <1> DEFINE p == Fold(Lower, v.text)
             t == Fold(Lower, text)
  <1>1. p \in Text /\ t \in Text
    BY FoldType, CharAssumption DEF Values
  <1>2. Len(p) \in Nat /\ Len(t) \in Nat
    BY <1>1 DEF Text
  <1>3. OccursAt(p, t, 0) => Occurs(p, t)
    BY <1>2 DEF Occurs
  <1>4. Len(p) <= Len(t) /\ OccursAt(p, t, Len(t) - Len(p)) => Occurs(p, t)
    BY <1>2 DEF Occurs
  <1>5. p = t => OccursAt(p, t, 0)
    BY <1>2 DEF OccursAt
  <1> HIDE DEF p, t
  <1>6. Occurs(p, t) \/ OccursAt(p, t, 0)
          \/ (Len(p) <= Len(t) /\ OccursAt(p, t, Len(t) - Len(p))) \/ p = t
    BY DEF value_matches, p, t
  <1> QED  BY <1>3, <1>4, <1>5, <1>6 DEF p, t

\* A matching condition that can gate has a literal that occurs in the event.
LEMMA ConditionHits ==
    ASSUME AsciiText, NEW cond \in FieldConditions, NEW ev \in Events,
           CanGate(cond), match_field_condition(cond, ev)
    PROVE  \E lit \in Literals(cond) : Hits(lit, ev)
  <1>1. ComparesText(cond)
    BY DEF CanGate, is_ac_eligible, ComparesText, FieldConditions, Modifiers
  <1>2. PICK cell \in CellsOf(cond, ev) :
            \E v \in cond.values : value_matches(v, cond.modifiers, cell[2])
    BY <1>1 DEF match_field_condition, CanGate
  <1>3. PICK v \in cond.values : value_matches(v, cond.modifiers, cell[2])
    BY <1>2
  <1>4. cell \in ev.cells /\ cell[2] \in Text
    BY DEF CellsOf, Events
  <1>5. v \in Values /\ v.text \in Text
    BY DEF FieldConditions, Values
  <1>6. Occurs(Fold(Lower, v.text), Fold(Lower, cell[2]))
    BY <1>3, <1>4, <1>5, MatchOccurs
  <1>7. Hits(Fold(Lower, v.text), ev)
    BY <1>4, <1>5, <1>6, AsciiFinds DEF Hits
  <1> QED  BY <1>7 DEF Literals

\* The comment of compile_ac_gating: a gated identifier that is true has a literal
\* in some value of the event.
LEMMA IdentifierHits ==
    ASSUME AsciiText, NEW ident \in SearchIdentifiers, NEW ev \in Events,
           Gated(ident), match_identifier(ident, ev)
    PROVE  \E lit \in IdentLiterals(ident) : Hits(lit, ev)
  <1>1. PICK group \in ident.groups :
            \A cond \in group : match_field_condition(cond, ev)
    BY DEF match_identifier
  <1>2. PICK cond \in group : CanGate(cond)
    BY DEF Gated
  <1>3. cond \in FieldConditions
    BY DEF SearchIdentifiers, Groups
  <1>4. \E lit \in Literals(cond) : Hits(lit, ev)
    BY <1>1, <1>2, <1>3, ConditionHits
  <1> QED  BY <1>2, <1>4 DEF IdentLiterals

\* A covered rule none of whose literals occurs does not match.
LEMMA SkipIsSound ==
    ASSUME AsciiText, NEW rule \in SigmaRules, NEW ev \in Events,
           fully_ac_covered(rule), \A lit \in GatedLiterals(rule) : ~Hits(lit, ev)
    PROVE  Satisfied(rule, TrueIdentifiers(rule, ev)) = {}
  <1> DEFINE true == {ident \in rule.identifiers : match_identifier(ident, ev)}
  <1>1. ASSUME NEW ident \in true PROVE ~Gated(ident)
    <2>1. ident \in SearchIdentifiers
      BY <1>1 DEF SigmaRules
    <2>2. Gated(ident) => IdentLiterals(ident) \subseteq GatedLiterals(rule)
      BY <1>1 DEF GatedLiterals, GatedIn
    <2> QED  BY <1>1, <2>1, <2>2, IdentifierHits
  <1>2. true \in SUBSET UngatedIn(rule)
    BY <1>1 DEF UngatedIn, GatedIn
  <1> QED  BY <1>2 DEF fully_ac_covered, conditions_require_gated_hit, TrueIdentifiers

\* An event of the right logsource passes the comparison of the hashes.
LEMMA HashIsSound ==
    ASSUME NEW wanted \in Source \union {Absent}, NEW given \in Source \union {Absent},
           SourceOk(wanted, given)
    PROVE  logsource_ok(HashOf(wanted), HashOf(given))
  BY HashAssumption DEF SourceOk, logsource_ok, HashOf

\* What a loaded rule interns is never the empty text.
LEMMA LiteralType ==
    ASSUME NEW rule \in SigmaRules
    PROVE  /\ InternedLiterals(rule) \subseteq Patterns
           /\ GatedLiterals(rule) \subseteq InternedLiterals(rule)
  <1>1. ASSUME NEW ident \in rule.identifiers, NEW lit \in IdentLiterals(ident)
        PROVE  lit \in Patterns
    <2>1. PICK cond \in UNION ident.groups : CanGate(cond) /\ lit \in Literals(cond)
      BY DEF IdentLiterals
    <2>2. cond \in FieldConditions
      BY <2>1 DEF SigmaRules, SearchIdentifiers, Groups
    <2>3. PICK v \in cond.values : lit = Fold(Lower, v.text)
      BY <2>1 DEF Literals
    <2>4. v.text \in Text /\ v.text # <<>>
      BY <2>1, <2>2 DEF CanGate, FieldConditions, Values
    <2>5. lit \in Text /\ Len(lit) = Len(v.text)
      BY <2>3, <2>4, FoldType, CharAssumption
    <2>6. Len(v.text) # 0
      BY <2>4, EmptySeq DEF Text
    <2> QED  BY <2>5, <2>6 DEF Patterns
  <1>2. InternedLiterals(rule) \subseteq Patterns
    BY <1>1 DEF InternedLiterals
  <1>3. GatedLiterals(rule) \subseteq InternedLiterals(rule)
    BY DEF GatedLiterals, InternedLiterals, GatedIn
  <1> QED  BY <1>2, <1>3

\* Interning keeps the patterns there were and adds every literal of the rule.
LEMMA Interning ==
    ASSUME NEW rule \in Rules, NEW known \in Seq(Patterns),
           NEW order \in Orders(NewLiterals(rule, known))
    PROVE  /\ known \o order \in Seq(Patterns)
           /\ Len(known \o order) \in Nat /\ Len(known) <= Len(known \o order)
           /\ \A i \in 1..Len(known) : (known \o order)[i] = known[i]
           /\ InternedLiterals(rule) \subseteq Elements(known \o order)
  <1> DEFINE new == NewLiterals(rule, known)
  <1>1. IsFiniteSet(new)
    BY FiniteAssumption, FS_Subset DEF NewLiterals
  <1>2. Cardinality(new) \in Nat
    BY <1>1, FS_CardinalityType
  <1>3. new \subseteq Patterns
    BY LiteralType, RulesAssumption DEF NewLiterals
  <1>4. order \in [1..Cardinality(new) -> Patterns] /\ Elements(order) = new
    BY <1>3 DEF Orders
  <1>5. order \in Seq(Patterns)
    BY <1>2, <1>4
  <1>6. /\ known \o order \in Seq(Patterns)
        /\ Len(known \o order) = Len(known) + Len(order)
        /\ Len(known) \in Nat /\ Len(order) \in Nat
        /\ \A i \in 1..Len(known) : (known \o order)[i] = known[i]
        /\ \A j \in 1..Len(order) : (known \o order)[Len(known) + j] = order[j]
    BY <1>5
  <1>7. ASSUME NEW lit \in InternedLiterals(rule)
        PROVE  lit \in Elements(known \o order)
    <2>1. CASE lit \in Elements(known)
      <3>1. PICK i \in 1..Len(known) : lit = known[i]
        BY <2>1 DEF Elements
      <3>2. i \in 1..Len(known \o order) /\ (known \o order)[i] = lit
        BY <3>1, <1>6
      <3> QED  BY <3>2 DEF Elements
    <2>2. CASE lit \in new
      <3>1. PICK j \in 1..Len(order) : lit = order[j]
        BY <2>2, <1>4 DEF Elements
      <3>2. /\ Len(known) + j \in 1..Len(known \o order)
            /\ (known \o order)[Len(known) + j] = lit
        BY <3>1, <1>6
      <3> QED  BY <3>2 DEF Elements
    <2> QED  BY <2>1, <2>2 DEF NewLiterals
  <1> QED  BY <1>6, <1>7

-----------------------------------------------------------------------------
(* The inductive invariant.                                                 *)

\* The hot data of a rule says what the rule and the patterns say.
HotOf(hot, rule, patterns) ==
    /\ hot.cat_hash = HashOf(rule.logsource.category)
    /\ hot.prod_hash = HashOf(rule.logsource.product)
    /\ hot.svc_hash = HashOf(rule.logsource.service)
    /\ hot.fully_ac_covered = fully_ac_covered(rule)
    /\ hot.ac \subseteq 1..Len(patterns)
    /\ \A lit \in GatedLiterals(rule) : \E i \in hot.ac : patterns[i] = lit

Loaded ==
    \A e \in Engines :
        /\ Len(hot_data[e]) = Len(rules[e])
        /\ \A i \in 1..Len(rules[e]) : HotOf(hot_data[e][i], rules[e][i], ac_patterns[e])

\* The automaton lags behind the patterns only while its engine is loading.
Built ==
    \A e \in Engines :
        /\ ac_dirty[e] => e = current /\ phase \in {"rebuild", "load_rules"}
        /\ ~ac_dirty[e] => ac_automaton[e] = ac_patterns[e]

Evaluating ==
    phase = "evaluate" =>
        /\ rule_idx \in 1..(Len(rules[current]) + 1)
        /\ Len(ac_hits) = Len(ac_patterns[current])
        /\ \A i \in 1..Len(ac_hits) : ac_hits[i] <=> Hits(ac_patterns[current][i], event)
        /\ matches = Expected(rule_idx - 1)

\* Every variable keeps its type: in particular no empty pattern reaches the
\* automaton, and hot data stays well formed.
THEOREM EngineTyping == Spec => []TypeOK
<1>1. Init => TypeOK
  BY DEF Init, TypeOK
<1>2. TypeOK /\ [Next]_vars => TypeOK'
  <2> SUFFICES ASSUME TypeOK, [Next]_vars PROVE TypeOK'
    OBVIOUS
  <2> USE DEF TypeOK
  <2>1. ASSUME NEW e \in Engines, StartLoad(e) PROVE TypeOK'
    BY <2>1 DEF StartLoad, engine_vars, eval_vars
  <2>2. ASSUME NEW e \in Engines, NEW ev \in Inputs, StartEvent(e, ev) PROVE TypeOK'
    <3>1. Len(ac_patterns[e]) \in Nat
      OBVIOUS
    <3>2. Scanned(ac_hits, Len(ac_patterns[e]), ac_automaton[e], ev)
             \in [1..Len(ac_patterns[e]) -> BOOLEAN]
      BY DEF Scanned
    <3>3. Scanned(ac_hits, Len(ac_patterns[e]), ac_automaton[e], ev) \in Seq(BOOLEAN)
      BY ONLY <3>1, <3>2, FunctionIsSeq
    <3>4. ac_hits' \in Seq(BOOLEAN)
      BY ONLY <2>2, <3>3 DEF StartEvent
    <3> QED  BY <2>2, <3>4 DEF StartEvent, engine_vars
  <2>3. ASSUME NEW rule \in Rules, AddCompiledRule(rule) PROVE TypeOK'
    <3>1. PICK order \in Orders(NewLiterals(rule, ac_patterns[current])) :
            /\ ac_patterns' = [ac_patterns EXCEPT ![current] = ac_patterns[current] \o order]
            /\ hot_data' = [hot_data EXCEPT ![current] =
                              Append(@, HotData(rule, ac_patterns[current] \o order))]
      BY <2>3 DEF AddCompiledRule
    <3> DEFINE patterns == ac_patterns[current] \o order
    <3>2. patterns \in Seq(Patterns) /\ Len(patterns) \in Nat
      BY Interning
    <3>3. HotData(rule, patterns) \in RuleHotData
      <4>1. rule.logsource \in LogSources
        BY RulesAssumption DEF SigmaRules
      <4>2. /\ HashOf(rule.logsource.category) \in Nat
            /\ HashOf(rule.logsource.product) \in Nat
            /\ HashOf(rule.logsource.service) \in Nat
        BY <4>1, HashAssumption DEF LogSources, HashOf
      <4>3. fully_ac_covered(rule) \in BOOLEAN
        BY DEF fully_ac_covered
      <4> QED  BY <3>2, <4>2, <4>3 DEF HotData, RuleHotData
    <3>4. ac_patterns' \in [Engines -> Seq(Patterns)]
      BY <3>1, <3>2
    <3>5. hot_data' \in [Engines -> Seq(RuleHotData)]
      BY <3>1, <3>3
    <3>6. rules' \in [Engines -> Seq(Rules)]
      BY <2>3 DEF AddCompiledRule
    <3> QED  BY <2>3, <3>4, <3>5, <3>6 DEF AddCompiledRule, AfterRule, eval_vars
  <2>4. ASSUME NEW rule \in Rules, RejectRule(rule) PROVE TypeOK'
    BY <2>4 DEF RejectRule, engine_vars, eval_vars
  <2>5. CASE RebuildAc
    <3>1. \/ ac_automaton' = [ac_automaton EXCEPT ![current] = ac_patterns[current]]
          \/ ac_automaton' = [ac_automaton EXCEPT ![current] = <<>>]
          \/ ac_automaton' = ac_automaton
      BY ONLY <2>5 DEF RebuildAc
    <3>2. ac_patterns[current] \in Seq(Patterns) /\ <<>> \in Seq(Patterns)
      OBVIOUS
    <3>3. ac_automaton' \in [Engines -> Seq(Patterns)]
      BY <3>1, <3>2
    <3> QED  BY <2>5, <3>3 DEF RebuildAc, eval_vars
  <2>6. CASE EvaluateRule
    BY <2>6 DEF EvaluateRule, engine_vars
  <2>7. CASE FinishEvent
    BY <2>7 DEF FinishEvent, engine_vars, eval_vars
  <2>8. CASE UNCHANGED vars
    BY <2>8 DEF vars, engine_vars, eval_vars
  <2> QED  BY <2>1, <2>2, <2>3, <2>4, <2>5, <2>6, <2>7, <2>8 DEF Next
<1> QED  BY <1>1, <1>2, PTL DEF Spec

\* The hot data of old rules survives the interning of new literals.
LEMMA HotMonotone ==
    ASSUME NEW hot, NEW rule, NEW old \in Seq(Patterns), NEW new \in Seq(Patterns),
           Len(old) <= Len(new), \A i \in 1..Len(old) : new[i] = old[i],
           HotOf(hot, rule, old)
    PROVE  HotOf(hot, rule, new)
  <1>1. hot.ac \subseteq 1..Len(new)
    BY DEF HotOf
  <1>2. \A lit \in GatedLiterals(rule) : \E i \in hot.ac : new[i] = lit
    BY DEF HotOf
  <1> QED  BY <1>1, <1>2 DEF HotOf

\* Loading a rule leaves every hot datum right, the new one included.
LEMMA LoadKeepsLoaded ==
    ASSUME TypeOK, Loaded, NEW rule \in Rules, AddCompiledRule(rule)
    PROVE  Loaded'
  <1> DEFINE e == current
  <1>1. PICK order \in Orders(NewLiterals(rule, ac_patterns[e])) :
          /\ ac_patterns' = [ac_patterns EXCEPT ![e] = ac_patterns[e] \o order]
          /\ hot_data' = [hot_data EXCEPT ![e] =
                            Append(@, HotData(rule, ac_patterns[e] \o order))]
    BY DEF AddCompiledRule
  <1> DEFINE patterns == ac_patterns[e] \o order
  <1>2. rules' = [rules EXCEPT ![e] = Append(@, rule)]
    BY DEF AddCompiledRule
  <1>3. /\ e \in Engines /\ ac_patterns[e] \in Seq(Patterns)
        /\ rules[e] \in Seq(Rules) /\ hot_data[e] \in Seq(RuleHotData)
        /\ rules \in [Engines -> Seq(Rules)] /\ hot_data \in [Engines -> Seq(RuleHotData)]
        /\ ac_patterns \in [Engines -> Seq(Patterns)]
    BY DEF TypeOK
  <1>4. /\ patterns \in Seq(Patterns) /\ Len(ac_patterns[e]) <= Len(patterns)
        /\ \A i \in 1..Len(ac_patterns[e]) : patterns[i] = ac_patterns[e][i]
        /\ InternedLiterals(rule) \subseteq Elements(patterns)
    BY <1>3, Interning
  <1>5. HotOf(HotData(rule, patterns), rule, patterns)
    <2>1. \A lit \in GatedLiterals(rule) : \E i \in 1..Len(patterns) : patterns[i] = lit
      BY <1>4, LiteralType, RulesAssumption DEF Elements
    <2> HIDE DEF patterns
    <2> QED  BY <2>1 DEF HotData, HotOf
  <1> HIDE DEF patterns
  <1>6. ASSUME NEW f \in Engines
        PROVE  /\ Len(hot_data'[f]) = Len(rules'[f])
               /\ \A i \in 1..Len(rules'[f]) :
                     HotOf(hot_data'[f][i], rules'[f][i], ac_patterns'[f])
    <2>1. CASE f # e
      <3>1. hot_data'[f] = hot_data[f] /\ rules'[f] = rules[f]
              /\ ac_patterns'[f] = ac_patterns[f]
        BY <2>1, <1>1, <1>2, <1>3
      <3> QED  BY <3>1 DEF Loaded
    <2>2. CASE f = e
      <3>1. /\ hot_data'[e] = Append(hot_data[e], HotData(rule, patterns))
            /\ rules'[e] = Append(rules[e], rule) /\ ac_patterns'[e] = patterns
        BY <1>1, <1>2, <1>3 DEF patterns
      <3>2. Len(hot_data[e]) = Len(rules[e]) /\ Len(rules[e]) \in Nat
        BY <1>3 DEF Loaded
      <3>3. ASSUME NEW i \in 1..Len(rules'[e])
            PROVE  HotOf(hot_data'[e][i], rules'[e][i], ac_patterns'[e])
        <4>1. CASE i \in 1..Len(rules[e])
          <5>1. hot_data'[e][i] = hot_data[e][i] /\ rules'[e][i] = rules[e][i]
            BY <4>1, <3>1, <3>2, <1>3
          <5>2. HotOf(hot_data[e][i], rules[e][i], ac_patterns[e])
            BY <4>1, <1>3 DEF Loaded
          <5> QED  BY <5>1, <5>2, <3>1, <1>3, <1>4, HotMonotone
        <4>2. CASE i = Len(rules[e]) + 1
          <5>1. hot_data'[e][i] = HotData(rule, patterns) /\ rules'[e][i] = rule
            BY <4>2, <3>1, <3>2, <1>3
          <5> QED  BY <5>1, <3>1, <1>5
        <4> QED  BY <4>1, <4>2, <3>1, <3>2, <1>3
      <3> QED  BY <2>2, <3>1, <3>2, <3>3, <1>3
    <2> QED  BY <2>1, <2>2
  <1> QED  BY <1>6 DEF Loaded

\* A matching rule passes both checks of the hot loop.
LEMMA HotLoopKeepsMatches ==
    ASSUME AsciiText, TypeOK, Loaded, Evaluating,
           phase = "evaluate", rule_idx <= Len(rules[current]),
           RuleMatches(rules[current][rule_idx], event)
    PROVE  LET hot == hot_data[current][rule_idx] IN HashesOk(hot) /\ ~SkippedByAc(hot)
  <1> DEFINE rule == rules[current][rule_idx]
             hot  == hot_data[current][rule_idx]
             pats == ac_patterns[current]
  <1>1. rule_idx \in 1..Len(rules[current]) /\ rule \in SigmaRules /\ event \in Events
    BY RulesAssumption, InputsAssumption DEF TypeOK
  <1>2. HotOf(hot, rule, pats)
    BY <1>1 DEF Loaded, TypeOK
  <1>3. HashesOk(hot)
    <2>1. rule.logsource \in LogSources /\ event.source \in LogSources
      BY <1>1 DEF SigmaRules, Events
    <2>2. LogSourceMatches(rule, event)
      BY DEF RuleMatches
    <2> HIDE DEF rule, hot
    <2> QED  BY <1>2, <2>1, <2>2, HashIsSound
             DEF HotOf, HashesOk, LogSourceMatches, LogSources
  <1>4. ~SkippedByAc(hot)
    <2> SUFFICES ASSUME SkippedByAc(hot) PROVE FALSE
      OBVIOUS
    <2>1. fully_ac_covered(rule)
      BY <1>2 DEF SkippedByAc, HotOf
    <2>2. ASSUME NEW lit \in GatedLiterals(rule) PROVE ~Hits(lit, event)
      <3>1. PICK i \in hot.ac : pats[i] = lit
        BY <1>2 DEF HotOf
      <3>2. ~ac_hits[i] /\ i \in 1..Len(ac_hits)
        BY <1>2, <3>1 DEF SkippedByAc, HotOf, Evaluating
      <3> QED  BY <3>1, <3>2 DEF Evaluating
    <2>3. Satisfied(rule, TrueIdentifiers(rule, event)) = {}
      BY <1>1, <2>1, <2>2, SkipIsSound
    <2> QED  BY <2>3 DEF RuleMatches
  <1> QED  BY <1>3, <1>4

\* One turn of the loop adds exactly what a full evaluation would.
LEMMA TurnIsExact ==
    ASSUME AsciiText, TypeOK, Loaded, Evaluating, EvaluateRule
    PROVE  matches' = Expected(rule_idx)
  <1> DEFINE rule == rules[current][rule_idx]
             One(i) == [rule |-> i,
                        identifiers |-> TrueIdentifiers(rules[current][i], event),
                        conditions |-> Satisfied(rules[current][i],
                                         TrueIdentifiers(rules[current][i], event))]
  <1>1. rule_idx \in Nat \ {0}
    BY DEF TypeOK
  <1>2. matches = Expected(rule_idx - 1)
    BY DEF EvaluateRule, Evaluating
  <1>3. Expected(rule_idx) = Expected(rule_idx - 1) \union
          (IF RuleMatches(rule, event) THEN {One(rule_idx)} ELSE {})
    BY <1>1 DEF Expected
  <1>4. FullEvaluation(rule_idx) =
          IF RuleMatches(rule, event) THEN {One(rule_idx)} ELSE {}
    BY DEF FullEvaluation, RuleMatches
  <1>5. CASE RuleMatches(rule, event)
    <2>1. HashesOk(hot_data[current][rule_idx]) /\ ~SkippedByAc(hot_data[current][rule_idx])
      BY <1>5, HotLoopKeepsMatches DEF EvaluateRule
    <2>2. matches' = matches \union FullEvaluation(rule_idx)
      BY <2>1 DEF EvaluateRule
    <2> QED  BY <1>2, <1>3, <1>4, <2>2
  <1>6. CASE ~RuleMatches(rule, event)
    <2>1. matches' = matches
      BY <1>4, <1>6 DEF EvaluateRule
    <2> QED  BY <1>2, <1>3, <1>6, <2>1
  <1> QED  BY <1>5, <1>6

IInv == Loaded /\ Built /\ Evaluating

\* The invariant is inductive.
LEMMA Invariance ==
    ASSUME AsciiText, BuildMayFail = FALSE
    PROVE  Spec => [](TypeOK /\ IInv)
<1> USE DEF IInv
<1>1. Init => IInv
  BY DEF Init, Loaded, Built, Evaluating
<1>2. TypeOK /\ IInv /\ [Next]_vars => IInv'
  <2> SUFFICES ASSUME TypeOK, IInv, [Next]_vars PROVE IInv'
    OBVIOUS
  <2>1. ASSUME NEW e \in Engines, StartLoad(e) PROVE IInv'
    BY <2>1 DEF StartLoad, Loaded, Built, Evaluating, engine_vars
  <2>2. ASSUME NEW e \in Engines, NEW ev \in Inputs, StartEvent(e, ev) PROVE IInv'
    <3>1. Loaded' /\ Built'
      BY <2>2 DEF StartEvent, Loaded, Built, engine_vars
    <3>2. ac_automaton[e] = ac_patterns[e] /\ Len(ac_patterns[e]) \in Nat
      BY <2>2 DEF StartEvent, Built, TypeOK
    <3>3. /\ ac_hits' \in [1..Len(ac_patterns[e]) -> BOOLEAN]
          /\ \A i \in 1..Len(ac_patterns[e]) :
                ac_hits'[i] <=> Hits(ac_patterns[e][i], ev)
      <4>1. ac_hits' = Scanned(ac_hits, Len(ac_patterns[e]), ac_patterns[e], ev)
        BY <2>2, <3>2 DEF StartEvent
      <4>2. \A pattern : Hits(pattern, ev) \in BOOLEAN
        BY DEF Hits
      <4> QED  BY ONLY <3>2, <4>1, <4>2 DEF Scanned
    <3>4. Len(ac_hits') = Len(ac_patterns[e])
      BY ONLY <3>2, <3>3, FunctionIsSeq
    <3>5. Expected(0)' = {}
      BY DEF Expected
    <3>6. rule_idx' = 1 /\ rule_idx' - 1 = 0 /\ rule_idx' \in 1..(Len(rules[e]) + 1)
      BY <2>2 DEF StartEvent, TypeOK
    <3>7. (matches = Expected(rule_idx - 1))'
      BY <2>2, <3>5, <3>6 DEF StartEvent
    <3>8. current' = e /\ event' = ev /\ ac_patterns' = ac_patterns /\ rules' = rules
      BY <2>2 DEF StartEvent, engine_vars
    <3> QED  BY <3>1, <3>3, <3>4, <3>6, <3>7, <3>8 DEF Evaluating
  <2>3. ASSUME NEW rule \in Rules, AddCompiledRule(rule) PROVE IInv'
    <3>1. Built'
      BY <2>3 DEF AddCompiledRule, AfterRule, Built, TypeOK
    <3>2. Evaluating'
      BY <2>3 DEF AddCompiledRule, AfterRule, Evaluating
    <3> QED  BY <2>3, <3>1, <3>2, LoadKeepsLoaded
  <2>4. ASSUME NEW rule \in Rules, RejectRule(rule) PROVE IInv'
    BY <2>4 DEF RejectRule, Loaded, Built, Evaluating, engine_vars
  <2>5. CASE RebuildAc
    BY <2>5 DEF RebuildAc, Loaded, Built, Evaluating, TypeOK
  <2>6. CASE EvaluateRule
    <3>1. Loaded' /\ Built'
      BY <2>6 DEF EvaluateRule, Loaded, Built, engine_vars
    <3>2. matches' = Expected(rule_idx)
      BY <2>6, TurnIsExact
    <3>3. rule_idx' = rule_idx + 1 /\ rule_idx' - 1 = rule_idx
            /\ rule_idx' \in 1..(Len(rules[current]) + 1)
      BY <2>6 DEF EvaluateRule, TypeOK
    <3>4. UNCHANGED <<current, rules, event, ac_hits, ac_patterns>>
      BY <2>6 DEF EvaluateRule, engine_vars
    <3>5. (matches = Expected(rule_idx - 1))'
      BY <3>2, <3>3, <3>4 DEF Expected
    <3> QED  BY <2>6, <3>1, <3>3, <3>4, <3>5 DEF Evaluating, EvaluateRule
  <2>7. CASE FinishEvent
    BY <2>7 DEF FinishEvent, Loaded, Built, Evaluating, engine_vars
  <2>8. CASE UNCHANGED vars
    BY <2>8 DEF vars, engine_vars, eval_vars, Loaded, Built, Evaluating, Expected
  <2> QED  BY <2>1, <2>2, <2>3, <2>4, <2>5, <2>6, <2>7, <2>8 DEF Next
<1> HIDE DEF IInv
<1> QED  BY <1>1, <1>2, EngineTyping, PTL DEF Spec

\* The prefilters lose no match and invent none: behind the hash comparison and the
\* automaton, evaluate_event returns what evaluating every rule in full returns.
THEOREM PrefiltersLoseNothing ==
    ASSUME AsciiText, BuildMayFail = FALSE
    PROVE  Spec => []PrefiltersInvisible
<1>1. IInv => PrefiltersInvisible
  BY DEF IInv, Evaluating, PrefiltersInvisible
<1> QED  BY <1>1, Invariance, PTL

\* The thread's scratch bitmap always speaks of the event and engine at hand, and
\* no pattern id of the scan or of a rule is out of its bounds.
THEOREM ScratchIsCurrent ==
    ASSUME AsciiText, BuildMayFail = FALSE
    PROVE  Spec => []HitsAreCurrent
<1>1. TypeOK /\ IInv => HitsAreCurrent
  <2> SUFFICES ASSUME TypeOK, IInv, phase = "evaluate" PROVE HitsAreCurrent
    BY DEF HitsAreCurrent
  <2>1. /\ Len(ac_hits) = Len(ac_patterns[current])
        /\ DOMAIN ac_hits = 1..Len(ac_hits)
        /\ \A i \in 1..Len(ac_hits) : ac_hits[i] <=> Hits(ac_patterns[current][i], event)
    BY DEF IInv, Evaluating, TypeOK
  <2>2. ASSUME NEW i \in 1..Len(rules[current])
        PROVE  hot_data[current][i].ac \subseteq 1..Len(ac_patterns[current])
    BY DEF IInv, Loaded, HotOf, TypeOK
  <2> QED  BY <2>1, <2>2 DEF HitsAreCurrent
<1> QED  BY <1>1, Invariance, PTL

-----------------------------------------------------------------------------
(* The pattern table.                                                       *)

\* Interning meets every new literal once: no two slots hold the same bytes, and
\* nothing is interned that the rule does not ask for.
LEMMA InterningOnce ==
    ASSUME NEW rule \in Rules, NEW known \in Seq(Patterns),
           NEW order \in Orders(NewLiterals(rule, known)),
           \A i, j \in 1..Len(known) : known[i] = known[j] => i = j
    PROVE  /\ \A i, j \in 1..Len(known \o order) :
                 (known \o order)[i] = (known \o order)[j] => i = j
           /\ \A i \in 1..Len(known \o order) :
                 \/ i \in 1..Len(known) /\ (known \o order)[i] = known[i]
                 \/ (known \o order)[i] \in InternedLiterals(rule)
  <1> DEFINE new == NewLiterals(rule, known)
             n == Cardinality(new)
  <1>1. IsFiniteSet(new) /\ n \in Nat
    BY FiniteAssumption, FS_Subset, FS_CardinalityType DEF NewLiterals
  <1>2. new \subseteq Patterns
    BY LiteralType, RulesAssumption DEF NewLiterals
  <1>3. order \in [1..n -> new] /\ Elements(order) = new
    BY DEF Orders
  <1>4. Len(order) = n /\ order \in Seq(Patterns)
    BY <1>1, <1>2, <1>3
  <1>5. \A i, j \in 1..n : order[i] = order[j] => i = j
    <2>1. \A x \in new : \E i \in 1..n : order[i] = x
      BY <1>3, <1>4 DEF Elements
    <2>2. order \in Surjection(1..n, new)
      BY <1>3, <2>1 DEF Surjection
    <2>3. IsFiniteSet(1..n) /\ Cardinality(1..n) = n
      BY <1>1, FS_Interval
    <2>4. order \in Injection(1..n, new)
      BY <1>1, <2>2, <2>3, FS_SurjSameCardinalityImpliesInj
    <2> QED  BY <2>4 DEF Injection, IsInjective
  <1> HIDE DEF n, new
  <1>6. /\ Len(known \o order) = Len(known) + n /\ Len(known) \in Nat
        /\ \A i \in 1..Len(known) : (known \o order)[i] = known[i]
        /\ \A i \in 1..n : (known \o order)[Len(known) + i] = order[i]
    BY <1>1, <1>4
  <1>7. ASSUME NEW i \in 1..Len(known \o order)
        PROVE  \/ i \in 1..Len(known) /\ (known \o order)[i] = known[i]
               \/ /\ i > Len(known) /\ i - Len(known) \in 1..n
                  /\ (known \o order)[i] = order[i - Len(known)]
    <2>1. CASE i \in 1..Len(known)
      BY <1>6, <2>1
    <2>2. CASE i \notin 1..Len(known)
      <3>1. i > Len(known) /\ i - Len(known) \in 1..n /\ Len(known) + (i - Len(known)) = i
        BY <1>1, <1>6, <2>2
      <3> QED  BY <1>6, <3>1
    <2> QED  BY <2>1, <2>2
  <1>8. \A i \in 1..n : order[i] \in InternedLiterals(rule) /\ order[i] \notin Elements(known)
    BY <1>3 DEF new, NewLiterals
  <1>9. ASSUME NEW i \in 1..Len(known \o order), NEW j \in 1..Len(known \o order),
               (known \o order)[i] = (known \o order)[j]
        PROVE  i = j
    <2>1. CASE i \in 1..Len(known) /\ j \in 1..Len(known)
      BY <1>6, <1>9, <2>1
    <2>2. CASE i \notin 1..Len(known) /\ j \notin 1..Len(known)
      <3>1. i - Len(known) = j - Len(known)
        BY <1>5, <1>7, <1>9, <2>2
      <3> QED  BY <1>6, <3>1
    <2>3. CASE i \in 1..Len(known) /\ j \notin 1..Len(known)
      <3>1. known[i] = order[j - Len(known)] /\ j - Len(known) \in 1..n
        BY <1>7, <1>6, <1>9, <2>3
      <3> QED  BY <1>8, <3>1, <2>3 DEF Elements
    <2>4. CASE i \notin 1..Len(known) /\ j \in 1..Len(known)
      <3>1. known[j] = order[i - Len(known)] /\ i - Len(known) \in 1..n
        BY <1>7, <1>6, <1>9, <2>4
      <3> QED  BY <1>8, <3>1, <2>4 DEF Elements
    <2> QED  BY <2>1, <2>2, <2>3, <2>4
  <1> QED  BY <1>7, <1>8, <1>9

\* Every interned literal has one slot and belongs to a rule that was loaded,
\* for any rules, engines and sequence of loads, rejections and evaluations.
THEOREM PatternsStayOwned == Spec => []PatternsOwnedOnce
<1>1. Init => PatternsOwnedOnce
  BY DEF Init, PatternsOwnedOnce
<1>2. TypeOK /\ PatternsOwnedOnce /\ [Next]_vars => PatternsOwnedOnce'
  <2> SUFFICES ASSUME TypeOK, PatternsOwnedOnce, [Next]_vars PROVE PatternsOwnedOnce'
    OBVIOUS
  <2>1. ASSUME NEW rule \in Rules, AddCompiledRule(rule) PROVE PatternsOwnedOnce'
    <3> DEFINE e == current
    <3>1. PICK order \in Orders(NewLiterals(rule, ac_patterns[e])) :
            ac_patterns' = [ac_patterns EXCEPT ![e] = ac_patterns[e] \o order]
      BY <2>1 DEF AddCompiledRule
    <3>2. rules' = [rules EXCEPT ![e] = Append(@, rule)]
      BY <2>1 DEF AddCompiledRule
    <3>3. /\ e \in Engines /\ ac_patterns[e] \in Seq(Patterns) /\ rules[e] \in Seq(Rules)
          /\ rules \in [Engines -> Seq(Rules)] /\ ac_patterns \in [Engines -> Seq(Patterns)]
      BY DEF TypeOK
    <3> DEFINE patterns == ac_patterns[e] \o order
    <3>4. /\ \A i, j \in 1..Len(ac_patterns[e]) :
                ac_patterns[e][i] = ac_patterns[e][j] => i = j
          /\ \A i \in 1..Len(ac_patterns[e]) :
                \E r \in Elements(rules[e]) : ac_patterns[e][i] \in InternedLiterals(r)
      BY <3>3 DEF PatternsOwnedOnce
    <3>5. /\ \A i, j \in 1..Len(patterns) : patterns[i] = patterns[j] => i = j
          /\ \A i \in 1..Len(patterns) :
                \/ i \in 1..Len(ac_patterns[e]) /\ patterns[i] = ac_patterns[e][i]
                \/ patterns[i] \in InternedLiterals(rule)
      BY <3>3, <3>4, InterningOnce
    <3>6. ac_patterns'[e] = patterns /\ rules'[e] = Append(rules[e], rule)
      BY <3>1, <3>2, <3>3
    <3>7. rule \in Elements(rules'[e]) /\ Elements(rules[e]) \subseteq Elements(rules'[e])
      <4>1. /\ Len(Append(rules[e], rule)) = Len(rules[e]) + 1 /\ Len(rules[e]) \in Nat
            /\ Append(rules[e], rule)[Len(rules[e]) + 1] = rule
            /\ \A i \in 1..Len(rules[e]) : Append(rules[e], rule)[i] = rules[e][i]
        BY <3>3
      <4>2. Len(rules[e]) + 1 \in 1..Len(rules'[e])
              /\ 1..Len(rules[e]) \subseteq 1..Len(rules'[e])
        BY <3>6, <4>1
      <4> QED  BY <3>6, <4>1, <4>2 DEF Elements
    <3> HIDE DEF patterns
    <3>8. ASSUME NEW f \in Engines
          PROVE  /\ \A i, j \in 1..Len(ac_patterns'[f]) :
                       ac_patterns'[f][i] = ac_patterns'[f][j] => i = j
                 /\ \A i \in 1..Len(ac_patterns'[f]) :
                       \E r \in Elements(rules'[f]) : ac_patterns'[f][i] \in InternedLiterals(r)
      <4>1. CASE f = e
        BY <4>1, <3>4, <3>5, <3>6, <3>7
      <4>2. CASE f # e
        <5>1. ac_patterns'[f] = ac_patterns[f] /\ rules'[f] = rules[f]
          BY <4>2, <3>1, <3>2, <3>3
        <5> QED  BY <5>1 DEF PatternsOwnedOnce
      <4> QED  BY <4>1, <4>2
    <3> QED  BY <3>8 DEF PatternsOwnedOnce, Elements
  <2>2. CASE UNCHANGED <<rules, ac_patterns>>
    BY <2>2 DEF PatternsOwnedOnce, Elements
  <2>3. ASSUME [Next]_vars, ~\E rule \in Rules : AddCompiledRule(rule)
        PROVE  UNCHANGED <<rules, ac_patterns>>
    BY <2>3 DEF Next, vars, engine_vars, StartLoad, StartEvent, RejectRule, RebuildAc,
                EvaluateRule, FinishEvent
  <2> QED  BY <2>1, <2>2, <2>3
<1> QED  BY <1>1, <1>2, EngineTyping, PTL DEF Spec
=============================================================================
