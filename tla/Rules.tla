-------------------------------- MODULE Rules --------------------------------
(***************************************************************************)
(* RuleEngine: which rules of the rulebook the events of a run activate,   *)
(* and what remains of their effects once the regime and the other rules   *)
(* have had their say.  Pure functions.                                    *)
(*                                                                         *)
(* A rule is [id, active, type, var, op, literal, effects, guard,          *)
(* half_life]: type is the event type of its trigger, or None, and var the *)
(* type of the events whose surprise its condition reads.  effects is a    *)
(* function from assets to [direction, strength, uncertain]: every rule    *)
(* under rules/ names an asset once, though a list of effects could name   *)
(* it twice.  guard is None or [applies_in, otherwise].                    *)
(*                                                                         *)
(* "Seeded fault" marks a plausible bug in the definition after it.        *)
(***************************************************************************)
EXTENDS CoreData

CONSTANT
    Rulebook     \* the rules, in the order of their files

Rank == [minor |-> 1, moderate |-> 2, major |-> 3, dominant |-> 4]
Policies == {"suppress", "downgrade_to_minor", "flag_uncertain"}

RuleEffects == [direction : Directions, strength : OrdinalLevels, uncertain : BOOLEAN]

\* What the loader lets through: ids are unique, and gold moves on an inflation
\* surprise only under a guard, or a little and uncertainly.  Its test that a
\* typed rule reads some surprise is kept in var; sign-off is not kept.  The
\* words of a condition and of a guard's policy are not tested here.
Loads(rules) ==
    /\ rules \in Seq(Range(rules))
    /\ \A i, j \in DOMAIN rules : rules[i].id = rules[j].id => i = j
    /\ \A i \in DOMAIN rules :
          LET rule == rules[i]
              gold == rule.effects["GOLD"]
          IN  /\ rule.id \in Int /\ rule.half_life \in Nat \ {0}
              /\ \A a \in DOMAIN rule.effects : rule.effects[a] \in RuleEffects
              /\ (rule.type = "us_cpi" /\ "GOLD" \in DOMAIN rule.effects) =>
                    \/ rule.guard # None
                    \/ gold.strength = "minor" /\ gold.uncertain

\* What the matcher can read: a comparison with a number, a policy it knows.  An
\* active rule with another condition, or a matched one that has to fall back on
\* another policy, is loaded, raises in the run and leaves it without a document.
Readable(rules) ==
    \A i \in DOMAIN rules :
        LET rule == rules[i]
        IN  rule.active =>
                /\ rule.op \in {">=", "<=", ">", "<", "==", "!="} /\ rule.literal \in Int
                /\ rule.guard # None => rule.guard.otherwise \in Policies

ASSUME RulesAssumption == Loads(Rulebook)

\* The rules under rules/ meet it; nothing in the code makes other rules do so.
ASSUME ReadableAssumption == Readable(Rulebook)

-----------------------------------------------------------------------------
(* Matching. *)

\* Of several events of a type the last one given.
LastOf(events, type) ==
    LET those == {i \in DOMAIN events : events[i].type = type}
    IN  events[Max(those)]

EvaluateCondition(rule, surprise) ==
    CASE rule.op = ">=" -> surprise >= rule.literal
      [] rule.op = "<=" -> surprise <= rule.literal
      [] rule.op = ">" -> surprise > rule.literal
      [] rule.op = "<" -> surprise < rule.literal
      [] rule.op = "==" -> surprise = rule.literal
      [] rule.op = "!=" -> surprise # rule.literal

Types(events) == {events[i].type : i \in DOMAIN events}

BuildConditionVars(events) == [type \in Types(events) |-> LastOf(events, type).surprise]

\* Seeded fault: setdefault, so the first event of a type stays.
FirstByType(events) ==
    [type \in Types(events) |-> SelectSeq(events, LAMBDA e : e.type = type)[1]]

EventByType(events) == [type \in Types(events) |-> LastOf(events, type)]

RuleMatches(rule, events) ==
    LET variables == BuildConditionVars(events)
    IN  /\ rule.active
        /\ rule.var \in DOMAIN variables
        /\ EvaluateCondition(rule, variables[rule.var])

\* Seeded fault: the guard is not looked at.
GuardIgnored(rule, regime) == rule.effects

\* The effects of a matched rule in a regime.
ResolvedEffects(rule, regime) ==
    IF rule.guard = None \/ regime \in rule.guard.applies_in THEN rule.effects
    ELSE CASE rule.guard.otherwise = "suppress" -> <<>>
           [] rule.guard.otherwise = "downgrade_to_minor" ->
                [a \in DOMAIN rule.effects |->
                    [rule.effects[a] EXCEPT !.strength = "minor", !.uncertain = TRUE]]
           [] rule.guard.otherwise = "flag_uncertain" ->
                [a \in DOMAIN rule.effects |-> [rule.effects[a] EXCEPT !.uncertain = TRUE]]

-----------------------------------------------------------------------------
(* Conflicts. *)

\* The candidates of an asset: [rule, effect].
Candidates(asset, events, regime) ==
    {[rule |-> rule, effect |-> ResolvedEffects(rule, regime)[asset]] :
        rule \in {r \in ToSet(Rulebook) :
                    RuleMatches(r, events) /\ asset \in DOMAIN ResolvedEffects(r, regime)}}

\* Seeded fault: the rule with the greatest id, whatever its strength.
LastRule(candidates) ==
    CHOOSE c \in candidates : \A d \in candidates : d.rule.id <= c.rule.id

Winner(candidates) ==
    CHOOSE c \in candidates :
        \A d \in candidates :
            \/ Rank[d.effect.strength] < Rank[c.effect.strength]
            \/ d.effect.strength = c.effect.strength /\ d.rule.id <= c.rule.id

\* Directions that oppose each other among the strongest effects.
TopDirections(candidates) ==
    {c.effect.direction :
        c \in {d \in candidates : d.effect.strength = Winner(candidates).effect.strength}}
    \ {"neutral"}

Conflict(candidates) == Cardinality(TopDirections(candidates)) > 1

\* An Activation: half-lives gone by since the event, and its id, come with it.
ToActivation(candidates, events) ==
    LET winner == Winner(candidates)
        rule == winner.rule
        dated == rule.type \in Types(events)
        event == EventByType(events)[rule.type]
    IN  [rule |-> rule.id,
         strength |-> winner.effect.strength,
         direction |-> IF Conflict(candidates) THEN "neutral" ELSE winner.effect.direction,
         event |-> IF dated THEN event.id ELSE None,
         halvings |-> IF ~dated THEN 0
                      ELSE (IF event.proximity < 0 THEN -event.proximity ELSE event.proximity)
                           \div rule.half_life]

\* Every asset has at most one activation.
Activations(assets, events, regime) ==
    [a \in {b \in assets : Candidates(b, events, regime) # {}} |->
        ToActivation(Candidates(a, events, regime), events)]

ConflictFlags(assets, events, regime) ==
    {a \in assets : LET c == Candidates(a, events, regime) IN c # {} /\ Conflict(c)}

=============================================================================
