------------------------------- MODULE Profiles -------------------------------
(***************************************************************************)
(* Game profiles of src/src/profiles: what a profile may be, which one the    *)
(* files of the selected Paks point at, and which of its rules an asset has.  *)
(*                                                                           *)
(* A path is the sequence of its names.  Patterns begin at a slash, and here  *)
(* they also end at one, as all those of the built-in profiles do but for     *)
(* the name of a file.                                                       *)
(***************************************************************************)
EXTENDS Integers, Sequences, FiniteSets, SequencesExt

CONSTANTS
  Name,             \* the names paths are made of; ".." is one
  FoldName,         \* a name in lower case
  Stem, Ext,        \* a name without the extension of a package's file, and
                    \* that extension, "" where there is none
  Builtin,          \* the built-in profiles, in their order
  External,         \* what the files of declarative profiles hold
  MaxProfiles, MaxMatchers, MaxRules, MaxPriority

\* A name is its stem, and behind a dot its extension, which is compared in
\* lower case.
ASSUME ProfilesAssumption ==
  /\ FoldName \in [Name -> Name] /\ Stem \in [Name -> Name]
  /\ \A n \in Name : /\ FoldName[FoldName[n]] = FoldName[n] /\ Ext[FoldName[n]] = Ext[n]
                     /\ FoldName[Stem[FoldName[n]]] = FoldName[Stem[n]]
                     /\ Ext[n] # "" => FoldName[Stem[n]] # FoldName[n]
  /\ \A m, n \in Name : Ext[m] = Ext[n] /\ FoldName[Stem[m]] = FoldName[Stem[n]] => FoldName[m] = FoldName[n]

Folded(p) == [i \in DOMAIN p |-> FoldName[p[i]]]
\* normalize_asset_path.
NormalizeAssetPath(p) ==
  IF p = << >> THEN p ELSE Folded(Append(Front(p), Stem[Last(p)]))

-----------------------------------------------------------------------------
(* PathMatcher: [kind, value].                                              *)

PathMatchKind == {"Exact", "Prefix", "Suffix", "Contains"}
\* validate_virtual_path_pattern.
PatternFits(m) ==
  /\ m.kind \in PathMatchKind
  /\ Len(m.value) >= IF m.kind = "Suffix" THEN 1 ELSE 2
  /\ \A i \in DOMAIN m.value : m.value[i] \notin {".", ".."}

\* prefix_matches_after_leading_unreal_parents.
WithoutParents(p) ==
  SubSeq(p, Cardinality({n \in 0..Len(p) : \A i \in 1..n : p[i] = ".."}), Len(p))
\* matches_normalized.
Matches(m, p) ==
  CASE m.kind = "Exact" -> p = m.value
    [] m.kind = "Prefix" -> /\ IsStrictPrefix(m.value, p) \/ IsStrictPrefix(m.value, WithoutParents(p))
    [] m.kind = "Suffix" -> IsSuffix(m.value, p)
    [] m.kind = "Contains" -> \E i \in 0..(Len(p) - Len(m.value) - 1) :
                                SubSeq(p, i + 1, i + Len(m.value)) = m.value
RuleMatches(rule, p) == \A i \in DOMAIN rule.matchers : Matches(rule.matchers[i], p)

-----------------------------------------------------------------------------
(* validate_game_profile.                                                   *)

MatchersFit(ms, least, most) ==
  /\ Len(ms) \in least..most /\ IsInjective(ms)
  /\ \A i \in DOMAIN ms : PatternFits(ms[i])
\* A field is in one group of an asset at most, and the row id in none.
GroupsFit(groups) ==
  /\ \A i \in DOMAIN groups : groups[i].fields # << >> /\ IsInjective(groups[i].fields)
  /\ \A i \in DOMAIN groups : "m_id" \notin ToSet(groups[i].fields)
  /\ \A i, j \in DOMAIN groups : i # j =>
       /\ groups[i].id # groups[j].id
       /\ ToSet(groups[i].fields) \cap ToSet(groups[j].fields) = {}
ProfileFits(g) ==
  /\ MatchersFit(g.detection, 1, MaxMatchers) /\ g.minimum \in 1..Len(g.detection)
  /\ MatchersFit(g.roots, 0, MaxMatchers)
  /\ Len(g.assets) \in 1..MaxRules
  /\ \A i \in DOMAIN g.assets :
       /\ g.assets[i].priority \in 0..MaxPriority
       /\ MatchersFit(g.assets[i].matchers, 1, MaxMatchers)
       /\ GroupsFit(g.assets[i].groups)
  /\ \A i, j \in DOMAIN g.assets :
       i # j => ToSet(g.assets[i].matchers) # ToSet(g.assets[j].matchers)

\* parse_external_profile_json: such a file declares no reference rules, and
\* its groups are never split by the planner's default.
Parsed(document) ==
  [id |-> document.id, format |-> document.format, detection |-> document.detection,
   minimum |-> document.minimum, roots |-> document.roots, assets |-> document.assets,
   tables |-> << >>, rules |-> << >>]
ExternalFits(document) == document.schema = 1 /\ ProfileFits(Parsed(document))

-----------------------------------------------------------------------------
(* ProfileRegistry.                                                         *)

CanRegister(registry, g) ==
  /\ Len(registry) < MaxProfiles /\ ProfileFits(g)
  /\ \A i \in DOMAIN registry : registry[i].id # g.id
Register(registry, g) == IF CanRegister(registry, g) THEN Append(registry, g) ELSE registry
\* with_builtins panics if one of them cannot be registered.
ASSUME BuiltinAssumption ==
  /\ Builtin \in Seq(ToSet(Builtin))
  /\ \A n \in DOMAIN Builtin : CanRegister(SubSeq(Builtin, 1, n - 1), Builtin[n])
WithBuiltins == Builtin
\* A caller's registry: the built-in ones, then one from a file if it can be.
WithExternal(document) ==
  IF ExternalFits(document) THEN Register(WithBuiltins, Parsed(document)) ELSE WithBuiltins

\* The profile of a registry that is selected, if one is.
GameOf(registry, selected) == {g \in ToSet(registry) : selected = <<g.id>>}

\* detect_inventory: the one profile with enough signatures, else none.
Signatures(g, paths) ==
  Cardinality({i \in DOMAIN g.detection : \E p \in paths : Matches(g.detection[i], p)})
Qualifying(registry, paths) == {g \in ToSet(registry) : Signatures(g, paths) >= g.minimum}
DetectInventory(registry, paths) ==
  LET found == Qualifying(registry, {NormalizeAssetPath(p) : p \in paths})
  IN [status |-> IF found = {} THEN "GenericNoMatch"
                 ELSE IF Cardinality(found) = 1 THEN "Selected" ELSE "GenericAmbiguous",
      selected |-> IF Cardinality(found) = 1 THEN <<(CHOOSE g \in found : TRUE).id>> ELSE << >>]

\* resolve_asset_normalized: one pass over the rules keeps the first of the
\* highest priority and whether there is another.
Generic == << >>
\* Mutant: a tie of rules stays when one of higher priority is found.
HighestOrTied(rules) ==
  FoldLeft(LAMBDA seen, rule :
             CASE seen.rule = << >> -> [rule |-> <<rule>>, tie |-> FALSE]
               [] OTHER -> [rule |-> IF rule.priority > seen.rule[1].priority THEN <<rule>> ELSE seen.rule,
                            tie |-> seen.tie \/ rule.priority = seen.rule[1].priority],
           [rule |-> << >>, tie |-> FALSE], rules)
Highest(rules) ==
  FoldLeft(LAMBDA seen, rule :
             CASE seen.rule = << >> \/ rule.priority > seen.rule[1].priority ->
                    [rule |-> <<rule>>, tie |-> FALSE]
               [] OTHER -> [seen EXCEPT !.tie = @ \/ rule.priority = seen.rule[1].priority],
           [rule |-> << >>, tie |-> FALSE], rules)
InScope(g, p) ==
  \/ "content" \notin ToSet(p) \/ g.roots = << >>
  \/ \E i \in DOMAIN g.roots : Matches(g.roots[i], p)
ResolveAssetNormalized(game, p) ==
  IF game = {} THEN Generic
  ELSE LET g == CHOOSE g \in game : TRUE
           found == Highest(SelectSeq(g.assets, LAMBDA rule : RuleMatches(rule, p)))
       IN IF ~InScope(g, p) \/ found.rule = << >> \/ found.tie THEN Generic
          ELSE found.rule[1].groups
ResolveAsset(registry, path, selected) ==
  ResolveAssetNormalized(GameOf(registry, selected), NormalizeAssetPath(path))

-----------------------------------------------------------------------------
(* What is chosen together in a row: the groups it has, as wholes, and each  *)
(* other field alone.                                                        *)

PresentGroups(groups, fields) == {g \in ToSet(groups) : ToSet(g.fields) \cap fields # {}}
PartialGroup(groups, fields) ==
  \E g \in PresentGroups(groups, fields) : ~(ToSet(g.fields) \subseteq fields)
UnitsOf(groups, fields) ==
  LET grouped == {[kind |-> "group", id |-> g.id, fields |-> ToSet(g.fields)] :
                    g \in PresentGroups(groups, fields)}
  IN grouped \cup {[kind |-> "field", id |-> f, fields |-> {f}] :
                      f \in fields \ UNION {u.fields : u \in grouped}}
=============================================================================
