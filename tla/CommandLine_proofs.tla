------------------------- MODULE CommandLine_proofs -------------------------
(***************************************************************************)
(* Proofs about the command line, for any Paks, disks, profiles, requests  *)
(* and plans: a merge writes what was compared when the choices were made, *)
(* whatever happens to the files and the profiles in between, and its      *)
(* report tells the references that the merged Pak breaks.                 *)
(*                                                                         *)
(* The inductive invariant follows one merge through its steps.  What a    *)
(* process holds is a function of three things, the registry it found, the *)
(* request and the files that were under the named paths when it opened    *)
(* them: the Paks it compares (OpenedFor), the plan it makes (PlanOf) and  *)
(* the files it writes (EntriesFor).  A merge compares its plan with the   *)
(* one it was given, so the one it writes by is the saved one, of whatever *)
(* process saved it.                                                       *)
(***************************************************************************)
EXTENDS CommandLine, FiniteSetTheorems, SequenceTheorems, WellFoundedInduction, TLAPS

\* The registries a process may find: the profiles of the program, or those of
\* an external folder.
Registries == {0} \cup DOMAIN External

\* What is compared: the Paks of a request, as they were when they were opened.
Ready(request, ids) ==
  /\ request \in Requests /\ RequestFits(request)
  /\ ids \in Seq(DOMAIN Contents) /\ Len(ids) = Len(request.paths) /\ CanOpen(ids)
OpenedFor(request, ids) == Opened(ids, Position(request))
PlanOf(n, request, ids) == AnalyzeOpened(Registry(n), request, ids, OpenedFor(request, ids))

\* A comparison that some caller made.
Compared(plan) == \E n \in Registries : Ready(plan.request, plan.inputs) /\ plan = PlanOf(n, plan.request, plan.inputs)

\* The files of the merged Pak for a comparison and its choices.
PreparedFor(n, request, ids, choices) ==
  OutputEntries(OpenedFor(request, ids), Registry(n), PlanOf(n, request, ids), choices)
EntriesFor(n, request, ids, choices) == UNION {p.files : p \in PreparedFor(n, request, ids, choices)}
Stored(entries) == {[path |-> e.path, blob |-> e.blob] : e \in entries}
CanWrite(n, request, ids, choices) ==
  /\ ResolutionsFit(PlanOf(n, request, ids), [plan_id |-> << >>, choices |-> choices])
  /\ \A p \in PreparedFor(n, request, ids, choices) : p.built
  /\ Unique(EntriesFor(n, request, ids, choices))

\* A process has these fields.
Shape(p) ==
  p = [step |-> p.step, request |-> p.request, registry |-> p.registry, held |-> p.held, opened |-> p.opened,
       merging |-> p.merging, plan |-> p.plan, todo |-> p.todo, written |-> p.written, audits |-> p.audits]

\* A process answers a request that fits, and the Paks it has opened so far stay
\* under their paths: the files are open.
HeldInv ==
  process.step # "idle" =>
    /\ process.request = <<process.request[1]>>
    /\ process.request[1] \in Requests /\ RequestFits(process.request[1])
    /\ process.registry \in Registries
    /\ process.held \in Seq(DOMAIN Contents) /\ Len(process.held) <= Len(process.request[1].paths)
    /\ \A i \in 1..Len(process.held) : disk[process.request[1].paths[i]] = process.held[i]

\* Once all are open, they are the Paks of the request.
OpenedInv ==
  process.step \in {"opened", "compared", "writing"} =>
    /\ Ready(process.request[1], process.held)
    /\ process.opened = <<OpenedFor(process.request[1], process.held)>>

\* The plan is that of the open Paks and the registry of the process.
PlanInv ==
  process.step \in {"compared", "writing"} =>
    process.plan = <<PlanOf(process.registry, process.request[1], process.held)>>

\* A merge is of a plan that some process made for this request.
MergingInv ==
  process.step \in {"opening", "opened", "compared"} /\ process.merging # << >> =>
    /\ process.registry = 0
    /\ process.merging = <<process.merging[1]>> /\ Compared(process.merging[1].plan)
    /\ process.merging[1].plan.request = process.request[1]

\* What is written is what the plan and the choices give: the plan of the merge is
\* the one just made, the copies still to do and the files already written are
\* together the files of the merged Pak.
WritingInv ==
  process.step = "writing" =>
    LET choices == process.merging[1].choices IN
    /\ process.merging[1].plan = process.plan[1]
    /\ CanWrite(process.registry, process.request[1], process.held, choices)
    /\ ToSet(process.todo) \subseteq EntriesFor(process.registry, process.request[1], process.held, choices)
    /\ process.written \cup Stored(ToSet(process.todo)) =
         Stored(EntriesFor(process.registry, process.request[1], process.held, choices))
    /\ process.todo \in Seq(ToSet(process.todo))
    /\ process.audits = UNION {p.audited : p \in PreparedFor(process.registry, process.request[1], process.held, choices)}

\* The merged Pak follows from what was compared and chosen.
Follows(o) ==
  LET request == o.compared.request
      ids == o.compared.inputs
  IN /\ o.registry \in Registries /\ Ready(request, ids) /\ o.compared = PlanOf(o.registry, request, ids)
     /\ CanWrite(o.registry, request, ids, o.choices)
     /\ o.mount = OpenedFor(request, ids).mount
     /\ o.files = Stored(EntriesFor(o.registry, request, ids, o.choices))
     /\ o.report.mount = o.mount /\ o.report.files = o.files
     /\ o.report.audits = UNION {p.audited : p \in PreparedFor(o.registry, request, ids, o.choices)}
     /\ o.report.actions = o.compared.assets
     /\ AuditsFit(o.report.audits, o.files)
     /\ LET checked == CheckedReferences(Registry(o.registry), o.compared, [id |-> "output", files |-> SetToSeq(o.files)])
        IN ~checked.fails /\ o.report.references = checked.warnings

\* The steps of a process; nothing is written before it writes.
StepInv ==
  /\ Shape(process)
  /\ process.step \in {"idle", "opening", "opened", "compared", "writing"} /\ (process = Idle <=> process.step = "idle")
  /\ process.step # "writing" => process.written = {}

\* Every path has some contents; a saved plan was made by a comparison; a merged
\* Pak follows from what was compared.
DiskInv == disk \in [File -> DOMAIN Contents]
SavedInv == saved = << >> \/ (saved = <<saved[1]>> /\ Compared(saved[1]))
OutputInv == output = << >> \/ (output = <<output[1]>> /\ Follows(output[1]))
IInv ==
  /\ StepInv /\ DiskInv /\ HeldInv /\ OpenedInv /\ PlanInv /\ MergingInv /\ WritingInv
  /\ SavedInv /\ OutputInv
-----------------------------------------------------------------------------
(***************************************************************************)
(* Sets and sequences                                                      *)
(***************************************************************************)
\* The least of a set of numbers is there.
LEMMA LeastOf ==
  ASSUME NEW S \in SUBSET Nat, S # {}
  PROVE  Least(S) \in S /\ \A y \in S : Least(S) <= y
<1>1. PICK x \in S : \A y \in S : ~(<<y, x>> \in OpToRel(<, Nat))
  BY NatLessThanWellFounded, WFMin, Zenon
<1>2. \A y \in S : ~(y < x)
  BY <1>1 DEF OpToRel
<1>3. \A y \in S : x <= y
  BY <1>2
<1> QED
  BY <1>3 DEF Least

\* What a function over a finite set reaches is finite.
LEMMA ReachedIsFinite ==
  ASSUME NEW S, IsFiniteSet(S), NEW f, DOMAIN f = S,
         NEW T, \A t \in T : \E x \in S : t = f[x]
  PROVE  IsFiniteSet(T)
<1> DEFINE R == {f[x] : x \in S}
           g == [x \in S |-> f[x]]
<1>1. g \in Surjection(S, R)
  BY DEF Surjection
<1>2. T \in SUBSET R /\ IsFiniteSet(R)
  BY <1>1, FS_Surjection
<1> HIDE DEF R
<1> QED
  BY <1>2, FS_Subset

\* The members of a sequence are finitely many.
LEMMA MembersFinite ==
  ASSUME NEW s, s \in Seq(ToSet(s))
  PROVE  IsFiniteSet(ToSet(s))
<1>1. DOMAIN s = 1..Len(s) /\ Len(s) \in Nat
  BY LenProperties
<1>2. IsFiniteSet(1..Len(s))
  BY <1>1, FS_Interval
<1>3. \A t \in ToSet(s) : \E x \in DOMAIN s : t = s[x]
  BY DEF ToSet
<1> QED
  BY <1>1, <1>2, <1>3, ReachedIsFinite

\* A sequence over a set is one over its own members.
LEMMA OwnMembers ==
  ASSUME NEW S, NEW s \in Seq(S)
  PROVE  s \in Seq(ToSet(s)) /\ ToSet(s) \subseteq S /\ DOMAIN s = 1..Len(s) /\ Len(s) \in Nat
<1>1. DOMAIN s = 1..Len(s) /\ Len(s) \in Nat /\ s \in [1..Len(s) -> S]
  BY LenProperties
<1>2. s \in [1..Len(s) -> ToSet(s)]
  BY <1>1 DEF ToSet
<1>3. s \in Seq(ToSet(s))
  BY <1>1, <1>2, SeqDef
<1>4. ToSet(s) \subseteq S
  BY <1>1 DEF ToSet
<1> QED
  BY <1>1, <1>3, <1>4

\* A finite set as a sequence has its members, each once.
LEMMA Listed ==
  ASSUME NEW S, IsFiniteSet(S)
  PROVE  /\ SetToSeq(S) \in Seq(S) /\ ToSet(SetToSeq(S)) = S
         /\ DOMAIN SetToSeq(S) = 1..Cardinality(S)
         /\ \A i, j \in DOMAIN SetToSeq(S) : SetToSeq(S)[i] = SetToSeq(S)[j] => i = j
<1> DEFINE n == Cardinality(S)
           s == SetToSeq(S)
<1>1. n \in Nat /\ ExistsBijection(1..n, S)
  BY FS_CardinalityType
<1>2. PICK f \in Bijection(1..n, S) : TRUE
  BY <1>1 DEF ExistsBijection
<1>3. f \in [1..n -> S] /\ IsInjective(f)
  BY <1>2 DEF Bijection, Injection, IsInjective
<1>4. s \in [1..n -> S] /\ IsInjective(s)
  BY <1>3 DEF SetToSeq
<1>5. s \in Injection(1..n, S)
  BY <1>4 DEF Injection, IsInjective
<1>6. IsFiniteSet(1..n) /\ Cardinality(1..n) = n
  <2>1. Cardinality(1..n) = IF 1 > n THEN 0 ELSE n - 1 + 1
    BY <1>1, FS_Interval
  <2> QED
    BY <1>1, <2>1, FS_Interval
<1>7. s \in Surjection(1..n, S)
  BY <1>5, <1>6, FS_Injection
<1>8. ToSet(s) = S
  BY <1>7 DEF Surjection, ToSet
<1>9. s \in Seq(S)
  BY <1>1, <1>4, SeqDef
<1> QED
  BY <1>4, <1>8, <1>9 DEF IsInjective

\* The k-th of a finite set of numbers, and that every member has its place.
LEMMA NthOf ==
  ASSUME NEW S \in SUBSET Nat, IsFiniteSet(S)
  PROVE  /\ \A k \in 1..Cardinality(S) : Nth(S, k) \in S
         /\ \A n \in S : \E k \in 1..Cardinality(S) : Nth(S, k) = n
         /\ \A k \in 1..Cardinality(S) : Cardinality({m \in S : m < Nth(S, k)}) = k - 1
<1> DEFINE Below(n) == {m \in S : m < n}
           c == Cardinality(S)
           g == [n \in S |-> Cardinality(Below(n)) + 1]
<1>1. c \in Nat
  BY FS_CardinalityType
<1>2. \A n \in S : IsFiniteSet(Below(n)) /\ Cardinality(Below(n)) \in Nat /\ Cardinality(Below(n)) < c
  <2> TAKE n \in S
  <2>1. Below(n) \in SUBSET S /\ Below(n) # S
    OBVIOUS
  <2> HIDE DEF Below
  <2>2. IsFiniteSet(Below(n)) /\ Cardinality(Below(n)) <= c /\ (c = Cardinality(Below(n)) => S = Below(n))
    BY <2>1, FS_Subset
  <2>3. Cardinality(Below(n)) \in Nat
    BY <2>2, FS_CardinalityType
  <2> QED
    BY <1>1, <2>1, <2>2, <2>3
<1>3. \A m, n \in S : m < n => Cardinality(Below(m)) < Cardinality(Below(n))
  <2> SUFFICES ASSUME NEW m \in S, NEW n \in S, m < n PROVE Cardinality(Below(m)) < Cardinality(Below(n))
    OBVIOUS
  <2>0. m \in Nat /\ n \in Nat /\ \A x \in S : x \in Nat
    OBVIOUS
  <2>1. Below(m) \in SUBSET Below(n) /\ m \in Below(n) /\ m \notin Below(m)
    <3>1. \A x \in Below(m) : x \in Below(n)
      BY <2>0
    <3>2. m \in Below(n)
      BY <2>0
    <3>3. m \notin Below(m)
      BY <2>0
    <3> HIDE DEF Below
    <3> QED
      BY <3>1, <3>2, <3>3
  <2>2. IsFiniteSet(Below(n)) /\ Cardinality(Below(n)) \in Nat /\ Cardinality(Below(m)) \in Nat
    BY <1>2
  <2> HIDE DEF Below
  <2>3. Cardinality(Below(m)) <= Cardinality(Below(n)) /\ (Cardinality(Below(n)) = Cardinality(Below(m)) => Below(n) = Below(m))
    BY <2>1, <2>2, FS_Subset
  <2> QED
    BY <2>1, <2>2, <2>3
<1> HIDE DEF Below
<1>4. g \in Injection(S, 1..c)
  <2>1. \A n \in S : g[n] \in 1..c
    BY <1>1, <1>2
  <2>2. \A m, n \in S : g[m] = g[n] => m = n
    BY <1>2, <1>3
  <2> QED
    BY <2>1, <2>2 DEF Injection, IsInjective
<1>5. IsFiniteSet(1..c) /\ Cardinality(1..c) = c
  <2>1. Cardinality(1..c) = IF 1 > c THEN 0 ELSE c - 1 + 1
    BY <1>1, FS_Interval
  <2> QED
    BY <1>1, <2>1, FS_Interval
<1>6. g \in Surjection(S, 1..c)
  BY <1>4, <1>5, FS_Injection
<1>7. \A k \in 1..c : \E n \in S : Cardinality(Below(n)) = k - 1
  <2> TAKE k \in 1..c
  <2>1. PICK n \in S : g[n] = k
    BY <1>6 DEF Surjection
  <2> QED
    BY <1>1, <1>2, <2>1
<1>8. \A k : Nth(S, k) = CHOOSE n \in S : Cardinality(Below(n)) = k - 1
  BY DEF Nth, Below
<1>9. \A k \in 1..c : Nth(S, k) \in S /\ Cardinality(Below(Nth(S, k))) = k - 1
  BY <1>7, <1>8
<1>10. ASSUME NEW n \in S PROVE \E k \in 1..c : Nth(S, k) = n
  <2>1. g[n] \in 1..c /\ g[n] - 1 = Cardinality(Below(n))
    BY <1>1, <1>2
  <2>2. Nth(S, g[n]) \in S /\ Cardinality(Below(Nth(S, g[n]))) = Cardinality(Below(n))
    BY <1>9, <2>1
  <2>3. Nth(S, g[n]) = n
    <3>1. n \in Nat /\ Nth(S, g[n]) \in Nat
      BY <2>2
    <3>2. CASE Nth(S, g[n]) < n
      <4>1. Cardinality(Below(Nth(S, g[n]))) < Cardinality(Below(n))
        BY <1>3, <2>2, <3>2
      <4> QED
        BY <1>2, <2>2, <4>1
    <3>3. CASE n < Nth(S, g[n])
      <4>1. Cardinality(Below(n)) < Cardinality(Below(Nth(S, g[n])))
        BY <1>3, <2>2, <3>3
      <4> QED
        BY <1>2, <2>2, <4>1
    <3> QED
      BY <3>1, <3>2, <3>3
  <2> QED
    BY <2>1, <2>3
<1> QED
  BY <1>9, <1>10 DEF Below

\* Equal intervals end alike.
LEMMA SameInterval ==
  ASSUME NEW a \in Nat, NEW b \in Nat, 1..a = 1..b
  PROVE  a = b
<1>1. ASSUME a > 0 PROVE a \in 1..b
  <2>1. a \in 1..a
    BY <1>1
  <2> QED
    BY <2>1
<1>2. ASSUME b > 0 PROVE b \in 1..a
  <2>1. b \in 1..b
    BY <1>2
  <2> QED
    BY <2>1
<1> QED
  BY <1>1, <1>2

-----------------------------------------------------------------------------
(***************************************************************************)
(* Registries and comparisons                                              *)
(***************************************************************************)
\* A caller's registry has the built-in profiles, and one more at most, whose
\* id is none of theirs.
LEMMA OneMoreProfile ==
  ASSUME NEW n \in Registries
  PROVE  \/ Registry(n) = Builtin
         \/ \E g : /\ ToSet(Registry(n)) = ToSet(Builtin) \cup {g}
                   /\ \A h \in ToSet(Builtin) : h.id # g.id
<1>1. Builtin \in Seq(ToSet(Builtin))
  BY BuiltinAssumption
<1>2. CASE n = 0
  BY <1>2 DEF Registry, WithBuiltins
<1>3. CASE n # 0
  <2> DEFINE g == Parsed(External[n])
  <2>1. Registry(n) = Builtin \/ (CanRegister(Builtin, g) /\ Registry(n) = Append(Builtin, g))
    BY <1>3 DEF Registry, WithExternal, Register, WithBuiltins
  <2>2. ASSUME CanRegister(Builtin, g), Registry(n) = Append(Builtin, g)
        PROVE  /\ ToSet(Registry(n)) = ToSet(Builtin) \cup {g}
               /\ \A h \in ToSet(Builtin) : h.id # g.id
    <3> HIDE DEF g
    <3>1. \A h \in ToSet(Builtin) : h.id # g.id
      BY <2>2 DEF CanRegister, ToSet
    <3>2. Builtin \in Seq(ToSet(Builtin) \cup {g})
      BY <1>1, SeqMonotonic
    <3>3. DOMAIN Builtin = 1..Len(Builtin) /\ Len(Builtin) \in Nat
      BY <1>1, LenProperties
    <3>4. /\ Append(Builtin, g) \in Seq(ToSet(Builtin) \cup {g})
          /\ Len(Append(Builtin, g)) = Len(Builtin) + 1
          /\ \A i \in 1..Len(Builtin) : Append(Builtin, g)[i] = Builtin[i]
          /\ Append(Builtin, g)[Len(Builtin) + 1] = g
      BY <3>2, AppendProperties
    <3>5. DOMAIN Append(Builtin, g) = 1..(Len(Builtin) + 1)
      BY <3>4, LenProperties
    <3>6. ToSet(Append(Builtin, g)) = ToSet(Builtin) \cup {g}
      <4>1. \A x \in ToSet(Append(Builtin, g)) : x \in ToSet(Builtin) \cup {g}
        BY <3>3, <3>4, <3>5 DEF ToSet
      <4>2. \A x \in ToSet(Builtin) : x \in ToSet(Append(Builtin, g))
        BY <3>3, <3>4, <3>5 DEF ToSet
      <4>3. g \in ToSet(Append(Builtin, g))
        BY <3>3, <3>4, <3>5 DEF ToSet
      <4> QED
        BY <4>1, <4>2, <4>3
    <3> QED
      BY <2>2, <3>1, <3>6
  <2> QED
    BY <2>1, <2>2
<1> QED
  BY <1>2, <1>3

\* No two built-in profiles have one id, nor any two of a registry.
LEMMA OneProfileOfId ==
  ASSUME NEW n \in Registries, NEW g \in ToSet(Registry(n)), NEW h \in ToSet(Registry(n)), g.id = h.id
  PROVE  g = h
<1>1. ASSUME NEW x \in ToSet(Builtin), NEW y \in ToSet(Builtin), x.id = y.id PROVE x = y
  <2>1. DOMAIN Builtin = 1..Len(Builtin) /\ Len(Builtin) \in Nat
    BY BuiltinAssumption, LenProperties
  <2>2. ASSUME NEW i \in DOMAIN Builtin, NEW j \in DOMAIN Builtin, i < j PROVE Builtin[i].id # Builtin[j].id
    <3> DEFINE before == SubSeq(Builtin, 1, j - 1)
    <3>1. i \in 1..(j - 1) /\ j \in 1..Len(Builtin)
      BY <2>1, <2>2
    <3>2. \A k \in 1..(j - 1) : Builtin[k] \in ToSet(Builtin)
      BY <2>1, <3>1 DEF ToSet
    <3>3. /\ before \in Seq(ToSet(Builtin)) /\ Len(before) = IF 1 <= j - 1 THEN j - 1 - 1 + 1 ELSE 0
          /\ \A k \in 1..(j - 1 - 1 + 1) : before[k] = Builtin[1 + k - 1]
      BY <2>1, <3>1, <3>2, SubSeqProperties
    <3>4. DOMAIN before = 1..(j - 1) /\ before[i] = Builtin[i]
      <4>1. DOMAIN before = 1..Len(before)
        BY <3>3, LenProperties
      <4> QED
        BY <2>1, <3>1, <3>3, <4>1
    <3>5. \A k \in DOMAIN before : before[k].id # Builtin[j].id
      BY BuiltinAssumption DEF CanRegister
    <3> QED
      BY <3>1, <3>4, <3>5
  <2>3. PICK i \in DOMAIN Builtin, j \in DOMAIN Builtin : x = Builtin[i] /\ y = Builtin[j]
    BY DEF ToSet
  <2>4. i = j
    <3>1. i \in Nat /\ j \in Nat
      BY <2>1
    <3> QED
      BY <1>1, <2>2, <2>3, <3>1
  <2> QED
    BY <2>3, <2>4
<1> QED
  BY <1>1, OneMoreProfile

\* What is selected is selected of a registry's profiles.
LEMMA SelectedIsThere ==
  ASSUME NEW registry, NEW paths
  PROVE  LET d == DetectInventory(registry, paths) IN
         /\ d.selected # << >> <=> d.status = "Selected"
         /\ d.selected # << >> => \E g \in ToSet(registry) : d.selected = <<g.id>>
         /\ d = [status |-> d.status, selected |-> d.selected]
<1> DEFINE found == Qualifying(registry, {NormalizeAssetPath(p) : p \in paths})
           d == DetectInventory(registry, paths)
<1>1. /\ d.status = IF found = {} THEN "GenericNoMatch"
                    ELSE IF Cardinality(found) = 1 THEN "Selected" ELSE "GenericAmbiguous"
      /\ d.selected = IF Cardinality(found) = 1 THEN <<(CHOOSE g \in found : TRUE).id>> ELSE << >>
      /\ d = [status |-> d.status, selected |-> d.selected]
  BY DEF DetectInventory
<1>2. found \subseteq ToSet(registry)
  BY DEF Qualifying
<1> HIDE DEF found, d
<1>3. Cardinality(found) = 1 => found # {}
  BY FS_EmptySet
<1>4. Cardinality(found) = 1 => (CHOOSE g \in found : TRUE) \in ToSet(registry)
  BY <1>2, <1>3
<1>5. "GenericNoMatch" # "Selected" /\ "GenericAmbiguous" # "Selected"
  OBVIOUS
<1>6. \A x : <<x>> # << >>
  OBVIOUS
<1> QED
  BY <1>1, <1>3, <1>4, <1>5, <1>6 DEF d

\* A profile that is built in is the same in every registry.
LEMMA SameGame ==
  ASSUME NEW n \in Registries, NEW selected,
         selected # << >> => \E g \in ToSet(Builtin) : selected = <<g.id>>
  PROVE  GameOf(Registry(n), selected) = GameOf(WithBuiltins, selected)
<1>1. CASE selected = << >>
  BY <1>1 DEF GameOf
<1>2. CASE selected # << >>
  <2>1. PICK g \in ToSet(Builtin) : selected = <<g.id>>
    BY <1>2
  <2>2. CASE Registry(n) = Builtin
    BY <2>2 DEF WithBuiltins
  <2>3. ASSUME NEW h, ToSet(Registry(n)) = ToSet(Builtin) \cup {h}, \A x \in ToSet(Builtin) : x.id # h.id
        PROVE  GameOf(Registry(n), selected) = GameOf(WithBuiltins, selected)
    BY <2>1, <2>3 DEF GameOf, WithBuiltins
  <2> QED
    BY <2>2, <2>3, OneMoreProfile
<1> QED
  BY <1>1, <1>2

\* What a comparison says of a unit depends on a registry by what it selects.
LEMMA SameUnit ==
  ASSUME NEW opened, NEW r, NEW s, NEW detected, NEW u,
         GameOf(r, detected.selected) = GameOf(s, detected.selected)
  PROVE  AnalyzeUnit(opened, r, detected, u) = AnalyzeUnit(opened, s, detected, u)
<1>1. \A path : GroupsOf(r, detected, path) = GroupsOf(s, detected, path)
  BY DEF GroupsOf, ResolveAsset
<1>2. {g.format : g \in GameOf(r, detected.selected)} = {g.format : g \in GameOf(s, detected.selected)}
  BY Zenon
<1> QED
  BY <1>1, <1>2 DEF AnalyzeUnit

\* What a plan is, by its parts.
LEMMA PlanParts ==
  ASSUME NEW n, NEW request, NEW ids
  PROVE  LET opened == OpenedFor(request, ids)
             detected == DetectInventory(Registry(n), Inventory(opened))
             p == PlanOf(n, request, ids)
         IN /\ p = AnalyzeDetected(Registry(n), request, ids, opened, detected)
            /\ p.request = request /\ p.inputs = ids /\ p.detected = detected
            /\ p.carrier = opened.paks[opened.carrier].id
            /\ p.assets = {AnalyzeUnit(opened, Registry(n), detected, u).asset : u \in UnitsIn(opened)}
            /\ p.conflicts = UNION {AnalyzeUnit(opened, Registry(n), detected, u).conflicts : u \in UnitsIn(opened)}
            /\ p.plan_id = PlanId(ids, p.carrier, detected, p.conflicts)
<1> DEFINE opened == OpenedFor(request, ids)
           detected == DetectInventory(Registry(n), Inventory(opened))
           outputs == {AnalyzeUnit(opened, Registry(n), detected, u) : u \in UnitsIn(opened)}
           p == PlanOf(n, request, ids)
<1>1. p = AnalyzeDetected(Registry(n), request, ids, opened, detected)
  BY DEF PlanOf, AnalyzeOpened
<1>2. p = Planned(request, ids, opened.paks[opened.carrier].id, detected, outputs)
  BY <1>1 DEF AnalyzeDetected
<1> HIDE DEF p
<1>3. /\ p.request = request /\ p.inputs = ids /\ p.detected = detected
      /\ p.carrier = opened.paks[opened.carrier].id
      /\ p.assets = {o.asset : o \in outputs} /\ p.conflicts = UNION {o.conflicts : o \in outputs}
      /\ p.plan_id = PlanId(ids, p.carrier, detected, p.conflicts)
  BY <1>2 DEF Planned
<1>4. {o.asset : o \in outputs} = {AnalyzeUnit(opened, Registry(n), detected, u).asset : u \in UnitsIn(opened)}
  BY Zenon
<1>5. {o.conflicts : o \in outputs} = {AnalyzeUnit(opened, Registry(n), detected, u).conflicts : u \in UnitsIn(opened)}
  BY Zenon
<1> QED
  BY <1>1, <1>3, <1>4, <1>5 DEF p

\* A comparison with the id of one of the same Paks with the built-in profiles
\* is that one, whatever profiles it was made with.
LEMMA SamePlan ==
  ASSUME NEW n \in Registries, NEW request, NEW ids, PlanOf(n, request, ids).plan_id = PlanOf(0, request, ids).plan_id
  PROVE  PlanOf(n, request, ids) = PlanOf(0, request, ids)
<1> DEFINE opened == OpenedFor(request, ids)
           paths == Inventory(opened)
           d == DetectInventory(Registry(n), paths)
           e == DetectInventory(WithBuiltins, paths)
           p == PlanOf(n, request, ids)
           q == PlanOf(0, request, ids)
<1>1. Registry(0) = WithBuiltins
  BY DEF Registry
<1>2. /\ p = AnalyzeDetected(Registry(n), request, ids, opened, d)
      /\ q = AnalyzeDetected(WithBuiltins, request, ids, opened, e)
      /\ p.plan_id = PlanId(ids, p.carrier, d, p.conflicts)
      /\ q.plan_id = PlanId(ids, q.carrier, e, q.conflicts)
  BY <1>1, PlanParts
<1>3. /\ d.selected # << >> <=> d.status = "Selected"
      /\ d.selected # << >> => \E g \in ToSet(Registry(n)) : d.selected = <<g.id>>
      /\ d = [status |-> d.status, selected |-> d.selected]
  BY SelectedIsThere
<1>4. /\ e.selected # << >> <=> e.status = "Selected"
      /\ e.selected # << >> => \E g \in ToSet(Builtin) : e.selected = <<g.id>>
      /\ e = [status |-> e.status, selected |-> e.selected]
  BY SelectedIsThere DEF WithBuiltins
<1> HIDE DEF opened, paths, d, e, p, q
<1>5. d.status = e.status
      /\ (IF d.selected = << >> THEN "generic" ELSE d.selected[1]) = (IF e.selected = << >> THEN "generic" ELSE e.selected[1])
  <2>1. p.plan_id = q.plan_id
    BY DEF p, q
  <2>2. p.plan_id.status = d.status /\ q.plan_id.status = e.status
        /\ p.plan_id.profile = (IF d.selected = << >> THEN "generic" ELSE d.selected[1])
        /\ q.plan_id.profile = (IF e.selected = << >> THEN "generic" ELSE e.selected[1])
    BY <1>2 DEF PlanId
  <2> QED
    BY <2>1, <2>2
<1>6. d = e
  <2>1. CASE d.selected = << >>
    BY <1>3, <1>4, <1>5, <2>1
  <2>2. CASE d.selected # << >>
    <3>1. e.selected # << >>
      BY <1>3, <1>4, <1>5, <2>2
    <3>2. PICK g, h : d.selected = <<g>> /\ e.selected = <<h>>
      BY <1>3, <1>4, <2>2, <3>1
    <3>3. g = h
      BY <1>5, <2>2, <3>1, <3>2
    <3> QED
      BY <1>3, <1>4, <1>5, <3>2, <3>3
  <2> QED
    BY <2>1, <2>2
<1>7. GameOf(Registry(n), e.selected) = GameOf(WithBuiltins, e.selected)
  BY <1>4, SameGame
<1>8. \A u : AnalyzeUnit(opened, Registry(n), e, u) = AnalyzeUnit(opened, WithBuiltins, e, u)
  BY <1>7, SameUnit
<1>9. {AnalyzeUnit(opened, Registry(n), e, u) : u \in UnitsIn(opened)} = {AnalyzeUnit(opened, WithBuiltins, e, u) : u \in UnitsIn(opened)}
  BY <1>8
<1>10. AnalyzeDetected(Registry(n), request, ids, opened, e) = AnalyzeDetected(WithBuiltins, request, ids, opened, e)
  BY <1>9 DEF AnalyzeDetected
<1>11. p = q
  BY <1>2, <1>6, <1>10
<1> QED
  BY <1>11 DEF p, q

-----------------------------------------------------------------------------
(***************************************************************************)
(* The Paks of a comparison, and their units                               *)
(***************************************************************************)
\* The folder that Paks share is a part of the base folder of each.
LEMMA SharedFolder ==
  ASSUME NEW ids \in Seq(DOMAIN Contents), Len(ids) >= 1
  PROVE  LET ms == MountsOf(ids)
             n == CommonLength(ms)
         IN /\ DOMAIN ms = 1..Len(ids) /\ n \in Nat /\ Shared(ms, n)
            /\ \A i \in 1..Len(ids) : /\ ms[i] \in Seq(Name) /\ n <= Len(ms[i])
                                      /\ Rest(ms[i], n) \in Seq(Name) /\ SubSeq(ms[i], 1, n) \in Seq(Name)
                                      /\ ms[i] = SubSeq(ms[i], 1, n) \o Rest(ms[i], n)
<1> DEFINE ms == MountsOf(ids)
           n == CommonLength(ms)
           K == {k \in 0..Len(ms[1]) : Shared(ms, Len(ms[1]) - k)}
<1>1. DOMAIN ids = 1..Len(ids) /\ Len(ids) \in Nat /\ \A i \in 1..Len(ids) : ids[i] \in DOMAIN Contents
  BY LenProperties
<1>2. DOMAIN ms = 1..Len(ids) /\ \A i \in 1..Len(ids) : ms[i] \in Seq(Name) /\ ms[i] = Contents[ids[i]].mount
  BY <1>1, ContentsAssumption DEF MountsOf
<1>3. n = Len(ms[1]) - Least(K)
  BY DEF CommonLength
<1> HIDE DEF ms, n
<1>4. Len(ms[1]) \in Nat /\ \A i \in 1..Len(ids) : Len(ms[i]) \in Nat
  BY <1>1, <1>2, LenProperties
<1>5. Shared(ms, 0)
  <2>1. \A s : SubSeq(s, 1, 0) = << >>
    BY SubSeqEmpty
  <2>2. \A i \in DOMAIN ms : 0 <= Len(ms[i])
    BY <1>2, <1>4
  <2>3. \A i \in DOMAIN ms : Folded(SubSeq(ms[i], 1, 0)) = Folded(SubSeq(ms[1], 1, 0))
    BY <2>1
  <2> QED
    BY <2>2, <2>3 DEF Shared
<1>6. Len(ms[1]) \in K /\ K \in SUBSET Nat
  BY <1>4, <1>5
<1>7. Least(K) \in K /\ \A k \in K : k \in 0..Len(ms[1]) /\ Shared(ms, Len(ms[1]) - k)
  BY <1>6, LeastOf
<1> HIDE DEF K
<1>8. n \in Nat /\ Shared(ms, n)
  BY <1>3, <1>4, <1>7
<1>9. ASSUME NEW i \in 1..Len(ids)
      PROVE  /\ n <= Len(ms[i])
             /\ Rest(ms[i], n) \in Seq(Name) /\ SubSeq(ms[i], 1, n) \in Seq(Name)
             /\ ms[i] = SubSeq(ms[i], 1, n) \o Rest(ms[i], n)
  <2>1. n <= Len(ms[i]) /\ Len(ms[i]) \in Nat /\ ms[i] \in Seq(Name)
    BY <1>2, <1>4, <1>8 DEF Shared
  <2>2. \A k \in 1..Len(ms[i]) : ms[i][k] \in Name
    BY <2>1, ElementOfSeq
  <2>3. SubSeq(ms[i], 1, n) \in Seq(Name)
    <3>1. \A k \in 1..n : ms[i][k] \in Name
      BY <1>8, <2>1, <2>2
    <3> QED
      BY <1>8, <3>1, SubSeqProperties
  <2>4. SubSeq(ms[i], n + 1, Len(ms[i])) \in Seq(Name)
    <3>1. \A k \in (n + 1)..Len(ms[i]) : ms[i][k] \in Name
      BY <1>8, <2>1, <2>2
    <3> QED
      BY <1>8, <2>1, <3>1, SubSeqProperties
  <2>5. SubSeq(ms[i], 1, n) \o SubSeq(ms[i], n + 1, Len(ms[i])) = SubSeq(ms[i], 1, Len(ms[i]))
    <3>1. 1 \in 1..(Len(ms[i]) + 1) /\ n \in (1 - 1)..Len(ms[i]) /\ Len(ms[i]) \in n..Len(ms[i])
      BY <1>8, <2>1
    <3> QED
      BY <2>1, <3>1, ConcatAdjacentSubSeq
  <2>6. SubSeq(ms[i], 1, Len(ms[i])) = ms[i]
    BY <2>1, SubSeqFull
  <2> QED
    BY <2>1, <2>3, <2>4, <2>5, <2>6 DEF Rest
<1> QED
  BY <1>2, <1>8, <1>9 DEF ms, n

\* The Paks as they are opened: each file with its path behind the shared folder.
LEMMA OpenedPaks ==
  ASSUME NEW request, NEW ids, Ready(request, ids)
  PROVE  LET opened == OpenedFor(request, ids)
             n == CommonLength(MountsOf(ids))
         IN /\ ids \in Seq(DOMAIN Contents) /\ Len(ids) \in Nat /\ Len(ids) >= 1 /\ DOMAIN ids = 1..Len(ids)
            /\ opened.carrier \in 1..Len(ids) /\ opened.mount = SubSeq(MountsOf(ids)[opened.carrier], 1, n)
            /\ DOMAIN opened.paks = 1..Len(ids)
            /\ \A i, j \in 1..Len(ids) : opened.paks[i].id = opened.paks[j].id => i = j
            /\ \A i \in 1..Len(ids) :
                 LET pak == opened.paks[i]
                     files == Contents[ids[i]].files
                 IN /\ pak.id = ids[i] /\ DOMAIN pak.files = 1..Len(files) /\ Len(files) \in Nat
                    /\ DOMAIN files = 1..Len(files)
                    /\ \A k \in 1..Len(files) :
                         /\ pak.files[k] = Rebased(Rest(MountsOf(ids)[i], n), files[k])
                         /\ pak.files[k].path \in Seq(Name) \ {<< >>}
<1> DEFINE opened == OpenedFor(request, ids)
           n == CommonLength(MountsOf(ids))
           at == Position(request)
<1>1. /\ ids \in Seq(DOMAIN Contents) /\ Len(ids) = Len(request.paths) /\ IsInjective(ids)
      /\ Len(request.paths) \in 1..MaxPaks /\ request.carrier \in ToSet(request.paths) /\ request \in Requests
  BY DEF Ready, CanOpen, RequestFits
<1>2. Len(ids) \in Nat /\ DOMAIN ids = 1..Len(ids) /\ Len(ids) >= 1
  BY <1>1, LenProperties
<1>3. at \in 1..Len(ids)
  <2>1. DOMAIN request.paths = 1..Len(request.paths)
    BY <1>1, CommandLineAssumption, LenProperties
  <2>2. \E i \in DOMAIN request.paths : request.paths[i] = request.carrier
    BY <1>1 DEF ToSet
  <2> QED
    BY <1>1, <2>1, <2>2 DEF Position
<1>4. opened = [mount |-> SubSeq(MountsOf(ids)[at], 1, n), carrier |-> at,
                paks |-> [i \in DOMAIN ids |->
                  [id |-> ids[i], files |-> [k \in DOMAIN Contents[ids[i]].files |->
                    Rebased(Rest(MountsOf(ids)[i], n), Contents[ids[i]].files[k])]]]]
  BY DEF OpenedFor, Opened
<1> HIDE DEF opened, n
<1>5. opened.carrier = at /\ opened.mount = SubSeq(MountsOf(ids)[at], 1, n) /\ DOMAIN opened.paks = DOMAIN ids
      /\ \A i \in DOMAIN ids : opened.paks[i] = [id |-> ids[i], files |-> [k \in DOMAIN Contents[ids[i]].files |->
                    Rebased(Rest(MountsOf(ids)[i], n), Contents[ids[i]].files[k])]]
  BY <1>4
<1>6. \A i, j \in 1..Len(ids) : opened.paks[i].id = opened.paks[j].id => i = j
  <2>1. ASSUME NEW i \in 1..Len(ids) PROVE opened.paks[i].id = ids[i]
    <3>1. i \in DOMAIN ids
      BY <1>2
    <3>2. opened.paks[i] = [id |-> ids[i], files |-> [k \in DOMAIN Contents[ids[i]].files |->
                    Rebased(Rest(MountsOf(ids)[i], n), Contents[ids[i]].files[k])]]
      BY <1>5, <3>1
    <3> QED
      BY <3>2
  <2>2. \A i, j \in 1..Len(ids) : ids[i] = ids[j] => i = j
    BY <1>1, <1>2 DEF IsInjective
  <2> QED
    BY <2>1, <2>2
<1>7. ASSUME NEW i \in 1..Len(ids)
      PROVE  LET pak == opened.paks[i]
                 files == Contents[ids[i]].files
             IN /\ pak.id = ids[i] /\ DOMAIN pak.files = 1..Len(files) /\ Len(files) \in Nat
                /\ DOMAIN files = 1..Len(files)
                /\ \A k \in 1..Len(files) :
                     /\ pak.files[k] = Rebased(Rest(MountsOf(ids)[i], n), files[k])
                     /\ pak.files[k].path \in Seq(Name) \ {<< >>}
  <2> DEFINE files == Contents[ids[i]].files
             rest == Rest(MountsOf(ids)[i], n)
  <2>1. ids[i] \in DOMAIN Contents
    BY <1>1, ElementOfSeq
  <2>2. files \in Seq(ToSet(files)) /\ \A k \in DOMAIN files : files[k].path \in Seq(Name) \ {<< >>}
    BY <2>1, ContentsAssumption
  <2>3. rest \in Seq(Name)
    BY <1>1, <1>2, SharedFolder DEF n
  <2> HIDE DEF files, rest
  <2>4. DOMAIN files = 1..Len(files) /\ Len(files) \in Nat
    BY <2>2, LenProperties
  <2>5. opened.paks[i].id = ids[i] /\ DOMAIN opened.paks[i].files = 1..Len(files)
        /\ \A k \in 1..Len(files) : opened.paks[i].files[k] = Rebased(rest, files[k])
    <3>1. opened.paks[i] = [id |-> ids[i], files |-> [k \in DOMAIN files |-> Rebased(rest, files[k])]]
      BY <1>2, <1>5 DEF files, rest
    <3> QED
      BY <2>4, <3>1
  <2>6. ASSUME NEW k \in 1..Len(files) PROVE opened.paks[i].files[k].path \in Seq(Name) \ {<< >>}
    <3>1. opened.paks[i].files[k].path = rest \o files[k].path
      <4>1. opened.paks[i].files[k] = Rebased(rest, files[k])
        BY <2>5
      <4> QED
        BY <4>1 DEF Rebased
    <3>2. files[k].path \in Seq(Name) /\ files[k].path # << >>
      BY <2>2, <2>4
    <3>3. rest \o files[k].path \in Seq(Name) /\ rest \o files[k].path # << >>
      BY <2>3, <3>2, ConcatProperties, ConcatEqualIffEmpty
    <3> QED
      BY <3>1, <3>3
  <2> QED
    BY <2>4, <2>5, <2>6 DEF files, rest
<1> QED
  BY <1>1, <1>2, <1>3, <1>5, <1>6, <1>7 DEF opened, n

\* A path in lower case is as long and has its names in lower case.
LEMMA FoldedPath ==
  ASSUME NEW p \in Seq(Name)
  PROVE  Folded(p) \in Seq(Name) /\ Len(Folded(p)) = Len(p) /\ \A i \in 1..Len(p) : Folded(p)[i] = FoldName[p[i]]
<1>1. DOMAIN p = 1..Len(p) /\ Len(p) \in Nat /\ \A i \in 1..Len(p) : p[i] \in Name
  BY LenProperties
<1>2. Folded(p) \in [1..Len(p) -> Name] /\ \A i \in 1..Len(p) : Folded(p)[i] = FoldName[p[i]]
  BY <1>1, ProfilesAssumption DEF Folded
<1>3. Folded(p) \in Seq(Name)
  BY <1>1, <1>2, SeqDef
<1>4. DOMAIN Folded(p) = 1..Len(Folded(p)) /\ DOMAIN Folded(p) = 1..Len(p) /\ Len(Folded(p)) \in Nat
  BY <1>2, <1>3, LenProperties
<1>5. Len(Folded(p)) = Len(p)
  BY <1>1, <1>4, SameInterval
<1> QED
  BY <1>2, <1>3, <1>5

\* A path without the extension of its last name has the names before it.
LEMMA BaseOfPath ==
  ASSUME NEW p \in Seq(Name), p # << >>
  PROVE  /\ BasePath(p) \in Seq(Name) /\ Len(BasePath(p)) = Len(p) /\ Len(p) \in Nat /\ Len(p) >= 1
         /\ \A i \in 1..(Len(p) - 1) : BasePath(p)[i] = p[i]
         /\ Last(p) \in Name
         /\ BasePath(p)[Len(p)] = IF InPackage(p) THEN Stem[Last(p)] ELSE Last(p)
<1>1. Len(p) \in Nat /\ Len(p) >= 1 /\ \A i \in 1..Len(p) : p[i] \in Name
  BY LenProperties, EmptySeq
<1>2. Last(p) = p[Len(p)] /\ Last(p) \in Name
  BY <1>1 DEF Last
<1>3. CASE ~InPackage(p)
  BY <1>1, <1>2, <1>3 DEF BasePath
<1>4. CASE InPackage(p)
  <2>1. \A i \in 1..(Len(p) - 1) : p[i] \in Name
    BY <1>1
  <2>2. /\ Front(p) \in Seq(Name) /\ Len(Front(p)) = Len(p) - 1
        /\ \A i \in 1..(Len(p) - 1) : Front(p)[i] = p[i]
    <3>1. /\ SubSeq(p, 1, Len(p) - 1) \in Seq(Name)
          /\ Len(SubSeq(p, 1, Len(p) - 1)) = IF 1 <= Len(p) - 1 THEN Len(p) - 1 - 1 + 1 ELSE 0
          /\ \A i \in 1..(Len(p) - 1 - 1 + 1) : SubSeq(p, 1, Len(p) - 1)[i] = p[1 + i - 1]
      BY <1>1, <2>1, SubSeqProperties
    <3>2. Front(p) = SubSeq(p, 1, Len(p) - 1)
      BY DEF Front
    <3>3. Len(Front(p)) = Len(p) - 1
      <4> DEFINE n == Len(p)
      <4>1. n \in Nat /\ n >= 1 /\ Len(Front(p)) = IF 1 <= n - 1 THEN n - 1 - 1 + 1 ELSE 0
        BY <1>1, <3>1, <3>2
      <4> HIDE DEF n
      <4>2. Len(Front(p)) = n - 1
        BY <4>1
      <4> QED
        BY <4>2 DEF n
    <3>4. \A i \in 1..(Len(p) - 1) : Front(p)[i] = p[i]
      <4> TAKE i \in 1..(Len(p) - 1)
      <4>1. i \in 1..(Len(p) - 1 - 1 + 1) /\ 1 + i - 1 = i
        BY <1>1
      <4> QED
        BY <3>1, <3>2, <4>1
    <3> QED
      BY <3>1, <3>2, <3>3, <3>4
  <2>3. Stem[Last(p)] \in Name
    BY <1>2, ProfilesAssumption
  <2>4. BasePath(p) = Append(Front(p), Stem[Last(p)])
    BY <1>4 DEF BasePath
  <2>5. /\ Append(Front(p), Stem[Last(p)]) \in Seq(Name) /\ Len(Append(Front(p), Stem[Last(p)])) = Len(Front(p)) + 1
        /\ \A i \in 1..Len(Front(p)) : Append(Front(p), Stem[Last(p)])[i] = Front(p)[i]
        /\ Append(Front(p), Stem[Last(p)])[Len(Front(p)) + 1] = Stem[Last(p)]
    BY <2>2, <2>3, AppendProperties
  <2> QED
    BY <1>1, <1>2, <1>4, <2>2, <2>4, <2>5
<1> QED
  BY <1>3, <1>4

\* The file of a package is not named as its package.
LEMMA PackageFileName ==
  ASSUME NEW p \in Seq(Name), p # << >>, InPackage(p)
  PROVE  Folded(p) # Folded(BasePath(p))
<1>1. /\ BasePath(p) \in Seq(Name) /\ Len(BasePath(p)) = Len(p) /\ Len(p) \in Nat /\ Len(p) >= 1
      /\ BasePath(p)[Len(p)] = Stem[Last(p)] /\ Last(p) \in Name
  BY BaseOfPath
<1>2. Folded(p)[Len(p)] = FoldName[Last(p)] /\ Folded(BasePath(p))[Len(p)] = FoldName[Stem[Last(p)]]
  <2>1. Len(p) \in 1..Len(p)
    BY <1>1
  <2> QED
    BY <1>1, <2>1, FoldedPath DEF Last
<1>3. FoldName[Stem[Last(p)]] # FoldName[Last(p)]
  BY <1>1, ProfilesAssumption DEF InPackage
<1> QED
  BY <1>2, <1>3

\* The Paks that have a unit, in the order they were named in.
LEMMA ProvidersOf ==
  ASSUME NEW request, NEW ids, Ready(request, ids), NEW u
  PROVE  LET opened == OpenedFor(request, ids)
             paks == Providers(opened, u)
             n == Cardinality(HaveUnit(opened, u))
         IN /\ HaveUnit(opened, u) \subseteq 1..Len(ids) /\ n \in Nat
            /\ DOMAIN paks = 1..n /\ Len(paks) = n
            /\ \A k \in 1..n : \E i \in HaveUnit(opened, u) : paks[k] = opened.paks[i]
            /\ \A i \in HaveUnit(opened, u) : \E k \in 1..n : paks[k] = opened.paks[i]
            /\ \A j, k \in 1..n : paks[j].id = paks[k].id => j = k
            /\ u \in UnitsIn(opened) => n >= 1
<1> DEFINE opened == OpenedFor(request, ids)
           S == HaveUnit(opened, u)
           n == Cardinality(S)
           paks == Providers(opened, u)
<1>1. Len(ids) \in Nat /\ DOMAIN opened.paks = 1..Len(ids)
      /\ \A i, j \in 1..Len(ids) : opened.paks[i].id = opened.paks[j].id => i = j
  BY OpenedPaks
<1> HIDE DEF opened
<1>2. S \in SUBSET (1..Len(ids)) /\ S \in SUBSET Nat
  BY <1>1 DEF HaveUnit
<1>3. IsFiniteSet(1..Len(ids))
  BY <1>1, FS_Interval
<1>4. IsFiniteSet(S) /\ n \in Nat
  BY <1>2, <1>3, FS_Subset, FS_CardinalityType
<1>5. paks = [k \in 1..n |-> opened.paks[Nth(S, k)]]
  BY DEF Providers
<1> HIDE DEF S, paks, n
<1>6. DOMAIN paks = 1..n /\ \A k \in 1..n : paks[k] = opened.paks[Nth(S, k)]
  BY <1>5
<1>7. Len(paks) = n
  <2>1. paks \in [1..n -> {opened.paks[Nth(S, k)] : k \in 1..n}]
    BY <1>5
  <2>2. paks \in Seq({opened.paks[Nth(S, k)] : k \in 1..n})
    BY <1>4, <2>1, SeqDef
  <2>3. Len(paks) \in Nat /\ 1..Len(paks) = 1..n
    BY <1>6, <2>2, LenProperties
  <2> QED
    BY <1>4, <2>3, SameInterval
<1>8. /\ \A k \in 1..n : Nth(S, k) \in S
      /\ \A i \in S : \E k \in 1..n : Nth(S, k) = i
      /\ \A k \in 1..n : Cardinality({m \in S : m < Nth(S, k)}) = k - 1
  BY <1>2, <1>4, NthOf DEF n
<1>9. ASSUME NEW j \in 1..n, NEW k \in 1..n, paks[j].id = paks[k].id PROVE j = k
  <2>1. Nth(S, j) = Nth(S, k)
    BY <1>1, <1>2, <1>6, <1>8, <1>9
  <2>2. j - 1 = k - 1
    BY <1>8, <2>1
  <2> QED
    BY <1>4, <2>2
<1>10. u \in UnitsIn(opened) => n >= 1
  <2> SUFFICES ASSUME u \in UnitsIn(opened) PROVE n >= 1
    OBVIOUS
  <2>1. PICK i \in DOMAIN opened.paks : \E f \in ToSet(opened.paks[i].files) : u = UnitOf(f.path)
    BY DEF UnitsIn
  <2>2. i \in S
    BY <2>1 DEF S, HaveUnit, FilesOf
  <2>3. n # 0
    BY <1>4, <2>2, FS_EmptySet DEF n
  <2> QED
    BY <1>4, <2>3
<1> QED
  BY <1>2, <1>4, <1>6, <1>7, <1>8, <1>9, <1>10 DEF opened, S, n, paks

\* A unit is a package or a loose file.
LEMMA UnitForm ==
  ASSUME NEW p
  PROVE  LET u == UnitOf(p) IN
         /\ u = [kind |-> u.kind, key |-> u.key] /\ u.key = Folded(BasePath(p))
         /\ u.kind = "package" <=> InPackage(p)
         /\ u.kind = "loose" <=> ~InPackage(p)
BY DEF UnitOf

\* The name of a unit in a Pak that has it.
LEMMA SpelledUnit ==
  ASSUME NEW request, NEW ids, Ready(request, ids), NEW u, NEW i \in HaveUnit(OpenedFor(request, ids), u)
  PROVE  LET pak == OpenedFor(request, ids).paks[i] IN
         /\ \E f \in FilesOf(pak, u) : SpelledAs(pak, u) = BasePath(f.path)
         /\ Folded(SpelledAs(pak, u)) = u.key
         /\ FilesOf(pak, u) # {}
         /\ \A f \in FilesOf(pak, u) : /\ f \in ToSet(pak.files) /\ f.path \in Seq(Name) \ {<< >>} /\ UnitOf(f.path) = u
<1> DEFINE opened == OpenedFor(request, ids)
           pak == opened.paks[i]
           K == {k \in DOMAIN pak.files : UnitOf(pak.files[k].path) = u}
<1>1. i \in 1..Len(ids) /\ FilesOf(pak, u) # {}
  <2>1. DOMAIN opened.paks = 1..Len(ids)
    BY OpenedPaks
  <2> QED
    BY <2>1 DEF HaveUnit
<1>2. /\ DOMAIN pak.files \in SUBSET Nat
      /\ \A k \in DOMAIN pak.files : pak.files[k].path \in Seq(Name) \ {<< >>}
  <2>1. LET files == Contents[ids[i]].files IN DOMAIN pak.files = 1..Len(files) /\ Len(files) \in Nat
          /\ \A k \in 1..Len(files) : pak.files[k].path \in Seq(Name) \ {<< >>}
    BY <1>1, OpenedPaks
  <2> QED
    BY <2>1
<1> HIDE DEF pak
<1>3. K \in SUBSET Nat /\ K # {}
  BY <1>1, <1>2 DEF FilesOf, ToSet
<1>4. Least(K) \in K
  BY <1>3, LeastOf
<1>5. /\ Least(K) \in DOMAIN pak.files /\ UnitOf(pak.files[Least(K)].path) = u
      /\ SpelledAs(pak, u) = BasePath(pak.files[Least(K)].path)
  BY <1>4 DEF SpelledAs
<1> HIDE DEF K
<1>6. \A f \in FilesOf(pak, u) : f \in ToSet(pak.files) /\ f.path \in Seq(Name) \ {<< >>} /\ UnitOf(f.path) = u
  BY <1>2 DEF FilesOf, ToSet
<1>7. pak.files[Least(K)] \in FilesOf(pak, u)
  BY <1>5 DEF FilesOf, ToSet
<1>8. Folded(SpelledAs(pak, u)) = u.key
  BY <1>5, UnitForm
<1> QED
  BY <1>1, <1>5, <1>6, <1>7, <1>8 DEF pak

\* What the comparison can make of a unit: its plan and what it is found to be.
PlannedAs(o, u, paks, base, format, groups) ==
  \/ Len(paks) = 1 /\ o = GroupPlan(u, paks, "Copy", << >>, {})
  \/ Len(paks) > 1 /\ AllAlike(u, paks) /\ o = GroupPlan(u, paks, "Deduplicate", << >>, {})
  \/ /\ Len(paks) > 1 /\ ~AllAlike(u, paks) /\ Compares(u, paks, base, format, groups)
     /\ o = GroupPlan(u, paks, "MergeDatabase", SpelledAs(paks[base], u), RowConflicts(Views(paks, u), base, groups))
  \/ /\ Len(paks) > 1 /\ ~AllAlike(u, paks) /\ ~Compares(u, paks, base, format, groups)
     /\ o = GroupPlan(u, paks, "SelectOpaque", SpelledAs(paks[1], u), {WholeFile(paks)})

\* That is what it makes of a unit.
LEMMA GroupOutcome ==
  ASSUME NEW u, NEW paks, NEW base, NEW format, NEW groups, Len(paks) \in Nat, Len(paks) >= 1,
         NEW o, o = AnalyzeGroup(u, paks, base, format, groups)
  PROVE  PlannedAs(o, u, paks, base, format, groups)
<1>1. CASE Len(paks) = 1
  <2>1. o = GroupPlan(u, paks, "Copy", << >>, {})
    BY <1>1 DEF AnalyzeGroup
  <2> QED
    BY <1>1, <2>1 DEF PlannedAs
<1>0. Len(paks) > 1 => Len(paks) # 1
  <2>1. \A n \in Nat : n > 1 => n # 1
    OBVIOUS
  <2> QED
    BY <2>1, Zenon
<1>2. CASE Len(paks) > 1 /\ AllAlike(u, paks)
  <2>1. Len(paks) # 1
    BY <1>0, <1>2, Zenon
  <2>2. o = GroupPlan(u, paks, "Deduplicate", << >>, {})
    BY <1>2, <2>1 DEF AnalyzeGroup
  <2> QED
    BY <1>2, <2>2 DEF PlannedAs
<1>3. CASE Len(paks) > 1 /\ ~AllAlike(u, paks)
  <2>1. Len(paks) # 1
    BY <1>0, <1>3, Zenon
  <2>2. o = IF Compares(u, paks, base, format, groups)
            THEN GroupPlan(u, paks, "MergeDatabase", SpelledAs(paks[base], u), RowConflicts(Views(paks, u), base, groups))
            ELSE GroupPlan(u, paks, "SelectOpaque", SpelledAs(paks[1], u), {WholeFile(paks)})
    BY <1>3, <2>1 DEF AnalyzeGroup
  <2> QED
    BY <1>3, <2>2 DEF PlannedAs
<1>4. Len(paks) > 1 \/ Len(paks) = 1
  OBVIOUS
<1> QED
  BY <1>1, <1>2, <1>3, <1>4

\* The parts of such a plan.
LEMMA GroupPlanParts ==
  ASSUME NEW u, NEW paks, NEW action, NEW path, NEW found
  PROVE  LET o == GroupPlan(u, paks, action, path, found)
             a == o.asset
         IN /\ o.conflicts = {MakeConflict(u, path, c, paks) : c \in found}
            /\ a.virtual_path = SpelledAs(paks[1], u) /\ a.action = action
            /\ a.package_entries = (IF u.kind = "loose" THEN {SpelledAs(paks[1], u)}
                                    ELSE UNION {{f.path : f \in FilesOf(paks[i], u)} : i \in DOMAIN paks})
            /\ a.donor_input_ids = {paks[i].id : i \in DOMAIN paks}
            /\ a.conflict_ids = {c.id : c \in {x \in o.conflicts : x.blocking}}
BY DEF GroupPlan, AssetPlan

\* The asset of a unit in the plan is of that unit, for each of the actions.
LEMMA AssetOfUnit ==
  ASSUME NEW request, NEW ids, Ready(request, ids), NEW registry, NEW detected,
         NEW u \in UnitsIn(OpenedFor(request, ids))
  PROVE  LET opened == OpenedFor(request, ids)
             o == AnalyzeUnit(opened, registry, detected, u)
         IN /\ o.asset.action \in {"Copy", "Deduplicate", "MergeDatabase", "SelectOpaque"}
            /\ o.asset.virtual_path = SpelledAs(Providers(opened, u)[1], u)
            /\ Folded(o.asset.virtual_path) = u.key
            /\ o.asset.donor_input_ids = {Providers(opened, u)[i].id : i \in DOMAIN Providers(opened, u)}
            /\ o.asset.conflict_ids = {c.id : c \in {x \in o.conflicts : x.blocking}}
            /\ o.asset.action = "MergeDatabase" => u.kind = "package"
            /\ UnitOfAsset(opened, o.asset) = u
<1> DEFINE opened == OpenedFor(request, ids)
           paks == Providers(opened, u)
           base == BaseOf(opened, u)
           format == {g.format : g \in GameOf(registry, detected.selected)}
           groups == GroupsOf(registry, detected, SpelledAs(paks[base], u))
           o == AnalyzeUnit(opened, registry, detected, u)
           a == o.asset
<1>1. o = AnalyzeGroup(u, paks, base, format, groups)
  BY DEF AnalyzeUnit
<1>2. /\ Len(paks) \in Nat /\ Len(paks) >= 1 /\ DOMAIN paks = 1..Len(paks)
      /\ \A k \in 1..Len(paks) : \E i \in HaveUnit(opened, u) : paks[k] = opened.paks[i]
  BY ProvidersOf
<1>3. PICK j \in DOMAIN opened.paks : \E f \in ToSet(opened.paks[j].files) : u = UnitOf(f.path)
  BY DEF UnitsIn
<1>4. u = [kind |-> u.kind, key |-> u.key] /\ u.kind \in {"package", "loose"}
  BY <1>3, UnitForm
<1> HIDE DEF paks, base, format, groups, o
<1>5. \E action \in {"Copy", "Deduplicate", "MergeDatabase", "SelectOpaque"} : \E path, found :
        /\ o = GroupPlan(u, paks, action, path, found)
        /\ action = "MergeDatabase" => Compares(u, paks, base, format, groups)
  <2>1. \/ Len(paks) = 1 /\ o = GroupPlan(u, paks, "Copy", << >>, {})
        \/ Len(paks) > 1 /\ AllAlike(u, paks) /\ o = GroupPlan(u, paks, "Deduplicate", << >>, {})
        \/ /\ Len(paks) > 1 /\ ~AllAlike(u, paks) /\ Compares(u, paks, base, format, groups)
           /\ o = GroupPlan(u, paks, "MergeDatabase", SpelledAs(paks[base], u), RowConflicts(Views(paks, u), base, groups))
        \/ /\ Len(paks) > 1 /\ ~AllAlike(u, paks) /\ ~Compares(u, paks, base, format, groups)
           /\ o = GroupPlan(u, paks, "SelectOpaque", SpelledAs(paks[1], u), {WholeFile(paks)})
    <3>1. Len(paks) \in Nat /\ Len(paks) >= 1
      BY <1>2
    <3>2. PlannedAs(o, u, paks, base, format, groups)
      BY <1>1, <3>1, GroupOutcome, Zenon
    <3> QED
      BY <3>2 DEF PlannedAs
  <2> QED
    BY <2>1, Zenon
<1>6. PICK action \in {"Copy", "Deduplicate", "MergeDatabase", "SelectOpaque"} : \E path, found :
        /\ o = GroupPlan(u, paks, action, path, found)
        /\ action = "MergeDatabase" => Compares(u, paks, base, format, groups)
  BY <1>5, Zenon
<1>6a. PICK path, found : o = GroupPlan(u, paks, action, path, found)
  BY <1>6, Zenon
<1>7. /\ a.virtual_path = SpelledAs(paks[1], u) /\ a.action = action
      /\ a.package_entries = (IF u.kind = "loose" THEN {SpelledAs(paks[1], u)}
                              ELSE UNION {{f.path : f \in FilesOf(paks[i], u)} : i \in DOMAIN paks})
      /\ a.donor_input_ids = {paks[i].id : i \in DOMAIN paks}
      /\ a.conflict_ids = {c.id : c \in {x \in o.conflicts : x.blocking}}
  <2> DEFINE plan == GroupPlan(u, paks, action, path, found)
  <2>1. /\ plan.asset.virtual_path = SpelledAs(paks[1], u) /\ plan.asset.action = action
        /\ plan.asset.package_entries = (IF u.kind = "loose" THEN {SpelledAs(paks[1], u)}
                                ELSE UNION {{f.path : f \in FilesOf(paks[i], u)} : i \in DOMAIN paks})
        /\ plan.asset.donor_input_ids = {paks[i].id : i \in DOMAIN paks}
        /\ plan.asset.conflict_ids = {c.id : c \in {x \in plan.conflicts : x.blocking}}
    BY DEF plan, GroupPlan, AssetPlan
  <2>2. o = plan
    BY <1>6a
  <2> HIDE DEF plan
  <2> QED
    BY <2>1, <2>2
<1> HIDE DEF a
<1>8. \A k \in DOMAIN paks : /\ Folded(SpelledAs(paks[k], u)) = u.key
                             /\ \A f \in FilesOf(paks[k], u) : f.path \in Seq(Name) \ {<< >>} /\ UnitOf(f.path) = u
  BY <1>2, SpelledUnit
<1>9. Folded(a.virtual_path) = u.key
  BY <1>2, <1>7, <1>8
<1>10. action = "MergeDatabase" => u.kind = "package"
  BY <1>2, <1>6 DEF Compares, IsDatabaseCandidate
<1>11. CASE u.kind = "loose"
  <2>1. a.package_entries = {a.virtual_path}
    BY <1>7, <1>11
  <2>2. LooseAsset(a)
    BY <2>1 DEF LooseAsset
  <2>3. UnitOfAsset(opened, a) = [kind |-> "loose", key |-> Folded(a.virtual_path)]
    BY <2>2 DEF UnitOfAsset
  <2> QED
    BY <1>4, <1>6, <1>7, <1>9, <1>10, <1>11, <2>3 DEF a, o, paks
<1>12. CASE u.kind = "package"
  <2>1. ~LooseAsset(a)
    <3> SUFFICES ASSUME NEW path2 \in a.package_entries, Folded(path2) = Folded(a.virtual_path) PROVE FALSE
      BY DEF LooseAsset
    <3>1. PICK k \in DOMAIN paks : \E f \in FilesOf(paks[k], u) : path2 = f.path
      BY <1>7, <1>12
    <3>2. path2 \in Seq(Name) /\ path2 # << >> /\ UnitOf(path2) = u
      BY <1>8, <3>1
    <3>3. InPackage(path2) /\ u.key = Folded(BasePath(path2))
      BY <1>12, <3>2, UnitForm
    <3> QED
      BY <1>9, <3>2, <3>3, PackageFileName
  <2>2. UnitOfAsset(opened, a) = [kind |-> "package", key |-> Folded(a.virtual_path)]
    BY <1>4, <1>9, <1>12, <2>1 DEF UnitOfAsset
  <2> QED
    BY <1>4, <1>6, <1>7, <1>9, <1>10, <1>12, <2>2 DEF a, o, paks
<1> QED
  BY <1>4, <1>11, <1>12

-----------------------------------------------------------------------------
(***************************************************************************)
(* The entries of the merged Pak                                           *)
(***************************************************************************)
\* A merged database is two files from no Pak, or cannot be built.
LEMMA BuiltFiles ==
  ASSUME NEW registry, NEW plan, NEW choices, NEW u, NEW paks, NEW base
  PROVE  LET b == BuiltDatabase(registry, plan, choices, u, paks, base) IN
         /\ \/ ~b.built /\ b.files = {}
            \/ b.built /\ \E header, payload : b.files = DatabaseFiles(paks[base], u, header, payload)
         /\ IsTable(paks[base], u) => b.audited = {}
         /\ ~IsTable(paks[base], u) => b.audited = {u.key}
<1> DEFINE b == BuiltDatabase(registry, plan, choices, u, paks, base)
<1>1. CASE IsTable(paks[base], u)
  <2>1. \E path, donor : b = BuiltTable(plan, path, paks, u, base, donor)
    BY <1>1 DEF BuiltDatabase
  <2>2. \E images, wanted, rows : b = WithSelections(paks[base], u, images, base, wanted, rows)
    BY <2>1, Zenon DEF BuiltTable
  <2>3. \E images, known, selections : b = TablesBuilt(paks[base], u, images, base, known, selections)
    BY <2>2, Zenon DEF WithSelections
  <2> HIDE DEF b
  <2>4. PICK images, known, selections : b = TablesBuilt(paks[base], u, images, base, known, selections)
    BY <2>3
  <2> DEFINE merged == MergedTable(images, base, selections)
  <2>5. \/ b = [built |-> TRUE, audited |-> {}, files |-> TableBlobs(paks[base], u, merged)]
        \/ b = [built |-> FALSE, audited |-> {}, files |-> {}]
    BY <2>4, Zenon DEF TablesBuilt
  <2>6. \E header, payload : TableBlobs(paks[base], u, merged) = DatabaseFiles(paks[base], u, header, payload)
    BY Zenon DEF TableBlobs
  <2> HIDE DEF merged
  <2>7. b.audited = {}
    BY <2>5
  <2>8. \/ ~b.built /\ b.files = {}
        \/ b.built /\ b.files = TableBlobs(paks[base], u, merged)
    BY <2>5
  <2> QED
    BY <1>1, <2>6, <2>7, <2>8, Zenon DEF b
<1>2. CASE ~IsTable(paks[base], u)
  <2>1. \E groups, donor : b = BuiltRows(paks, u, base, groups, donor)
    BY <1>2, Zenon DEF BuiltDatabase
  <2> HIDE DEF b
  <2>2. \E files : /\ b = [built |-> TRUE, audited |-> {u.key}, files |-> files]
                   /\ \E header, payload : files = DatabaseFiles(paks[base], u, header, payload)
    BY <2>1, Zenon DEF BuiltRows
  <2>3. PICK files : /\ b = [built |-> TRUE, audited |-> {u.key}, files |-> files]
                     /\ \E header, payload : files = DatabaseFiles(paks[base], u, header, payload)
    BY <2>2
  <2>4. b.built /\ b.audited = {u.key} /\ b.files = files
    BY <2>3
  <2> QED
    BY <1>2, <2>3, <2>4, Zenon DEF b
<1> QED
  BY <1>1, <1>2

\* The choice that an asset needs, and the files of the Paks it may be.
Chosen(choices, asset) == choices[CHOOSE id \in asset.conflict_ids : TRUE]
FilesFrom(paks, u, id) == UNION {CopiedFrom(pak, u) : pak \in {x \in ToSet(paks) : x.id = id}}

\* What an asset becomes, by its action.
PreparedIs(p, asset, u, paks, base, r, plan, choices) ==
  \/ asset.action = "MergeDatabase" /\ p = BuiltDatabase(r, plan, choices, u, paks, base)
  \/ /\ asset.action = "SelectOpaque" /\ p.built /\ p.audited = {}
     /\ p.files = FilesFrom(paks, u, Chosen(choices, asset))
  \/ /\ asset.action \in {"Copy", "Deduplicate"} /\ p.built /\ p.audited = {}
     /\ \E pak \in ToSet(paks) : p.files = CopiedFrom(pak, u)

\* What becomes of the asset of a unit, for each of the actions.
LEMMA PreparedCases ==
  ASSUME NEW request, NEW ids, Ready(request, ids), NEW registry, NEW detected,
         NEW u \in UnitsIn(OpenedFor(request, ids)), NEW r, NEW plan, NEW choices
  PROVE  LET opened == OpenedFor(request, ids)
             asset == AnalyzeUnit(opened, registry, detected, u).asset
         IN PreparedIs(Prepared(opened, r, plan, choices, asset), asset, u, Providers(opened, u),
                       BaseOf(opened, u), r, plan, choices)
<1> DEFINE opened == OpenedFor(request, ids)
           a == AnalyzeUnit(opened, registry, detected, u).asset
           paks == Providers(opened, u)
           p == Prepared(opened, r, plan, choices, a)
           donor == DonorFor(a, paks, u)
<1>1. /\ a.action \in {"Copy", "Deduplicate", "MergeDatabase", "SelectOpaque"} /\ UnitOfAsset(opened, a) = u
      /\ a.donor_input_ids = {paks[i].id : i \in DOMAIN paks} /\ (a.action = "MergeDatabase" => u.kind = "package")
  BY AssetOfUnit
<1>2. DOMAIN paks = 1..Len(paks) /\ Len(paks) \in Nat /\ Len(paks) >= 1
  BY ProvidersOf
<1>3. u \in UnitsIn(opened)
  OBVIOUS
<1> HIDE DEF opened, a, paks
<1>4. donor \in ToSet(paks)
  <2>1. 1 \in DOMAIN paks
    BY <1>2
  <2>2. paks[1] \in ToSet(paks) /\ paks[1].id \in a.donor_input_ids
    <3>1. paks[1] \in ToSet(paks)
      BY <2>1 DEF ToSet
    <3>2. paks[1].id \in {paks[i].id : i \in DOMAIN paks}
      BY <2>1
    <3> QED
      BY <1>1, <3>1, <3>2
  <2> QED
    BY <2>2 DEF DonorFor
<1>5. p = PreparedAs(opened, r, plan, choices, a, u)
  BY <1>1 DEF Prepared
<1> HIDE DEF p, donor
<1> SUFFICES PreparedIs(p, a, u, paks, BaseOf(opened, u), r, plan, choices)
  BY DEF p, a, paks, opened
<1>6. CASE a.action = "MergeDatabase"
  <2>1. p = BuiltDatabase(r, plan, choices, u, paks, BaseOf(opened, u))
    <3>1. u.kind = "package"
      BY <1>1, <1>6
    <3>2. PreparedAs(opened, r, plan, choices, a, u) = BuiltDatabase(r, plan, choices, u, Providers(opened, u), BaseOf(opened, u))
      BY <1>6, <3>1 DEF PreparedAs
    <3> QED
      BY <1>5, <3>2 DEF paks
  <2> QED
    BY <1>6, <2>1 DEF PreparedIs
<1>7. CASE a.action = "SelectOpaque"
  <2> DEFINE files == FilesFrom(paks, u, Chosen(choices, a))
  <2>1. p = [built |-> u \in UnitsIn(opened), audited |-> {}, files |-> files]
    BY <1>5, <1>7 DEF PreparedAs, paks, FilesFrom, Chosen
  <2> HIDE DEF files
  <2>2. p.built /\ p.audited = {} /\ p.files = files
    BY <1>3, <2>1
  <2> QED
    BY <1>7, <2>2 DEF PreparedIs, files
<1>8. CASE a.action \in {"Copy", "Deduplicate"}
  <2>1. a.action # "MergeDatabase" /\ a.action # "SelectOpaque"
    BY <1>8
  <2>2. p = [built |-> u \in UnitsIn(opened), audited |-> {}, files |-> CopiedFrom(donor, u)]
    BY <1>5, <1>8, <2>1 DEF PreparedAs, paks, donor
  <2>3. p.built /\ p.audited = {} /\ p.files = CopiedFrom(donor, u)
    BY <1>3, <2>2
  <2> QED
    BY <1>4, <1>8, <2>3 DEF PreparedIs
<1> QED
  BY <1>1, <1>6, <1>7, <1>8

\* What is copied, is a file of an open Pak.
FileCopied(opened, e) ==
  \E i \in DOMAIN opened.paks : \E f \in ToSet(opened.paks[i].files) :
    e = [path |-> f.path, from |-> <<[pak |-> opened.paks[i].id, own |-> f.own]>>, blob |-> f.blob]

\* The members of a Pak, and of a comparison, are finitely many.
LEMMA FilesFinite ==
  ASSUME NEW request, NEW ids, Ready(request, ids)
  PROVE  LET opened == OpenedFor(request, ids) IN
         /\ \A i \in DOMAIN opened.paks : IsFiniteSet(ToSet(opened.paks[i].files))
         /\ IsFiniteSet(UnitsIn(opened))
<1> DEFINE opened == OpenedFor(request, ids)
<1>1. /\ Len(ids) \in Nat /\ DOMAIN opened.paks = 1..Len(ids)
      /\ \A i \in 1..Len(ids) : DOMAIN opened.paks[i].files = 1..Len(Contents[ids[i]].files) /\ Len(Contents[ids[i]].files) \in Nat
  BY OpenedPaks
<1> HIDE DEF opened
<1>2. ASSUME NEW i \in DOMAIN opened.paks PROVE IsFiniteSet(ToSet(opened.paks[i].files))
  <2> DEFINE files == opened.paks[i].files
  <2>1. IsFiniteSet(DOMAIN files)
    <3>1. Len(Contents[ids[i]].files) \in Nat /\ DOMAIN files = 1..Len(Contents[ids[i]].files)
      BY <1>1
    <3>2. IsFiniteSet(1..Len(Contents[ids[i]].files))
      BY <3>1, FS_Interval
    <3> QED
      BY <3>1, <3>2
  <2> HIDE DEF files
  <2>2. \A t \in ToSet(files) : \E k \in DOMAIN files : t = files[k]
    BY DEF ToSet
  <2>3. IsFiniteSet(ToSet(files))
    BY <2>1, <2>2, ReachedIsFinite
  <2> QED
    BY <2>3 DEF files
<1> DEFINE Of(i) == {UnitOf(f.path) : f \in ToSet(opened.paks[i].files)}
           all == {Of(i) : i \in DOMAIN opened.paks}
<1>3. ASSUME NEW i \in DOMAIN opened.paks PROVE IsFiniteSet(Of(i))
  <2> DEFINE g == [f \in ToSet(opened.paks[i].files) |-> UnitOf(f.path)]
  <2>1. DOMAIN g = ToSet(opened.paks[i].files) /\ IsFiniteSet(ToSet(opened.paks[i].files))
    BY <1>2
  <2>2. \A t \in Of(i) : \E f \in ToSet(opened.paks[i].files) : t = g[f]
    OBVIOUS
  <2> HIDE DEF g, Of
  <2> QED
    BY <2>1, <2>2, ReachedIsFinite
<1>4. IsFiniteSet(all)
  <2> DEFINE g == [i \in DOMAIN opened.paks |-> Of(i)]
  <2>1. IsFiniteSet(DOMAIN opened.paks)
    BY <1>1, FS_Interval
  <2>2. \A t \in all : \E i \in DOMAIN opened.paks : t = g[i]
    OBVIOUS
  <2>3. DOMAIN g = DOMAIN opened.paks
    OBVIOUS
  <2> HIDE DEF g, all, Of
  <2> QED
    BY <2>1, <2>2, <2>3, ReachedIsFinite
<1>5. IsFiniteSet(UNION all)
  <2>1. \A T \in all : IsFiniteSet(T)
    BY <1>3
  <2> HIDE DEF all
  <2> QED
    BY <1>4, <2>1, FS_UNION
<1>6. UnitsIn(opened) = UNION all
  BY DEF UnitsIn
<1> QED
  BY <1>2, <1>5, <1>6 DEF opened

\* The files that are copied of one unit of one Pak.
LEMMA CopiedFinite ==
  ASSUME NEW request, NEW ids, Ready(request, ids), NEW u, NEW pak \in ToSet(Providers(OpenedFor(request, ids), u))
  PROVE  /\ IsFiniteSet(CopiedFrom(pak, u))
         /\ \A e \in CopiedFrom(pak, u) : FileCopied(OpenedFor(request, ids), e)
<1> DEFINE opened == OpenedFor(request, ids)
<1>1. PICK i \in DOMAIN opened.paks : pak = opened.paks[i]
  <2>1. PICK k \in DOMAIN Providers(opened, u) : pak = Providers(opened, u)[k]
    BY DEF ToSet
  <2>2. /\ DOMAIN Providers(opened, u) = 1..Cardinality(HaveUnit(opened, u))
        /\ \A t \in 1..Cardinality(HaveUnit(opened, u)) : \E i \in HaveUnit(opened, u) : Providers(opened, u)[t] = opened.paks[i]
    BY ProvidersOf, Zenon
  <2>3. \E i \in HaveUnit(opened, u) : Providers(opened, u)[k] = opened.paks[i]
    BY <2>1, <2>2, Zenon
  <2> QED
    BY <2>1, <2>3 DEF HaveUnit
<1>2. IsFiniteSet(ToSet(pak.files))
  BY <1>1, FilesFinite
<1> HIDE DEF opened
<1>3. IsFiniteSet(FilesOf(pak, u))
  <2>1. FilesOf(pak, u) \in SUBSET ToSet(pak.files)
    BY DEF FilesOf
  <2> QED
    BY <1>2, <2>1, FS_Subset
<1>4. IsFiniteSet(CopiedFrom(pak, u))
  <2> DEFINE g == [f \in FilesOf(pak, u) |-> [path |-> f.path, from |-> <<[pak |-> pak.id, own |-> f.own]>>, blob |-> f.blob]]
  <2>1. \A e \in CopiedFrom(pak, u) : \E f \in FilesOf(pak, u) : e = g[f]
    BY DEF CopiedFrom
  <2>2. DOMAIN g = FilesOf(pak, u)
    OBVIOUS
  <2> HIDE DEF g
  <2> QED
    BY <1>3, <2>1, <2>2, ReachedIsFinite
<1>5. ASSUME NEW e \in CopiedFrom(pak, u) PROVE FileCopied(opened, e)
  <2>1. PICK f \in FilesOf(pak, u) : e = [path |-> f.path, from |-> <<[pak |-> pak.id, own |-> f.own]>>, blob |-> f.blob]
    BY DEF CopiedFrom
  <2>2. f \in ToSet(opened.paks[i].files)
    BY <1>1 DEF FilesOf
  <2> QED
    BY <1>1, <2>1, <2>2 DEF FileCopied
<1> QED
  BY <1>4, <1>5 DEF opened

\* Of one asset, the entries are finitely many; each is copied or of a merge.
LEMMA PreparedFiles ==
  ASSUME NEW request, NEW ids, Ready(request, ids), NEW registry, NEW detected,
         NEW u \in UnitsIn(OpenedFor(request, ids)), NEW r, NEW plan, NEW choices
  PROVE  LET opened == OpenedFor(request, ids)
             p == Prepared(opened, r, plan, choices, AnalyzeUnit(opened, registry, detected, u).asset)
         IN /\ IsFiniteSet(p.files)
            /\ \A e \in p.files : e.from = << >> \/ FileCopied(opened, e)
<1> DEFINE opened == OpenedFor(request, ids)
           a == AnalyzeUnit(opened, registry, detected, u).asset
           paks == Providers(opened, u)
           p == Prepared(opened, r, plan, choices, a)
<1>1. \/ p = BuiltDatabase(r, plan, choices, u, paks, BaseOf(opened, u))
      \/ p.files = FilesFrom(paks, u, Chosen(choices, a))
      \/ \E pak \in ToSet(paks) : p.files = CopiedFrom(pak, u)
  <2>1. PreparedIs(p, a, u, paks, BaseOf(opened, u), r, plan, choices)
    BY PreparedCases
  <2> HIDE DEF opened, a, paks, p
  <2> QED
    BY <2>1 DEF PreparedIs
<1>2. \A pak \in ToSet(paks) : IsFiniteSet(CopiedFrom(pak, u)) /\ \A e \in CopiedFrom(pak, u) : FileCopied(opened, e)
  BY CopiedFinite
<1>3. IsFiniteSet(ToSet(paks))
  <2>1. DOMAIN paks = 1..Len(paks) /\ Len(paks) \in Nat
    BY ProvidersOf
  <2>2. IsFiniteSet(1..Len(paks))
    BY <2>1, FS_Interval
  <2>3. \A t \in ToSet(paks) : \E k \in DOMAIN paks : t = paks[k]
    BY DEF ToSet
  <2> HIDE DEF paks
  <2> QED
    BY <2>1, <2>2, <2>3, ReachedIsFinite
<1> HIDE DEF opened, a, paks, p
<1>4. CASE p = BuiltDatabase(r, plan, choices, u, paks, BaseOf(opened, u))
  <2>1. p.files = {} \/ \E header, payload : p.files = DatabaseFiles(paks[BaseOf(opened, u)], u, header, payload)
    <3> DEFINE b == BuiltDatabase(r, plan, choices, u, paks, BaseOf(opened, u))
    <3>1. \/ ~b.built /\ b.files = {}
          \/ b.built /\ \E header, payload : b.files = DatabaseFiles(paks[BaseOf(opened, u)], u, header, payload)
      BY BuiltFiles
    <3>2. p = b
      BY <1>4
    <3> HIDE DEF b
    <3> QED
      BY <3>1, <3>2, Zenon
  <2>2. \A pak, header, payload : IsFiniteSet(DatabaseFiles(pak, u, header, payload))
    <3> TAKE pak, header, payload
    <3>1. \A x, y : IsFiniteSet({x, y})
      <4> TAKE x, y
      <4>1. IsFiniteSet({x}) /\ {x, y} = {x} \cup {y}
        BY FS_Singleton
      <4> QED
        BY <4>1, FS_AddElement
    <3> QED
      BY <3>1, Zenon DEF DatabaseFiles
  <2>3. \A pak, header, payload : \A e \in DatabaseFiles(pak, u, header, payload) : e.from = << >>
    BY DEF DatabaseFiles
  <2> QED
    <3>1. CASE p.files = {}
      BY <3>1, FS_EmptySet DEF p, a, opened
    <3>2. CASE \E header, payload : p.files = DatabaseFiles(paks[BaseOf(opened, u)], u, header, payload)
      <4>1. PICK header, payload : p.files = DatabaseFiles(paks[BaseOf(opened, u)], u, header, payload)
        BY <3>2, Zenon
      <4>2. /\ IsFiniteSet(p.files)
            /\ \A e \in p.files : e.from = << >>
        BY <2>2, <2>3, <4>1
      <4> QED
        BY <4>2, Zenon DEF p, a, opened
    <3> QED
      BY <2>1, <3>1, <3>2, Zenon
<1>5. CASE p.files = FilesFrom(paks, u, Chosen(choices, a))
  <2> DEFINE D == {x \in ToSet(paks) : x.id = Chosen(choices, a)}
             all == {CopiedFrom(pak, u) : pak \in D}
             g == [pak \in D |-> CopiedFrom(pak, u)]
  <2>1. IsFiniteSet(D)
    <3>1. D \in SUBSET ToSet(paks)
      OBVIOUS
    <3> QED
      BY <1>3, <3>1, FS_Subset
  <2>2. \A T \in all : IsFiniteSet(T) /\ \A e \in T : FileCopied(opened, e)
    BY <1>2
  <2>3. \A t \in all : \E x \in D : t = g[x]
    OBVIOUS
  <2>4. DOMAIN g = D
    OBVIOUS
  <2>5. p.files = UNION all
    BY <1>5 DEF FilesFrom
  <2> HIDE DEF D, all, g
  <2>6. IsFiniteSet(all)
    BY <2>1, <2>3, <2>4, ReachedIsFinite
  <2>7. IsFiniteSet(UNION all)
    BY <2>2, <2>6, FS_UNION
  <2> QED
    BY <2>2, <2>5, <2>7 DEF p, a, opened
<1>6. CASE \E pak \in ToSet(paks) : p.files = CopiedFrom(pak, u)
  BY <1>2, <1>6 DEF p, a, opened
<1> QED
  BY <1>1, <1>4, <1>5, <1>6

\* The entries of the merged Pak are finitely many.
LEMMA EntriesFinite ==
  ASSUME NEW n, NEW request, NEW ids, Ready(request, ids), NEW choices
  PROVE  LET entries == EntriesFor(n, request, ids, choices) IN
         /\ IsFiniteSet(entries)
         /\ \A e \in entries : e.from = << >> \/ FileCopied(OpenedFor(request, ids), e)
<1> DEFINE opened == OpenedFor(request, ids)
           plan == PlanOf(n, request, ids)
           detected == DetectInventory(Registry(n), Inventory(opened))
           Of(u) == Prepared(opened, Registry(n), plan, choices, AnalyzeUnit(opened, Registry(n), detected, u).asset)
           all == {Of(u).files : u \in UnitsIn(opened)}
           g == [u \in UnitsIn(opened) |-> Of(u).files]
<1>1. plan.assets = {AnalyzeUnit(opened, Registry(n), detected, u).asset : u \in UnitsIn(opened)}
  BY PlanParts
<1>2. EntriesFor(n, request, ids, choices) = UNION {p.files : p \in {Prepared(opened, Registry(n), plan, choices, asset) : asset \in plan.assets}}
  BY DEF EntriesFor, PreparedFor, OutputEntries
<1>3. \A u \in UnitsIn(opened) : IsFiniteSet(Of(u).files) /\ \A e \in Of(u).files : e.from = << >> \/ FileCopied(opened, e)
  BY PreparedFiles
<1> HIDE DEF opened, plan, detected
<1>4. EntriesFor(n, request, ids, choices) = UNION all
  <2>1. \A e \in EntriesFor(n, request, ids, choices) : e \in UNION all
    BY <1>1, <1>2
  <2>2. \A e \in UNION all : e \in EntriesFor(n, request, ids, choices)
    BY <1>1, <1>2
  <2> QED
    BY <2>1, <2>2
<1>5. IsFiniteSet(UnitsIn(opened))
  BY FilesFinite DEF opened
<1>6. /\ DOMAIN g = UnitsIn(opened) /\ \A t \in all : \E u \in UnitsIn(opened) : t = g[u]
      /\ \A T \in all : IsFiniteSet(T) /\ \A e \in T : e.from = << >> \/ FileCopied(opened, e)
  BY <1>3
<1> HIDE DEF all, g
<1>7. IsFiniteSet(all)
  BY <1>5, <1>6, ReachedIsFinite
<1>8. IsFiniteSet(UNION all)
  BY <1>6, <1>7, FS_UNION
<1> QED
  BY <1>4, <1>6, <1>8 DEF opened

\* Where a Pak was named, and what a file is in its inventory.
PlaceOf(ids, pak) == CHOOSE i \in DOMAIN ids : ids[i] = pak
BlobsAt(files, own) == {x.blob : x \in {y \in ToSet(files) : y.path = own}}

\* The Paks that are open are still under their paths, and the blobs that a
\* copied file finds in its Pak.
HeldAs(held, paths, ids) == \A i \in 1..Len(ids) : held[paths[i]] = ids[i]
FoundIn(held, paths, ids, from) == BlobsAt(Contents[held[paths[PlaceOf(ids, from.pak)]]].files, from.own)

\* A file that is read while its Pak is open is the one that was compared.
LEMMA OwnBlob ==
  ASSUME NEW request, NEW ids, Ready(request, ids), NEW held,
         HeldAs(held, request.paths, ids),
         NEW e, FileCopied(OpenedFor(request, ids), e)
  PROVE  FoundIn(held, request.paths, ids, e.from[1]) = {e.blob}
<1> DEFINE opened == OpenedFor(request, ids)
<1>1. PICK i \in DOMAIN opened.paks : \E f \in ToSet(opened.paks[i].files) :
        e = [path |-> f.path, from |-> <<[pak |-> opened.paks[i].id, own |-> f.own]>>, blob |-> f.blob]
  BY DEF FileCopied
<1>2. PICK f \in ToSet(opened.paks[i].files) :
        e = [path |-> f.path, from |-> <<[pak |-> opened.paks[i].id, own |-> f.own]>>, blob |-> f.blob]
  BY <1>1
<1> DEFINE files == Contents[ids[i]].files
           prefix == Rest(MountsOf(ids)[i], CommonLength(MountsOf(ids)))
<1>3. /\ i \in 1..Len(ids) /\ DOMAIN ids = 1..Len(ids) /\ opened.paks[i].id = ids[i] /\ ids \in Seq(DOMAIN Contents)
      /\ DOMAIN opened.paks[i].files = 1..Len(files) /\ DOMAIN files = 1..Len(files)
      /\ \A k \in 1..Len(files) : opened.paks[i].files[k] = Rebased(prefix, files[k])
  BY OpenedPaks
<1>4. \A j \in 1..Len(ids) : ids[j] = ids[i] => j = i
  BY <1>3 DEF Ready, CanOpen, IsInjective
<1> HIDE DEF opened, files, prefix
<1>5. PICK k \in 1..Len(files) : f = Rebased(prefix, files[k])
  BY <1>3 DEF ToSet
<1>6. f.own = files[k].path /\ f.blob = files[k].blob
  BY <1>5 DEF Rebased
<1>7. e.from[1].pak = ids[i] /\ e.from[1].own = files[k].path /\ e.blob = files[k].blob
  BY <1>2, <1>3, <1>6
<1>8. PlaceOf(ids, e.from[1].pak) = i
  BY <1>3, <1>4, <1>7 DEF PlaceOf
<1>9. held[request.paths[i]] = ids[i]
  BY <1>3 DEF HeldAs
<1>10. \A j \in 1..Len(files) : files[j].path = files[k].path => j = k
  <2>1. ids[i] \in DOMAIN Contents
    BY <1>3, ElementOfSeq
  <2>2. \A j, m \in DOMAIN files : Folded(files[j].path) = Folded(files[m].path) => m = j
    BY <2>1, ContentsAssumption DEF files
  <2> QED
    BY <1>3, <2>2
<1>11. BlobsAt(files, files[k].path) = {files[k].blob}
  <2>1. {y \in ToSet(files) : y.path = files[k].path} = {files[k]}
    BY <1>3, <1>10 DEF ToSet
  <2> QED
    BY <2>1 DEF BlobsAt
<1> QED
  BY <1>7, <1>8, <1>9, <1>11 DEF files, FoundIn

-----------------------------------------------------------------------------
(***************************************************************************)
(* The invariant of a comparison, a merge and its output                   *)
(***************************************************************************)
LEMMA InitInv == Init => IInv
<1> SUFFICES ASSUME Init PROVE IInv
  OBVIOUS
<1>1. disk \in Disks /\ saved = << >> /\ process = Idle /\ output = << >>
  BY DEF Init
<1>2. DiskInv
  BY <1>1, CommandLineAssumption DEF DiskInv
<1>3. StepInv /\ process.step = "idle"
  BY <1>1 DEF StepInv, Shape, Idle, Begun
<1>4. HeldInv /\ OpenedInv /\ PlanInv /\ MergingInv /\ WritingInv
  BY <1>3 DEF HeldInv, OpenedInv, PlanInv, MergingInv, WritingInv
<1>5. SavedInv /\ OutputInv
  BY <1>1 DEF SavedInv, OutputInv
<1> QED
  BY <1>2, <1>3, <1>4, <1>5 DEF IInv

\* A call that ends leaves what it made.
LEMMA EndsInv ==
  ASSUME IInv, process' = Idle, disk' = disk, SavedInv', OutputInv'
  PROVE  IInv'
<1>1. StepInv' /\ process'.step = "idle"
  BY DEF StepInv, Shape, Idle, Begun
<1>2. DiskInv'
  BY DEF IInv, DiskInv
<1>3. HeldInv' /\ OpenedInv' /\ PlanInv' /\ MergingInv' /\ WritingInv'
  BY <1>1 DEF HeldInv, OpenedInv, PlanInv, MergingInv, WritingInv
<1> QED
  BY <1>1, <1>2, <1>3 DEF IInv

\* So does one that leaves nothing.
LEMMA FailsInv ==
  ASSUME IInv, process' = Idle, disk' = disk, UNCHANGED <<saved, output>>
  PROVE  IInv'
<1>1. SavedInv' /\ OutputInv'
  BY DEF IInv, SavedInv, OutputInv
<1> QED
  BY <1>1, EndsInv

\* A step inside a call.
LEMMA StepsInv ==
  ASSUME IInv, NEW next, Steps(next), Shape(next), next.step \in {"opening", "opened", "compared", "writing"},
         next.step # "writing" => next.written = {},
         HeldInv', OpenedInv', PlanInv', MergingInv', WritingInv'
  PROVE  IInv'
<1>1. process' = next /\ UNCHANGED <<disk, saved, output>>
  BY DEF Steps
<1>2. StepInv'
  <2>1. Idle.step = "idle"
    BY DEF Idle, Begun
  <2>2. next # Idle
    BY <2>1
  <2> QED
    BY <1>1, <2>2 DEF StepInv
<1>3. DiskInv' /\ SavedInv' /\ OutputInv'
  BY <1>1 DEF IInv, DiskInv, SavedInv, OutputInv
<1> QED
  BY <1>2, <1>3 DEF IInv

\* The Paks of a call that are open do not change.
LEMMA FileChangesInv == ASSUME IInv, FileChanges PROVE IInv'
<1>0. PICK f \in File \ Held : \E c \in Editions[disk[f]] : disk' = [disk EXCEPT ![f] = c]
  BY DEF FileChanges
<1>1. PICK c \in Editions[disk[f]] : disk' = [disk EXCEPT ![f] = c]
  BY <1>0
<1>2. UNCHANGED <<saved, process, output>>
  BY DEF FileChanges
<1>3. disk \in [File -> DOMAIN Contents] /\ disk[f] \in DOMAIN Contents
  BY DEF IInv, DiskInv
<1>4. c \in DOMAIN Contents
  BY <1>3, CommandLineAssumption
<1>5. DiskInv'
  BY <1>1, <1>3, <1>4 DEF DiskInv
<1>6. HeldInv'
  <2> SUFFICES ASSUME process.step # "idle" PROVE HeldInv'
    BY <1>2 DEF HeldInv
  <2>1. /\ process.request = <<process.request[1]>>
        /\ process.request[1] \in Requests /\ RequestFits(process.request[1])
        /\ process.registry \in Registries
        /\ process.held \in Seq(DOMAIN Contents) /\ Len(process.held) <= Len(process.request[1].paths)
        /\ \A i \in 1..Len(process.held) : disk[process.request[1].paths[i]] = process.held[i]
    BY DEF IInv, HeldInv
  <2>2. ASSUME NEW i \in 1..Len(process.held) PROVE disk'[process.request[1].paths[i]] = process.held[i]
    <3>1. DOMAIN process.held = 1..Len(process.held) /\ Len(process.held) \in Nat
      BY <2>1, LenProperties
    <3>2. process.request[1].paths[i] \in Held
      BY <3>1 DEF Held
    <3>3. process.request[1].paths \in Seq(File)
      BY <2>1, CommandLineAssumption
    <3>4. i \in 1..Len(process.request[1].paths)
      <4>1. Len(process.request[1].paths) \in Nat
        BY <3>3, LenProperties
      <4> QED
        BY <2>1, <3>1, <4>1
    <3>5. process.request[1].paths[i] \in File
      BY <3>3, <3>4, ElementOfSeq
    <3> QED
      BY <1>1, <1>3, <2>1, <3>2, <3>5
  <2> QED
    BY <1>2, <2>1, <2>2 DEF HeldInv
<1>7. OpenedInv' /\ PlanInv' /\ MergingInv' /\ WritingInv' /\ SavedInv' /\ OutputInv' /\ StepInv'
  BY <1>2 DEF IInv, OpenedInv, PlanInv, MergingInv, WritingInv, SavedInv, OutputInv, StepInv
<1> QED
  BY <1>5, <1>6, <1>7 DEF IInv

\* A call begins with a request that fits, and what it is to merge.
LEMMA OpeningInv ==
  ASSUME IInv, NEW request \in Requests, RequestFits(request), NEW registry \in Registries, NEW merging,
         merging # << >> => /\ registry = 0 /\ merging = <<merging[1]>>
                            /\ Compared(merging[1].plan) /\ merging[1].plan.request = request,
         Steps(Opening(request, registry, merging))
  PROVE  IInv'
<1> DEFINE next == Opening(request, registry, merging)
<1>1. next = [step |-> "opening", request |-> <<request>>, registry |-> registry, held |-> << >>, opened |-> << >>,
              merging |-> merging, plan |-> << >>, todo |-> << >>, written |-> {}, audits |-> {}]
  BY DEF Opening, Begun
<1> HIDE DEF next
<1>2. process' = next /\ disk' = disk
  BY DEF Steps, next
<1>3. Shape(next) /\ next.step = "opening" /\ next.written = {}
  BY <1>1 DEF Shape
<1>4. HeldInv'
  <2>1. process'.request = <<request>> /\ process'.request[1] = request /\ process'.registry = registry
        /\ process'.held = << >>
    BY <1>1, <1>2
  <2>2. << >> \in Seq(DOMAIN Contents) /\ Len(<< >>) = 0
    BY EmptySeq
  <2>3. Len(request.paths) \in Nat
    BY CommandLineAssumption, LenProperties
  <2> QED
    BY <2>1, <2>2, <2>3 DEF HeldInv
<1>5. OpenedInv' /\ PlanInv' /\ WritingInv'
  BY <1>2, <1>3 DEF OpenedInv, PlanInv, WritingInv
<1>6. MergingInv'
  <2>1. process'.request[1] = request /\ process'.registry = registry /\ process'.merging = merging
    BY <1>1, <1>2
  <2> QED
    BY <2>1 DEF MergingInv
<1> QED
  BY <1>3, <1>4, <1>5, <1>6, StepsInv DEF next

\* A comparison is asked for: nothing is open yet.
LEMMA StartAnalyzeInv == ASSUME IInv, StartAnalyze PROVE IInv'
<1>1. PICK request \in Requests, registry \in {0} \cup DOMAIN External :
        RequestFits(request) /\ Steps(Opening(request, registry, << >>))
  BY DEF StartAnalyze
<1> QED
  BY <1>1, OpeningInv DEF Registries

\* A merge is asked for, with a saved plan: it is some comparison's.
LEMMA StartMergeInv == ASSUME IInv, StartMerge PROVE IInv'
<1>1. PICK choices : Steps(Opening(saved[1].request, 0, <<[plan |-> saved[1], choices |-> choices]>>))
  BY DEF StartMerge
<1>2. Compared(saved[1])
  BY DEF StartMerge, IInv, SavedInv
<1>3. saved[1].request \in Requests /\ RequestFits(saved[1].request)
  BY <1>2 DEF Compared, Ready
<1> DEFINE merging == <<[plan |-> saved[1], choices |-> choices]>>
<1>4. merging = <<merging[1]>> /\ merging[1].plan = saved[1] /\ 0 \in Registries
  BY DEF Registries
<1> QED
  BY <1>1, <1>2, <1>3, <1>4, OpeningInv

\* The Paks are opened one after another.
LEMMA OpenInputInv == ASSUME IInv, OpenInput PROVE IInv'
<1> DEFINE request == process.request[1]
           more == disk[request.paths[Len(process.held) + 1]]
           next == [process EXCEPT !.held = Append(process.held, more)]
<1>1. process.step = "opening" /\ Len(process.held) < Len(request.paths) /\ Steps(next)
  BY DEF OpenInput, Opens
<1>2. /\ process.request = <<request>> /\ request \in Requests /\ RequestFits(request) /\ process.registry \in Registries
      /\ process.held \in Seq(DOMAIN Contents) /\ Len(process.held) <= Len(request.paths)
      /\ \A i \in 1..Len(process.held) : disk[request.paths[i]] = process.held[i]
  BY <1>1 DEF IInv, HeldInv
<1>3. request.paths \in Seq(File) /\ Len(request.paths) \in Nat /\ Len(process.held) \in Nat
  BY <1>2, CommandLineAssumption, LenProperties
<1>4. more \in DOMAIN Contents
  <2>1. Len(process.held) + 1 \in 1..Len(request.paths)
    BY <1>1, <1>3
  <2>2. request.paths[Len(process.held) + 1] \in File
    BY <1>3, <2>1, ElementOfSeq
  <2> QED
    BY <2>2 DEF IInv, DiskInv
<1>5. Shape(process) /\ process.written = {}
  BY <1>1 DEF IInv, StepInv
<1>6. next = [step |-> "opening", request |-> process.request, registry |-> process.registry,
              held |-> Append(process.held, more), opened |-> process.opened, merging |-> process.merging,
              plan |-> process.plan, todo |-> process.todo, written |-> process.written, audits |-> process.audits]
  <2>1. Shape(process)
    BY <1>5
  <2> QED
    BY <1>1, <2>1 DEF Shape
<1> HIDE DEF next, more
<1>7. Shape(next) /\ next.step = "opening" /\ next.written = {}
  BY <1>5, <1>6 DEF Shape
<1>8. process' = next /\ disk' = disk
  BY <1>1 DEF Steps
<1>9. /\ Append(process.held, more) \in Seq(DOMAIN Contents)
      /\ Len(Append(process.held, more)) = Len(process.held) + 1
      /\ \A i \in 1..Len(process.held) : Append(process.held, more)[i] = process.held[i]
      /\ Append(process.held, more)[Len(process.held) + 1] = more
  BY <1>2, <1>4, AppendProperties
<1>10. HeldInv'
  <2>1. process'.request = process.request /\ process'.registry = process.registry
        /\ process'.held = Append(process.held, more)
    BY <1>6, <1>8
  <2>2. Len(process'.held) = Len(process.held) + 1 /\ Len(process'.held) <= Len(request.paths)
    BY <1>1, <1>3, <1>9, <2>1
  <2>3. ASSUME NEW i \in 1..Len(process'.held) PROVE disk'[process'.request[1].paths[i]] = process'.held[i]
    <3>1. CASE i \in 1..Len(process.held)
      BY <1>2, <1>8, <1>9, <2>1, <3>1
    <3>2. CASE i = Len(process.held) + 1
      BY <1>8, <1>9, <2>1, <3>2 DEF more
    <3> QED
      BY <1>3, <2>2, <3>1, <3>2
  <2> QED
    BY <1>2, <1>9, <2>1, <2>2, <2>3 DEF HeldInv
<1>11. OpenedInv' /\ PlanInv' /\ WritingInv'
  BY <1>7, <1>8 DEF OpenedInv, PlanInv, WritingInv
<1>12. MergingInv'
  <2>1. process'.request = process.request /\ process'.registry = process.registry /\ process'.merging = process.merging
    BY <1>6, <1>8
  <2> QED
    BY <1>1, <2>1 DEF IInv, MergingInv
<1> QED
  BY <1>1, <1>7, <1>10, <1>11, <1>12, StepsInv

\* Then they are brought together.
LEMMA OpenTogetherInv == ASSUME IInv, OpenTogether PROVE IInv'
<1> DEFINE request == process.request[1]
           opened == <<Opened(process.held, Position(request))>>
           next == [process EXCEPT !.step = "opened", !.opened = opened]
<1>1. process.step = "opening" /\ ~(Len(process.held) < Len(request.paths)) /\ CanOpen(process.held) /\ Steps(next)
  BY DEF OpenTogether, AllHeld, Opens
<1>2. /\ process.request = <<request>> /\ request \in Requests /\ RequestFits(request) /\ process.registry \in Registries
      /\ process.held \in Seq(DOMAIN Contents) /\ Len(process.held) <= Len(request.paths)
      /\ \A i \in 1..Len(process.held) : disk[request.paths[i]] = process.held[i]
  BY <1>1 DEF IInv, HeldInv
<1>3. Len(request.paths) \in Nat /\ Len(process.held) \in Nat
  BY <1>2, CommandLineAssumption, LenProperties
<1>4. Ready(request, process.held)
  BY <1>1, <1>2, <1>3 DEF Ready
<1>5. Shape(process) /\ process.written = {}
  BY <1>1 DEF IInv, StepInv
<1>6. next = [step |-> "opened", request |-> process.request, registry |-> process.registry,
              held |-> process.held, opened |-> opened, merging |-> process.merging,
              plan |-> process.plan, todo |-> process.todo, written |-> process.written, audits |-> process.audits]
  <2> DEFINE q == [process EXCEPT !.step = "opened"]
  <2>1. q = [step |-> "opened", request |-> process.request, registry |-> process.registry,
             held |-> process.held, opened |-> process.opened, merging |-> process.merging,
             plan |-> process.plan, todo |-> process.todo, written |-> process.written, audits |-> process.audits]
    BY <1>5 DEF Shape
  <2>2. next = [q EXCEPT !.opened = opened]
    OBVIOUS
  <2> HIDE DEF q, next, opened
  <2> QED
    BY <2>1, <2>2
<1> HIDE DEF next
<1>7. Shape(next) /\ next.step = "opened" /\ next.written = {}
  BY <1>5, <1>6 DEF Shape
<1>8. process' = next /\ disk' = disk
  BY <1>1 DEF Steps
<1>9. process'.request = process.request /\ process'.registry = process.registry /\ process'.held = process.held
      /\ process'.merging = process.merging /\ process'.opened = opened
  BY <1>6, <1>8
<1>10. HeldInv'
  BY <1>2, <1>8, <1>9 DEF HeldInv
<1>11. OpenedInv'
  BY <1>4, <1>9 DEF OpenedInv, OpenedFor
<1>12. PlanInv' /\ WritingInv'
  BY <1>7, <1>8 DEF PlanInv, WritingInv
<1>13. MergingInv'
  BY <1>1, <1>9 DEF IInv, MergingInv
<1> QED
  BY <1>1, <1>7, <1>10, <1>11, <1>12, <1>13, StepsInv

\* The open Paks are compared: the plan is theirs.
LEMMA AnalyseInv == ASSUME IInv, Analyse PROVE IInv'
<1> DEFINE request == process.request[1]
           plan == <<AnalyzeOpened(Registry(process.registry), request, process.held, process.opened[1])>>
           next == [process EXCEPT !.step = "compared", !.plan = plan]
<1>1. process.step = "opened" /\ Steps(next)
  BY DEF Analyse
<1>2. HeldInv /\ OpenedInv /\ MergingInv /\ Shape(process) /\ process.written = {}
  BY <1>1 DEF IInv, StepInv
<1>3. Ready(request, process.held) /\ process.opened = <<OpenedFor(request, process.held)>>
  BY <1>1, <1>2 DEF OpenedInv
<1>4. plan = <<PlanOf(process.registry, request, process.held)>>
  BY <1>3 DEF PlanOf
<1>5. next = [step |-> "compared", request |-> process.request, registry |-> process.registry,
              held |-> process.held, opened |-> process.opened, merging |-> process.merging,
              plan |-> plan, todo |-> process.todo, written |-> process.written, audits |-> process.audits]
  <2> DEFINE q == [process EXCEPT !.step = "compared"]
  <2>1. q = [step |-> "compared", request |-> process.request, registry |-> process.registry,
             held |-> process.held, opened |-> process.opened, merging |-> process.merging,
             plan |-> process.plan, todo |-> process.todo, written |-> process.written, audits |-> process.audits]
    BY <1>2 DEF Shape
  <2>2. next = [q EXCEPT !.plan = plan]
    OBVIOUS
  <2> HIDE DEF q, next, plan
  <2> QED
    BY <2>1, <2>2
<1> HIDE DEF next, plan
<1>6. Shape(next) /\ next.step = "compared" /\ next.written = {}
  BY <1>2, <1>5 DEF Shape
<1>7. process' = next /\ disk' = disk
  BY <1>1 DEF Steps
<1>8. process'.request = process.request /\ process'.registry = process.registry /\ process'.held = process.held
      /\ process'.merging = process.merging /\ process'.opened = process.opened /\ process'.plan = plan
  BY <1>5, <1>7
<1>9. HeldInv'
  BY <1>1, <1>2, <1>7, <1>8 DEF HeldInv
<1>10. OpenedInv'
  BY <1>3, <1>8 DEF OpenedInv
<1>11. PlanInv'
  BY <1>4, <1>8 DEF PlanInv
<1>12. WritingInv'
  BY <1>6, <1>7 DEF WritingInv
<1>13. MergingInv'
  BY <1>1, <1>2, <1>8 DEF MergingInv
<1> QED
  BY <1>1, <1>6, <1>9, <1>10, <1>11, <1>12, <1>13, StepsInv

\* A plan is saved: a comparison made it.
LEMMA SavePlanInv == ASSUME IInv, SavePlan PROVE IInv'
<1>1. process.step = "compared" /\ saved' = process.plan /\ process' = Idle /\ disk' = disk /\ output' = output
  BY DEF SavePlan, Ends
<1>2. OpenedInv /\ PlanInv /\ HeldInv
  BY DEF IInv
<1> DEFINE request == process.request[1]
<1>3. process.plan = <<PlanOf(process.registry, request, process.held)>> /\ Ready(request, process.held) /\ process.registry \in Registries
  BY <1>1, <1>2 DEF OpenedInv, PlanInv, HeldInv
<1>4. Compared(PlanOf(process.registry, request, process.held))
  <2>1. PlanOf(process.registry, request, process.held).request = request
        /\ PlanOf(process.registry, request, process.held).inputs = process.held
    BY PlanParts
  <2> QED
    BY <1>3, <2>1 DEF Compared
<1>5. SavedInv'
  BY <1>1, <1>3, <1>4 DEF SavedInv
<1>6. OutputInv'
  BY <1>1 DEF IInv, OutputInv
<1> QED
  BY <1>1, <1>5, <1>6, EndsInv

\* A saved comparison that is current is the one made now.
LEMMA CurrentPlan ==
  ASSUME IInv, process.step = "compared", process.merging # << >>, IsCurrent
  PROVE  process.merging[1].plan = process.plan[1]
<1> DEFINE p == process.merging[1].plan
           request == process.request[1]
           ids == process.held
<1>1. process.registry = 0 /\ Compared(p) /\ p.request = request
  BY DEF IInv, MergingInv
<1>2. process.plan[1] = PlanOf(0, request, ids)
  BY <1>1 DEF IInv, PlanInv
<1> HIDE DEF p, request, ids
<1>3. PICK n \in Registries : p = PlanOf(n, request, p.inputs)
  BY <1>1 DEF Compared
<1>4. p.plan_id = PlanOf(0, request, ids).plan_id
  BY <1>2 DEF IsCurrent, p
<1>5. \A m, j : PlanOf(m, request, j).plan_id.inputs = j
  <2> TAKE m, j
  <2>1. \E c, d, f : PlanOf(m, request, j).plan_id = PlanId(j, c, d, f)
    BY PlanParts
  <2>2. \A c, d, f : PlanId(j, c, d, f).inputs = j
    BY DEF PlanId
  <2> QED
    BY <2>1, <2>2
<1>6. p.inputs = ids
  BY <1>3, <1>4, <1>5
<1>7. p = PlanOf(0, request, ids)
  BY <1>3, <1>4, <1>6, SamePlan
<1> QED
  BY <1>2, <1>7 DEF p

\* A merge begins to write: its plan is the one of the open Paks, its choices
\* fit, and what is to be copied or is built gives all files of the merged Pak.
LEMMA WriteInv == ASSUME IInv, Write PROVE IInv'
<1> DEFINE request == process.request[1]
           ids == process.held
           n == process.registry
           plan == PlanOf(n, request, ids)
<1>1. process.step = "compared" /\ (process.merging # << >> => IsCurrent)
  BY DEF Write
<1>2. PICK choices : Writes(choices, OutputEntries(process.opened[1], Registry(process.registry), process.plan[1], choices))
  BY DEF Write
<1>3. /\ HeldInv /\ OpenedInv /\ PlanInv /\ Shape(process) /\ process.written = {}
      /\ process.plan = <<plan>> /\ process.opened = <<OpenedFor(request, ids)>> /\ Ready(request, ids)
  BY <1>1 DEF IInv, StepInv, OpenedInv, PlanInv
<1> DEFINE prepared == PreparedFor(n, request, ids, choices)
           entries == EntriesFor(n, request, ids, choices)
           merging == <<[plan |-> IF process.merging = << >> THEN process.plan[1] ELSE process.merging[1].plan, choices |-> choices]>>
           audits == UNION {p.audited : p \in prepared}
           next == [process EXCEPT !.step = "writing", !.todo = SetToSeq(entries), !.merging = merging, !.audits = audits]
<1>4. Writes(choices, prepared)
  BY <1>2, <1>3 DEF PreparedFor
<1>5. \/ /\ ResolutionsFit(plan, [plan_id |-> << >>, choices |-> choices])
         /\ (\A p \in prepared : p.built) /\ Unique(entries) /\ Steps(next)
      \/ Ends("failed") /\ UNCHANGED <<saved, output>>
  <2>1. process.plan[1] = plan
    BY <1>3
  <2> HIDE DEF prepared, plan
  <2> QED
    BY <1>4, <2>1 DEF Writes, EntriesFor, prepared
<1>6. CASE Ends("failed") /\ UNCHANGED <<saved, output>>
  BY <1>6, FailsInv DEF Ends
<1>7. CASE /\ ResolutionsFit(plan, [plan_id |-> << >>, choices |-> choices])
           /\ (\A p \in prepared : p.built) /\ Unique(entries) /\ Steps(next)
  <2>1. CanWrite(n, request, ids, choices)
    BY <1>7 DEF CanWrite
  <2>2. merging = <<[plan |-> plan, choices |-> choices]>>
    BY <1>1, <1>3, CurrentPlan
  <2>3. IsFiniteSet(entries)
    BY <1>3, EntriesFinite
  <2> HIDE DEF merging, entries, audits, plan
  <2>4. SetToSeq(entries) \in Seq(entries) /\ ToSet(SetToSeq(entries)) = entries
    BY <2>3, Listed
  <2>5. next = [step |-> "writing", request |-> process.request, registry |-> process.registry,
                held |-> process.held, opened |-> process.opened, merging |-> merging,
                plan |-> process.plan, todo |-> SetToSeq(entries), written |-> {}, audits |-> audits]
    <3> DEFINE a == [process EXCEPT !.step = "writing"]
               b == [a EXCEPT !.todo = SetToSeq(entries)]
               c == [b EXCEPT !.merging = merging]
               d == [c EXCEPT !.audits = audits]
    <3>1. a = [step |-> "writing", request |-> process.request, registry |-> process.registry,
               held |-> process.held, opened |-> process.opened, merging |-> process.merging,
               plan |-> process.plan, todo |-> process.todo, written |-> {}, audits |-> process.audits]
      BY <1>3 DEF Shape
    <3>2. next = d
      BY <1>3 DEF Shape
    <3> HIDE DEF a, next
    <3>3. b = [step |-> "writing", request |-> process.request, registry |-> process.registry,
               held |-> process.held, opened |-> process.opened, merging |-> process.merging,
               plan |-> process.plan, todo |-> SetToSeq(entries), written |-> {}, audits |-> process.audits]
      BY <3>1
    <3> HIDE DEF b
    <3>4. c = [step |-> "writing", request |-> process.request, registry |-> process.registry,
               held |-> process.held, opened |-> process.opened, merging |-> merging,
               plan |-> process.plan, todo |-> SetToSeq(entries), written |-> {}, audits |-> process.audits]
      BY <3>3
    <3> HIDE DEF c
    <3>5. d = [step |-> "writing", request |-> process.request, registry |-> process.registry,
               held |-> process.held, opened |-> process.opened, merging |-> merging,
               plan |-> process.plan, todo |-> SetToSeq(entries), written |-> {}, audits |-> audits]
      BY <3>4
    <3> QED
      BY <3>2, <3>5
  <2> HIDE DEF next
  <2>6. Shape(next) /\ next.step = "writing"
    BY <2>5 DEF Shape
  <2>7. process' = next /\ disk' = disk
    BY <1>7 DEF Steps
  <2>8. /\ process'.request = process.request /\ process'.registry = process.registry /\ process'.held = process.held
        /\ process'.merging = merging /\ process'.opened = process.opened /\ process'.plan = process.plan
        /\ process'.todo = SetToSeq(entries) /\ process'.written = {} /\ process'.audits = audits
    BY <2>5, <2>7
  <2>9. HeldInv'
    BY <1>1, <1>3, <2>7, <2>8 DEF HeldInv
  <2>10. OpenedInv' /\ PlanInv'
    BY <1>3, <2>8 DEF OpenedInv, PlanInv, plan
  <2>11. MergingInv'
    BY <2>6, <2>7 DEF MergingInv
  <2>12. WritingInv'
    <3>1. process'.merging[1].plan = process'.plan[1] /\ process'.merging[1].choices = choices
      BY <1>3, <2>2, <2>8
    <3>2. process'.registry = n /\ process'.request[1] = request /\ process'.held = ids
      BY <2>8
    <3>3. process'.todo \in Seq(ToSet(process'.todo)) /\ ToSet(process'.todo) = entries
      BY <2>4, <2>8
    <3>4. process'.written \cup Stored(ToSet(process'.todo)) = Stored(entries)
      BY <2>8, <3>3
    <3>5. process'.audits = UNION {p.audited : p \in PreparedFor(n, request, ids, choices)}
      BY <2>8 DEF audits
    <3> HIDE DEF n, request, ids
    <3> QED
      BY <2>1, <3>1, <3>2, <3>3, <3>4, <3>5 DEF WritingInv, entries
  <2> QED
    BY <1>7, <2>6, <2>9, <2>10, <2>11, <2>12, StepsInv
<1> QED
  BY <1>5, <1>6, <1>7

\* An entry is written as it was compared.
LEMMA CopyEntryInv == ASSUME IInv, CopyEntry PROVE IInv'
<1> DEFINE request == process.request[1]
           ids == process.held
           n == process.registry
           choices == process.merging[1].choices
           entries == EntriesFor(n, request, ids, choices)
           todo == process.todo
           entry == Head(todo)
<1>1. process.step = "writing" /\ todo # << >>
  BY DEF CopyEntry
<1>2. PICK blob \in (IF entry.from = << >> THEN {entry.blob} ELSE OwnFile(entry)) :
        Steps([process EXCEPT !.todo = Tail(todo), !.written = process.written \cup {[path |-> entry.path, blob |-> blob]}])
  BY DEF CopyEntry
<1>3. /\ HeldInv /\ OpenedInv /\ PlanInv /\ WritingInv /\ Shape(process) /\ Ready(request, ids)
      /\ todo \in Seq(ToSet(todo)) /\ ToSet(todo) \subseteq entries
      /\ process.written \cup Stored(ToSet(todo)) = Stored(entries)
  BY <1>1 DEF IInv, StepInv, OpenedInv, WritingInv
<1>4. /\ entry \in ToSet(todo) /\ Tail(todo) \in Seq(ToSet(todo))
      /\ ToSet(todo) = {entry} \cup ToSet(Tail(todo))
  <2>1. /\ entry \in ToSet(todo) /\ Tail(todo) \in Seq(ToSet(todo)) /\ Len(Tail(todo)) = Len(todo) - 1
        /\ \A i \in 1..Len(Tail(todo)) : Tail(todo)[i] = todo[i + 1]
    BY <1>1, <1>3, HeadTailProperties
  <2>2. DOMAIN todo = 1..Len(todo) /\ Len(todo) \in Nat /\ DOMAIN Tail(todo) = 1..Len(Tail(todo)) /\ Len(Tail(todo)) \in Nat
    BY <1>3, <2>1, LenProperties
  <2>3. entry = todo[1]
    BY <1>1, <1>3
  <2>4. ASSUME NEW x \in ToSet(todo) PROVE x = entry \/ x \in ToSet(Tail(todo))
    <3>1. PICK i \in 1..Len(todo) : x = todo[i]
      BY <2>2 DEF ToSet
    <3>2. CASE i = 1
      BY <2>3, <3>1, <3>2
    <3>3. CASE i # 1
      <4>1. i - 1 \in 1..Len(Tail(todo)) /\ i - 1 + 1 = i
        BY <2>1, <2>2, <3>3
      <4>2. Tail(todo)[i - 1] = x
        BY <2>1, <3>1, <4>1
      <4> QED
        BY <2>2, <4>1, <4>2 DEF ToSet
    <3> QED
      BY <3>2, <3>3
  <2>5. ToSet(Tail(todo)) \subseteq ToSet(todo)
    <3>1. \A i \in 1..Len(Tail(todo)) : Tail(todo)[i] \in ToSet(todo)
      BY <2>1, ElementOfSeq
    <3> QED
      BY <2>2, <3>1 DEF ToSet
  <2> QED
    BY <2>1, <2>4, <2>5
<1>5. blob = entry.blob
  <2>1. CASE entry.from = << >>
    BY <1>2, <2>1
  <2>2. CASE entry.from # << >>
    <3>1. entry \in entries
      BY <1>3, <1>4
    <3>2. FileCopied(OpenedFor(request, ids), entry)
      BY <1>3, <2>2, <3>1, EntriesFinite
    <3>3. HeldAs(disk, request.paths, ids)
      BY <1>1, <1>3 DEF HeldInv, HeldAs
    <3>4. OwnFile(entry) = {entry.blob}
      <4>1. FoundIn(disk, request.paths, ids, entry.from[1]) = {entry.blob}
        <5>1. Ready(request, ids)
          BY <1>3
        <5> HIDE DEF request, ids, entry
        <5>2. ASSUME NEW held, HeldAs(held, request.paths, ids) PROVE FoundIn(held, request.paths, ids, entry.from[1]) = {entry.blob}
          BY <5>1, <3>2, <5>2, OwnBlob
        <5> QED
          BY <3>3, <5>2
      <4>2. OwnFile(entry) = FoundIn(disk, request.paths, ids, entry.from[1])
        BY Zenon DEF OwnFile, BlobsAt, PlaceOf, FoundIn
      <4> QED
        BY <4>1, <4>2
    <3> QED
      BY <1>2, <2>2, <3>4
  <2> QED
    BY <2>1, <2>2
<1> DEFINE written == process.written \cup {[path |-> entry.path, blob |-> entry.blob]}
           next == [process EXCEPT !.todo = Tail(todo), !.written = written]
<1>6. Steps(next)
  BY <1>2, <1>5
<1> HIDE DEF entry, entries, choices
<1>7. next = [step |-> "writing", request |-> process.request, registry |-> process.registry,
              held |-> process.held, opened |-> process.opened, merging |-> process.merging,
              plan |-> process.plan, todo |-> Tail(todo), written |-> written, audits |-> process.audits]
  <2> DEFINE a == [process EXCEPT !.todo = Tail(todo)]
  <2>1. a = [step |-> "writing", request |-> process.request, registry |-> process.registry,
             held |-> process.held, opened |-> process.opened, merging |-> process.merging,
             plan |-> process.plan, todo |-> Tail(todo), written |-> process.written, audits |-> process.audits]
    <3>1. Shape(process)
      BY <1>3
    <3> QED
      BY <1>1, <3>1 DEF Shape
  <2>2. next = [a EXCEPT !.written = written]
    OBVIOUS
  <2> HIDE DEF a, next, written
  <2> QED
    BY <2>1, <2>2
<1> HIDE DEF next, written
<1>8. Shape(next) /\ next.step = "writing"
  BY <1>7 DEF Shape
<1>9. process' = next /\ disk' = disk
  BY <1>6 DEF Steps
<1>10. /\ process'.request = process.request /\ process'.registry = process.registry /\ process'.held = process.held
       /\ process'.merging = process.merging /\ process'.opened = process.opened /\ process'.plan = process.plan
       /\ process'.todo = Tail(todo) /\ process'.written = written /\ process'.audits = process.audits
  BY <1>7, <1>9
<1>11. HeldInv'
  BY <1>1, <1>3, <1>9, <1>10 DEF HeldInv
<1>12. OpenedInv' /\ PlanInv'
  BY <1>1, <1>3, <1>10 DEF OpenedInv, PlanInv
<1>13. MergingInv'
  BY <1>8, <1>9 DEF MergingInv
<1>14. Stored(ToSet(todo)) = {[path |-> entry.path, blob |-> entry.blob]} \cup Stored(ToSet(Tail(todo)))
  BY <1>4 DEF Stored
<1>15. written \cup Stored(ToSet(Tail(todo))) = Stored(entries)
  BY <1>3, <1>14 DEF written
<1>16. Tail(todo) \in Seq(ToSet(Tail(todo))) /\ ToSet(Tail(todo)) \subseteq entries
  BY <1>3, <1>4, OwnMembers
<1>17. WritingInv'
  BY <1>1, <1>3, <1>10, <1>15, <1>16 DEF WritingInv, entries, choices
<1> QED
  BY <1>6, <1>8, <1>11, <1>12, <1>13, <1>17, StepsInv

\* A merge ends: all is written, and checked before it is installed.
LEMMA FinishInv == ASSUME IInv, Finish PROVE IInv'
<1> DEFINE request == process.request[1]
           ids == process.held
           n == process.registry
           choices == process.merging[1].choices
           report == MergeReport(Checked)
           out == Merged(Checked)
<1>1. /\ process.step = "writing" /\ process.todo = << >> /\ AuditsFinal /\ ~Checked.fails
      /\ output' = <<out>> /\ process' = Idle /\ disk' = disk /\ saved' = saved
  BY DEF Finish, AllWritten, Ends
<1>2. /\ HeldInv /\ OpenedInv /\ PlanInv /\ WritingInv /\ Ready(request, ids) /\ n \in Registries
      /\ process.plan[1] = PlanOf(n, request, ids) /\ process.opened[1] = OpenedFor(request, ids)
  BY <1>1 DEF IInv, OpenedInv, PlanInv, HeldInv
<1>3. /\ process.merging[1].plan = process.plan[1] /\ CanWrite(n, request, ids, choices)
      /\ process.written = Stored(EntriesFor(n, request, ids, choices))
      /\ process.audits = UNION {p.audited : p \in PreparedFor(n, request, ids, choices)}
  <2>1. ToSet(process.todo) = {}
    <3>1. DOMAIN << >> = {}
      OBVIOUS
    <3> QED
      BY <1>1, <3>1 DEF ToSet
  <2>2. Stored(ToSet(process.todo)) = {}
    BY <2>1 DEF Stored
  <2> QED
    BY <1>1, <1>2, <2>2 DEF WritingInv
<1> DEFINE mount == process.opened[1].mount
           files == process.written
<1>5. report = [mount |-> mount, files |-> files, audits |-> process.audits, actions |-> process.plan[1].assets,
                references |-> Checked.warnings]
  BY DEF MergeReport
<1>6. out = [mount |-> mount, files |-> files, compared |-> process.merging[1].plan, choices |-> choices,
             registry |-> process.registry, report |-> report]
  BY DEF Merged
<1> HIDE DEF report, out
<1>7. /\ out.mount = mount /\ out.files = files /\ out.compared = PlanOf(n, request, ids) /\ out.choices = choices
      /\ out.registry = n /\ out.report = report
  BY <1>2, <1>3, <1>6
<1>8. /\ report.mount = mount /\ report.files = files /\ report.audits = process.audits
      /\ report.actions = process.plan[1].assets /\ report.references = Checked.warnings
  BY <1>5
<1>9. out.compared.request = request /\ out.compared.inputs = ids
  BY <1>7, PlanParts
<1>10. Follows(out)
  <2>1. Checked = CheckedReferences(Registry(n), out.compared, [id |-> "output", files |-> SetToSeq(out.files)])
    BY <1>2, <1>7 DEF Checked
  <2>2. AuditsFit(out.report.audits, out.files)
    BY <1>1, <1>7, <1>8 DEF AuditsFinal
  <2>3. out.mount = OpenedFor(request, ids).mount /\ out.report.actions = out.compared.assets
    BY <1>2, <1>7, <1>8
  <2>4. ~Checked.fails
    BY <1>1
  <2> HIDE DEF mount, files, n, request, ids, choices
  <2> QED
    BY <1>2, <1>3, <1>7, <1>8, <1>9, <2>1, <2>2, <2>3, <2>4 DEF Follows, files
<1>11. OutputInv'
  BY <1>1, <1>10 DEF OutputInv
<1>12. SavedInv'
  BY <1>1 DEF IInv, SavedInv
<1> QED
  BY <1>1, <1>11, <1>12, EndsInv

\* Every step keeps the invariant.
LEMMA NextInv == ASSUME IInv, [Next]_vars PROVE IInv'
<1>1. CASE UNCHANGED vars
  BY <1>1 DEF vars, IInv, StepInv, DiskInv, HeldInv, OpenedInv, PlanInv, MergingInv, WritingInv, SavedInv, OutputInv
<1>2. ASSUME NEW how, Ends(how), UNCHANGED <<saved, output>> PROVE IInv'
  BY <1>2, FailsInv DEF Ends
<1>3. CASE RefuseRequest
  BY <1>2, <1>3 DEF RefuseRequest
<1>4. CASE CannotOpen
  BY <1>2, <1>4 DEF CannotOpen
<1>5. CASE RefuseChoices
  BY <1>2, <1>5 DEF RefuseChoices
<1>6. CASE PaksChanged
  BY <1>2, <1>6 DEF PaksChanged
<1>7. CASE CannotCheck
  BY <1>2, <1>7 DEF CannotCheck
<1>8. CASE Cancel
  BY <1>2, <1>8 DEF Cancel
<1> QED
  BY <1>1, <1>3, <1>4, <1>5, <1>6, <1>7, <1>8, FileChangesInv, StartAnalyzeInv, OpenInputInv, OpenTogetherInv, AnalyseInv,
     SavePlanInv, StartMergeInv, WriteInv, CopyEntryInv, FinishInv DEF Next

\* The inductive invariant holds throughout.
LEMMA Inductive == Spec => []IInv
<1>1. IInv /\ [Next]_vars => IInv'
  BY NextInv
<1> QED
  BY InitInv, <1>1, PTL DEF Spec


\* What is in the place of the merged Pak.
LEMMA WrittenFollows == ASSUME IInv, NEW o \in ToSet(output) PROVE Follows(o)
<1>1. OutputInv /\ output # << >>
  <2>1. DOMAIN << >> = {}
    OBVIOUS
  <2> QED
    BY <2>1 DEF IInv, ToSet
<1>2. output = <<output[1]>> /\ Follows(output[1])
  BY <1>1 DEF OutputInv
<1>3. o = output[1]
  BY <1>2 DEF ToSet
<1> QED
  BY <1>2, <1>3

\* The merged Pak, its report and the references told of it follow from what
\* the Paks held when they were compared, and from choices that fit.
THEOREM OutputFollows == Spec => [](\A o \in ToSet(output) : Follows(o))
<1>1. IInv => \A o \in ToSet(output) : Follows(o)
  BY WrittenFollows
<1> QED
  BY <1>1, Inductive, PTL

-----------------------------------------------------------------------------
(* What the report tells of the references of the merged Pak.                *)

\* Of a check of one Pak: what is told to be broken is, and what is broken is
\* told, or dangles in the game, or its rule was not checked.
Told(warnings, k) == {w \in warnings : w.kind = "break" /\ w.rule = k}
TellsOf(game, pak, k, warnings) ==
  /\ \A ref \in Told(warnings, k) : ref \notin Kept(game, pak, k)
  /\ \/ [kind |-> "unchecked", rule |-> k] \in warnings
     \/ \A ref \in Pointing(game, pak, k) \ Kept(game, pak, k) :
          ref \in Told(warnings, k) \/ <<ref.row, ref.target>> \in game.rules[k].gaps

\* The references of lists.
LEMMA ListsTold ==
  ASSUME NEW game, NEW pak, NEW k \in DOMAIN game.rules, game.format # "DataTable"
  PROVE  TellsOf(game, pak, k, CheckedLists(game, pak).warnings)
<1> DEFINE warnings == CheckedLists(game, pak).warnings
           active == {j \in DOMAIN game.rules : ListRead(game, pak, game.rules[j].target)}
           told == Told(warnings, k)
           unread == {[kind |-> "unread", table |-> t] : t \in {x \in Placed(game, pak) : ~ListRead(game, pak, x)}}
           Skipped == {x \in DOMAIN game.rules : /\ ListRead(game, pak, game.rules[x].source)
                                                 /\ ~ListRead(game, pak, game.rules[x].target)}
           unchecked == {[kind |-> "unchecked", rule |-> j] : j \in Skipped}
<1>1. warnings = (unread \cup unchecked) \cup UNION {BrokenInLists(game, pak, j) : j \in active}
  BY DEF CheckedLists, UncheckedLists
<1> SUFFICES TellsOf(game, pak, k, warnings)
  OBVIOUS
<1> HIDE DEF warnings
<1>2. ASSUME NEW j, NEW w \in BrokenInLists(game, pak, j)
      PROVE  /\ w.kind = "break" /\ w.rule = j /\ w \in ListReferences(game, pak, j)
             /\ w.target \notin RowIds(ListRows(game, pak, game.rules[j].target))
  BY <1>2 DEF BrokenInLists, ListReferences, Reference
<1>3. ASSUME NEW w \in told PROVE k \in active /\ w \in BrokenInLists(game, pak, k)
  <2>1. w \notin unread /\ w \notin unchecked
    BY <1>3 DEF Told
  <2>2. PICK j \in active : w \in BrokenInLists(game, pak, j)
    BY <1>1, <1>3, <2>1 DEF Told
  <2> QED
    BY <1>2, <1>3, <2>2 DEF Told
<1>4. Pointing(game, pak, k) = ListReferences(game, pak, k)
  BY DEF Pointing
<1>5. \A ref : ref \in Kept(game, pak, k) <=>
        ref \in ListReferences(game, pak, k) /\ ref.target \in RowIds(ListRows(game, pak, game.rules[k].target))
  BY <1>4 DEF Kept
<1>6. \A ref \in told : ref \notin Kept(game, pak, k)
  BY <1>2, <1>3, <1>5
<1>7. CASE k \in active
  <2>1. ASSUME NEW ref \in Pointing(game, pak, k) \ Kept(game, pak, k), <<ref.row, ref.target>> \notin game.rules[k].gaps
        PROVE  ref \in told
    <3>1. ref \in BrokenInLists(game, pak, k)
      BY <1>4, <1>5, <2>1 DEF BrokenInLists, VanillaGap
    <3> QED
      BY <1>1, <1>2, <1>7, <3>1 DEF Told
  <2> QED
    BY <1>6, <2>1 DEF TellsOf
<1>8. CASE k \notin active /\ ListRead(game, pak, game.rules[k].source)
  <2>1. [kind |-> "unchecked", rule |-> k] \in warnings
    BY <1>1, <1>8
  <2> QED
    BY <1>6, <2>1 DEF TellsOf
<1>9. CASE ~ListRead(game, pak, game.rules[k].source)
  <2>1. ListRows(game, pak, game.rules[k].source) = << >> /\ DOMAIN << >> = {}
    BY <1>9 DEF ListRows
  <2>2. ListReferences(game, pak, k) = {}
    BY <2>1 DEF ListReferences
  <2> QED
    BY <1>4, <1>6, <2>2 DEF TellsOf
<1> QED
  BY <1>7, <1>8, <1>9

\* Those of data tables.
LEMMA TablesTold ==
  ASSUME NEW game, NEW pak, NEW k \in DOMAIN game.rules, game.format = "DataTable", ~CheckedTables(game, pak).fails
  PROVE  TellsOf(game, pak, k, CheckedTables(game, pak).warnings)
<1> DEFINE warnings == CheckedTables(game, pak).warnings
           active == ActiveRules(game, pak)
           told == Told(warnings, k)
           unchecked == {[kind |-> "unchecked", rule |-> j] : j \in DOMAIN game.rules \ active}
           needed == UNION {{game.rules[j].source, game.rules[j].target} : j \in active}
<1>1. /\ warnings = unchecked \cup UNION {BrokenInTables(game, pak, j) : j \in active}
      /\ \A t \in needed : TableRead(game, pak, t)
  BY DEF CheckedTables
<1> SUFFICES TellsOf(game, pak, k, warnings)
  OBVIOUS
<1> HIDE DEF warnings
<1>2. ASSUME NEW j, NEW w \in BrokenInTables(game, pak, j)
      PROVE  /\ w.kind = "break" /\ w.rule = j /\ w \in TableReferences(game, pak, j)
             /\ w.target \notin RowNames(TableImage(game, pak, game.rules[j].target))
  BY <1>2 DEF BrokenInTables, TableReferences, Reference
<1>3. ASSUME NEW w \in told PROVE k \in active /\ w \in BrokenInTables(game, pak, k)
  <2>1. w \notin unchecked
    BY <1>3 DEF Told
  <2>2. PICK j \in active : w \in BrokenInTables(game, pak, j)
    BY <1>1, <1>3, <2>1 DEF Told
  <2> QED
    BY <1>2, <1>3, <2>2 DEF Told
<1>4. ASSUME k \in active
      PROVE  /\ Pointing(game, pak, k) = TableReferences(game, pak, k)
             /\ \A ref : ref \in Kept(game, pak, k) <=>
                  ref \in TableReferences(game, pak, k) /\ ref.target \in RowNames(TableImage(game, pak, game.rules[k].target))
  <2>1. TableRead(game, pak, game.rules[k].source) /\ TableRead(game, pak, game.rules[k].target)
    BY <1>1, <1>4
  <2> QED
    BY <2>1 DEF Pointing, Kept
<1>6. \A ref \in told : ref \notin Kept(game, pak, k)
  BY <1>2, <1>3, <1>4
<1>7. CASE k \in active
  <2>1. ASSUME NEW ref \in Pointing(game, pak, k) \ Kept(game, pak, k) PROVE ref \in told
    <3>1. ref \in BrokenInTables(game, pak, k)
      BY <1>4, <1>7, <2>1 DEF BrokenInTables
    <3> QED
      BY <1>1, <1>2, <1>7, <3>1 DEF Told
  <2> QED
    BY <1>6, <2>1 DEF TellsOf
<1>8. CASE k \notin active
  <2>1. [kind |-> "unchecked", rule |-> k] \in warnings
    BY <1>1, <1>8
  <2> QED
    BY <1>6, <2>1 DEF TellsOf
<1> QED
  BY <1>7, <1>8

\* The one game of a comparison is the one whose references are checked.
LEMMA CheckedGame ==
  ASSUME NEW n \in Registries, NEW plan, NEW pak, NEW game \in PinnedGames(Registry(n), plan), NEW k \in DOMAIN game.rules,
         ~CheckedReferences(Registry(n), plan, pak).fails
  PROVE  TellsOf(game, pak, k, CheckedReferences(Registry(n), plan, pak).warnings)
<1> DEFINE games == PinnedGames(Registry(n), plan)
           checked == CheckedReferences(Registry(n), plan, pak)
<1>1. \A g \in games : g \in ToSet(Registry(n)) /\ plan.detected.selected = <<g.id>>
  BY DEF PinnedGames, GameOf
<1>2. \A g \in games : g = game
  <2>1. ASSUME NEW g \in games PROVE g.id = game.id
    <3>1. <<g.id>> = <<game.id>>
      BY <1>1
    <3> QED
      BY <3>1
  <2> QED
    BY <1>1, <2>1, OneProfileOfId
<1>3. checked = IF game.format = "DataTable" THEN CheckedTables(game, pak) ELSE CheckedLists(game, pak)
  <2>1. games # {} /\ (CHOOSE g \in games : TRUE) = game
    BY <1>2
  <2> QED
    BY <2>1 DEF CheckedReferences
<1> QED
  BY <1>3, ListsTold, TablesTold

\* No reference that the merged Pak keeps is told to be broken, and one that
\* it breaks is told, unless it dangles in the game or its rule was not checked.
THEOREM BreaksTold == Spec => []BrokenReferencesTold
<1>1. ASSUME IInv PROVE BrokenReferencesTold
  <2> SUFFICES ASSUME NEW o \in ToSet(output), NEW game \in PinnedGames(Registry(o.registry), o.compared),
                      NEW k \in DOMAIN game.rules
               PROVE  LET merged == [id |-> "output", files |-> SetToSeq(o.files)]
                          pointing == Pointing(game, merged, k)
                          kept == Kept(game, merged, k)
                          before == UNION {Kept(game, pak, k) : pak \in ToSet(Opened(o.compared.inputs, 1).paks)}
                          gaps == {ref \in pointing : <<ref.row, ref.target>> \in game.rules[k].gaps}
                          told == {w \in o.report.references : w.kind = "break" /\ w.rule = k}
                      IN /\ \A ref \in told : ref \notin kept
                         /\ \/ [kind |-> "unchecked", rule |-> k] \in o.report.references
                            \/ (pointing \cap before) \ kept \subseteq told \cup gaps
    BY DEF BrokenReferencesTold
  <2> DEFINE merged == [id |-> "output", files |-> SetToSeq(o.files)]
  <2>1. Follows(o)
    BY <1>1, WrittenFollows
  <2>2. /\ o.registry \in Registries /\ ~CheckedReferences(Registry(o.registry), o.compared, merged).fails
        /\ o.report.references = CheckedReferences(Registry(o.registry), o.compared, merged).warnings
    BY <2>1 DEF Follows
  <2>3. TellsOf(game, merged, k, o.report.references)
    BY <2>2, CheckedGame
  <2> HIDE DEF merged
  <2> SUFFICES LET told == {w \in o.report.references : w.kind = "break" /\ w.rule = k} IN
               /\ \A ref \in told : ref \notin Kept(game, merged, k)
               /\ \/ [kind |-> "unchecked", rule |-> k] \in o.report.references
                  \/ \A ref \in Pointing(game, merged, k) \ Kept(game, merged, k) :
                       ref \in told \/ <<ref.row, ref.target>> \in game.rules[k].gaps
    BY DEF merged
  <2> QED
    BY <2>3 DEF TellsOf, Told
<1> QED
  BY <1>1, Inductive, PTL

-----------------------------------------------------------------------------
(* Files as the game sees them.                                              *)

\* A unit as the game sees it, where the merged Pak is mounted.
SeenUnit(m, u) == [kind |-> u.kind, key |-> Folded(m) \o u.key]

\* A path below a folder, name by name.
LEMMA JoinedNames ==
  ASSUME NEW a \in Seq(Name), NEW b \in Seq(Name)
  PROVE  /\ a \o b \in Seq(Name) /\ Len(a \o b) = Len(a) + Len(b)
         /\ \A i \in 1..(Len(a) + Len(b)) : (a \o b)[i] = IF i <= Len(a) THEN a[i] ELSE b[i - Len(a)]
BY ConcatProperties

\* Where three paths are joined, the order of joining does not matter.
LEMMA JoinedThrice ==
  ASSUME NEW a \in Seq(Name), NEW b \in Seq(Name), NEW c \in Seq(Name)
  PROVE  (a \o b) \o c = a \o (b \o c)
BY ConcatAssociative

\* The folded path below a folder is the folded folder, then the folded path.
LEMMA FoldedBelow ==
  ASSUME NEW m \in Seq(Name), NEW p \in Seq(Name)
  PROVE  Folded(m \o p) = Folded(m) \o Folded(p)
<1> DEFINE q == m \o p
           a == Folded(m)
           b == Folded(p)
           c == a \o b
           d == Folded(q)
<1>1. q \in Seq(Name) /\ Len(q) = Len(m) + Len(p) /\ Len(m) \in Nat /\ Len(p) \in Nat
      /\ \A i \in 1..Len(q) : q[i] = IF i <= Len(m) THEN m[i] ELSE p[i - Len(m)]
  BY ConcatProperties, LenProperties
<1>2. a \in Seq(Name) /\ Len(a) = Len(m) /\ \A i \in 1..Len(m) : a[i] = FoldName[m[i]]
  BY FoldedPath
<1>3. b \in Seq(Name) /\ Len(b) = Len(p) /\ \A i \in 1..Len(p) : b[i] = FoldName[p[i]]
  BY FoldedPath
<1> HIDE DEF q, a, b
<1>4. d \in Seq(Name) /\ Len(d) = Len(q) /\ \A i \in 1..Len(q) : d[i] = FoldName[q[i]]
  BY <1>1, FoldedPath
<1>5. /\ c \in Seq(Name) /\ Len(c) = Len(a) + Len(b)
      /\ \A i \in 1..(Len(a) + Len(b)) : c[i] = IF i <= Len(a) THEN a[i] ELSE b[i - Len(a)]
  <2>1. a \in Seq(Name) /\ b \in Seq(Name)
    BY <1>2, <1>3
  <2> QED
    BY <2>1, JoinedNames, Zenon
<1> HIDE DEF c, d
<1>6. \A i \in 1..Len(q) : d[i] = c[i]
  <2> TAKE i \in 1..Len(q)
  <2>1. CASE i <= Len(m)
    <3>1. i \in 1..Len(m) /\ i \in 1..(Len(a) + Len(b)) /\ i <= Len(a)
      BY <1>1, <1>2, <1>3, <2>1
    <3>2. c[i] = a[i] /\ q[i] = m[i]
      BY <1>1, <1>5, <2>1, <3>1
    <3>3. a[i] = FoldName[m[i]] /\ d[i] = FoldName[q[i]]
      BY <1>2, <1>4, <3>1
    <3> QED
      BY <3>2, <3>3, Zenon
  <2>2. CASE ~(i <= Len(m))
    <3>1. i - Len(m) \in 1..Len(p) /\ i \in 1..(Len(a) + Len(b)) /\ ~(i <= Len(a)) /\ i - Len(a) = i - Len(m)
      BY <1>1, <1>2, <1>3, <2>2
    <3>2. c[i] = b[i - Len(m)] /\ q[i] = p[i - Len(m)]
      BY <1>1, <1>5, <2>2, <3>1
    <3>3. b[i - Len(m)] = FoldName[p[i - Len(m)]] /\ d[i] = FoldName[q[i]]
      BY <1>3, <1>4, <3>1
    <3> QED
      BY <3>2, <3>3, Zenon
  <2> QED
    BY <2>1, <2>2
<1>7. Len(d) = Len(c)
  BY <1>1, <1>2, <1>3, <1>4, <1>5
<1>8. d = c
  BY <1>1, <1>4, <1>5, <1>6, <1>7, SeqEqual
<1> QED
  BY <1>8 DEF c, d, q, a, b

\* Its unit is the unit of the path, below that folder.
LEMMA SeenPath ==
  ASSUME NEW m \in Seq(Name), NEW p \in Seq(Name) \ {<< >>}
  PROVE  /\ Folded(m \o p) \in Seq(Name) \ {<< >>}
         /\ UnitOf(Folded(m \o p)) = SeenUnit(m, UnitOf(p))
         /\ Ext[Last(Folded(m \o p))] = Ext[Last(p)]
<1> DEFINE q == Folded(m \o p)
           n == Len(m) + Len(p)
<1>1. /\ Len(m) \in Nat /\ Len(p) \in Nat /\ Len(p) >= 1 /\ m \o p \in Seq(Name) /\ Len(m \o p) = n
      /\ \A i \in 1..n : (m \o p)[i] = IF i <= Len(m) THEN m[i] ELSE p[i - Len(m)]
      /\ \A i \in 1..Len(m) : m[i] \in Name
      /\ \A i \in 1..Len(p) : p[i] \in Name
  BY ConcatProperties, LenProperties, EmptySeq, ElementOfSeq
<1>2. /\ q \in Seq(Name) /\ Len(q) = n /\ \A i \in 1..n : q[i] = FoldName[(m \o p)[i]]
  BY <1>1, FoldedPath
<1> HIDE DEF q
<1>3. q # << >> /\ n \in Nat /\ n >= 1 /\ n \in 1..n /\ n - Len(m) = Len(p) /\ ~(n <= Len(m))
  BY <1>1, <1>2, EmptySeq
<1>4. Last(q) = FoldName[Last(p)] /\ Last(p) \in Name
  <2>1. Last(q) = q[n] /\ Last(p) = p[Len(p)]
    BY <1>2 DEF Last
  <2> QED
    BY <1>1, <1>2, <1>3, <2>1
<1>5. Ext[Last(q)] = Ext[Last(p)] /\ (InPackage(q) <=> InPackage(p))
  <2>1. \A x \in Name : Ext[FoldName[x]] = Ext[x]
    BY ProfilesAssumption
  <2>2. Ext[Last(q)] = Ext[Last(p)]
    BY <1>4, <2>1, Zenon
  <2> QED
    BY <2>2, Zenon DEF InPackage
<1>6. /\ BasePath(q) \in Seq(Name) /\ Len(BasePath(q)) = n
      /\ \A i \in 1..(n - 1) : BasePath(q)[i] = q[i]
      /\ BasePath(q)[n] = IF InPackage(q) THEN Stem[Last(q)] ELSE Last(q)
  BY <1>2, <1>3, BaseOfPath
<1>7. /\ BasePath(p) \in Seq(Name) /\ Len(BasePath(p)) = Len(p)
      /\ \A i \in 1..(Len(p) - 1) : BasePath(p)[i] = p[i]
      /\ BasePath(p)[Len(p)] = IF InPackage(p) THEN Stem[Last(p)] ELSE Last(p)
  BY BaseOfPath
<1>8. /\ Folded(BasePath(q)) \in Seq(Name) /\ Len(Folded(BasePath(q))) = n
      /\ \A i \in 1..n : Folded(BasePath(q))[i] = FoldName[BasePath(q)[i]]
  BY <1>6, FoldedPath
<1>9. /\ m \o BasePath(p) \in Seq(Name) /\ Len(m \o BasePath(p)) = n
      /\ \A i \in 1..n : (m \o BasePath(p))[i] = IF i <= Len(m) THEN m[i] ELSE BasePath(p)[i - Len(m)]
  <2> DEFINE b == BasePath(p)
  <2>1. b \in Seq(Name) /\ Len(b) = Len(p)
    BY <1>7
  <2> HIDE DEF b
  <2>2. /\ m \o b \in Seq(Name) /\ Len(m \o b) = n
        /\ \A i \in 1..n : (m \o b)[i] = IF i <= Len(m) THEN m[i] ELSE b[i - Len(m)]
    <3>1. /\ m \o b \in Seq(Name) /\ Len(m \o b) = Len(m) + Len(b)
          /\ \A i \in 1..(Len(m) + Len(b)) : (m \o b)[i] = IF i <= Len(m) THEN m[i] ELSE b[i - Len(m)]
      BY <2>1, JoinedNames, Zenon
    <3> QED
      BY <2>1, <3>1, Zenon
  <2> QED
    BY <2>2, Zenon DEF b
<1>10. /\ Folded(m \o BasePath(p)) \in Seq(Name) /\ Len(Folded(m \o BasePath(p))) = n
       /\ \A i \in 1..n : Folded(m \o BasePath(p))[i] = FoldName[(m \o BasePath(p))[i]]
  BY <1>9, FoldedPath
<1>11. \A x \in Name : FoldName[x] \in Name /\ FoldName[FoldName[x]] = FoldName[x] /\ FoldName[Stem[FoldName[x]]] = FoldName[Stem[x]]
  BY ProfilesAssumption
<1>12. \A i \in 1..n : Folded(BasePath(q))[i] = Folded(m \o BasePath(p))[i]
  <2> TAKE i \in 1..n
  <2>1. CASE i <= Len(m)
    <3>1. i \in 1..(n - 1) /\ i \in 1..Len(m)
      BY <1>1, <1>3, <2>1
    <3>2. FoldName[BasePath(q)[i]] = FoldName[FoldName[m[i]]]
      BY <1>1, <1>2, <1>6, <2>1, <3>1
    <3> QED
      BY <1>1, <1>8, <1>9, <1>10, <1>11, <2>1, <3>1, <3>2
  <2>2. CASE i > Len(m) /\ i < n
    <3> DEFINE j == i - Len(m)
    <3>1. i \in 1..(n - 1) /\ j \in 1..Len(p) /\ j \in 1..(Len(p) - 1) /\ ~(i <= Len(m))
      BY <1>1, <1>3, <2>2
    <3>2. BasePath(q)[i] = FoldName[p[j]] /\ (m \o BasePath(p))[i] = p[j]
      BY <1>1, <1>2, <1>6, <1>7, <1>9, <3>1
    <3>3. p[j] \in Name
      BY <1>1, <3>1
    <3>4. Folded(BasePath(q))[i] = FoldName[FoldName[p[j]]] /\ Folded(m \o BasePath(p))[i] = FoldName[p[j]]
      BY <1>8, <1>10, <3>2
    <3> HIDE DEF j
    <3> QED
      BY <1>11, <3>3, <3>4
  <2>3. CASE i = n
    <3>1. (m \o BasePath(p))[n] = BasePath(p)[Len(p)]
      BY <1>3, <1>9
    <3>4. /\ Folded(BasePath(q))[i] = FoldName[BasePath(q)[n]]
          /\ Folded(m \o BasePath(p))[i] = FoldName[BasePath(p)[Len(p)]]
      BY <1>3, <1>8, <1>10, <2>3, <3>1
    <3>2. CASE InPackage(p)
      <4>1. BasePath(q)[n] = Stem[FoldName[Last(p)]] /\ BasePath(p)[Len(p)] = Stem[Last(p)]
        BY <1>4, <1>5, <1>6, <1>7, <3>2
      <4> QED
        BY <1>4, <1>11, <3>4, <4>1
    <3>3. CASE ~InPackage(p)
      BY <1>3, <1>4, <1>5, <1>6, <1>7, <1>8, <1>10, <1>11, <2>3, <3>1, <3>3
    <3> QED
      BY <3>2, <3>3
  <2>4. i <= Len(m) \/ (i > Len(m) /\ i < n) \/ i = n
    BY <1>1, <1>3
  <2> QED
    BY <2>1, <2>2, <2>3, <2>4, Zenon
<1>13. Folded(BasePath(q)) = Folded(m \o BasePath(p))
  BY <1>8, <1>10, <1>12, SeqEqual
<1>14. Folded(m \o BasePath(p)) = Folded(m) \o Folded(BasePath(p))
  BY <1>7, FoldedBelow
<1>15. UnitOf(q) = SeenUnit(m, UnitOf(p))
  BY <1>5, <1>13, <1>14 DEF UnitOf, SeenUnit
<1> QED
  BY <1>2, <1>3, <1>5, <1>15 DEF q

\* No two units are one, seen below a folder.
LEMMA SeenApart ==
  ASSUME NEW m \in Seq(Name), NEW p \in Seq(Name), NEW q \in Seq(Name), Folded(m) \o Folded(p) = Folded(m) \o Folded(q)
  PROVE  Folded(p) = Folded(q)
<1> DEFINE a == Folded(m)
           b == Folded(p)
           c == Folded(q)
<1>1. a \in Seq(Name) /\ b \in Seq(Name) /\ c \in Seq(Name)
  BY FoldedPath
<1> HIDE DEF a, b, c
<1>2. /\ Len(a) \in Nat /\ Len(b) \in Nat /\ Len(c) \in Nat /\ Len(a \o b) = Len(a) + Len(b) /\ Len(a \o c) = Len(a) + Len(c)
      /\ \A i \in 1..(Len(a) + Len(b)) : (a \o b)[i] = IF i <= Len(a) THEN a[i] ELSE b[i - Len(a)]
      /\ \A i \in 1..(Len(a) + Len(c)) : (a \o c)[i] = IF i <= Len(a) THEN a[i] ELSE c[i - Len(a)]
  BY <1>1, ConcatProperties, LenProperties
<1>3. a \o b = a \o c
  BY DEF a, b, c
<1>4. Len(b) = Len(c)
  BY <1>2, <1>3
<1>5. \A i \in 1..Len(b) : b[i] = c[i]
  <2> TAKE i \in 1..Len(b)
  <2>1. Len(a) + i \in 1..(Len(a) + Len(b)) /\ ~(Len(a) + i <= Len(a)) /\ (Len(a) + i) - Len(a) = i
    BY <1>2
  <2>2. (a \o b)[Len(a) + i] = b[i] /\ (a \o c)[Len(a) + i] = c[i]
    BY <1>2, <1>4, <2>1
  <2> QED
    BY <1>3, <2>2
<1>6. b = c
  BY <1>1, <1>4, <1>5, SeqEqual
<1> QED
  BY <1>6 DEF b, c

\* The paths of files, the units they are in, the files of a unit and the units
\* of files.
Paths == Seq(Name) \ {<< >>}
Units == {UnitOf(p) : p \in Paths}
InUnit(files, u) == {f \in files : UnitOf(f.path) = u}
UnitsOfFiles(files) == {UnitOf(f.path) : f \in files}
SeenUnits(m, us) == {SeenUnit(m, u) : u \in us}

\* No two units are one, seen below a folder.
LEMMA SeenUnitApart ==
  ASSUME NEW m \in Seq(Name), NEW u \in Units, NEW v \in Units, SeenUnit(m, u) = SeenUnit(m, v)
  PROVE  u = v
<1>1. PICK p \in Paths : u = UnitOf(p)
  BY DEF Units
<1>2. PICK q \in Paths : v = UnitOf(q)
  BY DEF Units
<1>3. BasePath(p) \in Seq(Name) /\ BasePath(q) \in Seq(Name)
  BY BaseOfPath DEF Paths
<1>4. u = [kind |-> u.kind, key |-> u.key] /\ v = [kind |-> v.kind, key |-> v.key]
      /\ u.key = Folded(BasePath(p)) /\ v.key = Folded(BasePath(q))
  BY <1>1, <1>2, UnitForm
<1>5. u.kind = v.kind /\ Folded(m) \o u.key = Folded(m) \o v.key
  BY DEF SeenUnit
<1>6. u.key = v.key
  BY <1>3, <1>4, <1>5, SeenApart
<1> QED
  BY <1>4, <1>5, <1>6

\* The files of a unit, seen below a folder.
LEMMA SeenOfUnit ==
  ASSUME NEW m \in Seq(Name), NEW files, \A f \in files : f.path \in Paths, NEW u \in Units
  PROVE  /\ InUnit(AsSeen(m, files), SeenUnit(m, u)) = AsSeen(m, InUnit(files, u))
         /\ UnitsOfFiles(AsSeen(m, files)) = SeenUnits(m, UnitsOfFiles(files))
<1> DEFINE S(f) == [path |-> Folded(m \o f.path), own |-> << >>, blob |-> f.blob]
<1>1. \A f \in files : UnitOf(S(f).path) = SeenUnit(m, UnitOf(f.path)) /\ UnitOf(f.path) \in Units
  <2> TAKE f \in files
  <2>1. f.path \in Paths /\ S(f).path = Folded(m \o f.path)
    OBVIOUS
  <2>2. UnitOf(Folded(m \o f.path)) = SeenUnit(m, UnitOf(f.path))
    BY <2>1, SeenPath DEF Paths
  <2> QED
    BY <2>1, <2>2 DEF Units
<1>2. \A f \in files : UnitOf(S(f).path) = SeenUnit(m, u) <=> UnitOf(f.path) = u
  BY <1>1, SeenUnitApart
<1>3. /\ \A X : AsSeen(m, X) = {S(f) : f \in X}
  BY DEF AsSeen
<1> HIDE DEF S
<1>4. InUnit(AsSeen(m, files), SeenUnit(m, u)) = AsSeen(m, InUnit(files, u))
  BY <1>2, <1>3 DEF InUnit
<1>5. UnitsOfFiles(AsSeen(m, files)) = SeenUnits(m, UnitsOfFiles(files))
  <2>1. UnitsOfFiles(AsSeen(m, files)) = {UnitOf(S(f).path) : f \in files}
    BY <1>3 DEF UnitsOfFiles
  <2>2. SeenUnits(m, UnitsOfFiles(files)) = {SeenUnit(m, UnitOf(f.path)) : f \in files}
    BY DEF SeenUnits, UnitsOfFiles
  <2> QED
    BY <1>1, <2>1, <2>2
<1> QED
  BY <1>4, <1>5

\* A Pak as the game sees it has the files of the Pak as it is open, seen from
\* the folder that the Paks share.
LEMMA GameFiles ==
  ASSUME NEW request, NEW ids, Ready(request, ids), NEW i \in 1..Len(ids)
  PROVE  LET opened == OpenedFor(request, ids) IN
         /\ opened.mount \in Seq(Name) /\ GamePak(ids[i]).id = ids[i]
         /\ ToSet(GamePak(ids[i]).files) = AsSeen(opened.mount, ToSet(opened.paks[i].files))
         /\ \A f \in ToSet(opened.paks[i].files) : f.path \in Paths
<1> DEFINE opened == OpenedFor(request, ids)
           ms == MountsOf(ids)
           n == CommonLength(ms)
           c == opened.carrier
           files == Contents[ids[i]].files
           pak == opened.paks[i]
           full == Contents[ids[i]].mount
           rest == Rest(ms[i], n)
           X == AsSeen(full, ToSet(files))
<1>1. /\ ids \in Seq(DOMAIN Contents) /\ Len(ids) >= 1 /\ c \in 1..Len(ids) /\ opened.mount = SubSeq(ms[c], 1, n)
      /\ DOMAIN pak.files = 1..Len(files) /\ DOMAIN files = 1..Len(files) /\ DOMAIN ids = 1..Len(ids)
      /\ \A k \in 1..Len(files) : pak.files[k] = Rebased(rest, files[k]) /\ pak.files[k].path \in Paths
  BY OpenedPaks DEF Paths
<1>2. /\ DOMAIN ms = 1..Len(ids) /\ Shared(ms, n) /\ ms[i] = full
      /\ \A j \in 1..Len(ids) : ms[j] \in Seq(Name) /\ SubSeq(ms[j], 1, n) \in Seq(Name)
      /\ rest \in Seq(Name) /\ ms[i] = SubSeq(ms[i], 1, n) \o rest
  BY <1>1, SharedFolder DEF MountsOf
<1>3. /\ files \in Seq(ToSet(files)) /\ \A k \in 1..Len(files) : files[k].path \in Seq(Name)
  <2>1. ids[i] \in DOMAIN Contents
    BY <1>1, ElementOfSeq
  <2> QED
    BY <1>1, <2>1, ContentsAssumption
<1> HIDE DEF opened, ms, n, c, files, pak, full, rest
<1>4. Folded(SubSeq(ms[i], 1, n)) = Folded(opened.mount)
  BY <1>1, <1>2 DEF Shared
<1>5. \A k \in 1..Len(files) : Folded(full \o files[k].path) = Folded(opened.mount \o pak.files[k].path)
  <2> TAKE k \in 1..Len(files)
  <2> DEFINE a == SubSeq(ms[i], 1, n)
             p == files[k].path
  <2>1. a \in Seq(Name) /\ rest \in Seq(Name) /\ p \in Seq(Name) /\ rest \o p \in Seq(Name) /\ full = a \o rest /\ opened.mount \in Seq(Name)
    BY <1>1, <1>2, <1>3, ConcatProperties
  <2>2. pak.files[k].path = rest \o p
    <3>1. pak.files[k] = Rebased(rest, files[k])
      BY <1>1
    <3> QED
      BY <3>1 DEF Rebased
  <2>3. Folded(a) = Folded(opened.mount)
    BY <1>4
  <2> HIDE DEF a, p
  <2>4. (a \o rest) \o p = a \o (rest \o p)
    <3>1. a \in Seq(Name) /\ rest \in Seq(Name) /\ p \in Seq(Name)
      BY <2>1
    <3> QED
      BY <3>1, JoinedThrice, Zenon
  <2>5. Folded(a \o (rest \o p)) = Folded(a) \o Folded(rest \o p)
    BY <2>1, FoldedBelow
  <2>6. Folded(opened.mount \o (rest \o p)) = Folded(opened.mount) \o Folded(rest \o p)
    BY <2>1, FoldedBelow
  <2> QED
    BY <2>1, <2>2, <2>3, <2>4, <2>5, <2>6 DEF p
<1>6. \A k \in 1..Len(files) : pak.files[k].blob = files[k].blob
  <2> TAKE k \in 1..Len(files)
  <2>1. pak.files[k] = Rebased(rest, files[k])
    BY <1>1
  <2> QED
    BY <2>1 DEF Rebased
<1>7. X = AsSeen(opened.mount, ToSet(pak.files))
  <2> DEFINE A(k) == [path |-> Folded(full \o files[k].path), own |-> << >>, blob |-> files[k].blob]
             B(k) == [path |-> Folded(opened.mount \o pak.files[k].path), own |-> << >>, blob |-> pak.files[k].blob]
  <2>1. X = {A(k) : k \in 1..Len(files)}
    BY <1>1 DEF AsSeen, ToSet
  <2>2. AsSeen(opened.mount, ToSet(pak.files)) = {B(k) : k \in 1..Len(files)}
    BY <1>1 DEF AsSeen, ToSet
  <2>3. \A k \in 1..Len(files) : A(k) = B(k)
    BY <1>5, <1>6
  <2> HIDE DEF A, B, X
  <2> QED
    BY <2>1, <2>2, <2>3
<1>8. IsFiniteSet(X)
  <2>1. IsFiniteSet(ToSet(files))
    BY <1>3, MembersFinite
  <2> DEFINE g == [f \in ToSet(files) |-> [path |-> Folded(full \o f.path), own |-> << >>, blob |-> f.blob]]
  <2>2. DOMAIN g = ToSet(files) /\ \A t \in X : \E f \in ToSet(files) : t = g[f]
    BY DEF AsSeen
  <2> HIDE DEF g, X
  <2> QED
    BY <2>1, <2>2, ReachedIsFinite
<1>9. GamePak(ids[i]).id = ids[i] /\ GamePak(ids[i]).files = SetToSeq(X)
  BY DEF GamePak, full, files
<1>10. ToSet(SetToSeq(X)) = X
  BY <1>8, Listed
<1>11. \A f \in ToSet(pak.files) : f.path \in Paths
  BY <1>1 DEF ToSet
<1>12. opened.mount \in Seq(Name)
  BY <1>1, <1>2
<1> HIDE DEF X
<1> QED
  BY <1>7, <1>9, <1>10, <1>11, <1>12 DEF opened, pak

-----------------------------------------------------------------------------
(* The comparison and the merged Pak, unit by unit.                          *)

\* The game that a comparison detects, its outcome for a unit, and what a merge
\* makes of that.
DetectedFor(n, request, ids) == DetectInventory(Registry(n), Inventory(OpenedFor(request, ids)))
OutcomeOf(n, request, ids, u) == AnalyzeUnit(OpenedFor(request, ids), Registry(n), DetectedFor(n, request, ids), u)
MadeOf(n, request, ids, choices, u) ==
  Prepared(OpenedFor(request, ids), Registry(n), PlanOf(n, request, ids), choices, OutcomeOf(n, request, ids, u).asset)

\* The conflicts of a unit that is merged row by row are those of its rows.
ComparedRows(u, paks, base, path, conflicts) ==
  \E format, groups :
    /\ Compares(u, paks, base, format, groups)
    /\ conflicts = {MakeConflict(u, path, c, paks) : c \in RowConflicts(Views(paks, u), base, groups)}

\* The outcomes of a comparison for a unit.
OutcomeIs(o, u, paks, base) ==
  \/ o.asset.action = "Copy" /\ Len(paks) = 1 /\ o.conflicts = {}
  \/ o.asset.action = "Deduplicate" /\ AllAlike(u, paks) /\ o.conflicts = {}
  \/ o.asset.action = "MergeDatabase" /\ ComparedRows(u, paks, base, SpelledAs(paks[base], u), o.conflicts)
  \/ o.asset.action = "SelectOpaque" /\ o.conflicts = {MakeConflict(u, SpelledAs(paks[1], u), WholeFile(paks), paks)}

\* The parts of a comparison and of its merged Pak are those of its units.
LEMMA PartsByUnit ==
  ASSUME NEW n, NEW request, NEW ids, NEW choices
  PROVE  LET plan == PlanOf(n, request, ids)
             units == UnitsIn(OpenedFor(request, ids))
         IN /\ plan.detected = DetectedFor(n, request, ids)
            /\ \A asset : asset \in plan.assets <=> \E u \in units : asset = OutcomeOf(n, request, ids, u).asset
            /\ \A c : c \in plan.conflicts <=> \E u \in units : c \in OutcomeOf(n, request, ids, u).conflicts
            /\ \A p : p \in PreparedFor(n, request, ids, choices) <=> \E u \in units : p = MadeOf(n, request, ids, choices, u)
            /\ \A e : e \in EntriesFor(n, request, ids, choices) <=>
                 \E u \in units : e \in MadeOf(n, request, ids, choices, u).files
<1> DEFINE opened == OpenedFor(request, ids)
           d == DetectedFor(n, request, ids)
           plan == PlanOf(n, request, ids)
           units == UnitsIn(opened)
           Of(u) == OutcomeOf(n, request, ids, u)
           Made(u) == MadeOf(n, request, ids, choices, u)
<1>1. /\ plan.detected = d /\ plan.assets = {Of(u).asset : u \in units} /\ plan.conflicts = UNION {Of(u).conflicts : u \in units}
  BY PlanParts DEF DetectedFor, OutcomeOf
<1>2. PreparedFor(n, request, ids, choices) = {Prepared(opened, Registry(n), plan, choices, asset) : asset \in plan.assets}
  BY DEF PreparedFor, OutputEntries
<1>3. \A u : Made(u) = Prepared(opened, Registry(n), plan, choices, Of(u).asset)
  BY DEF MadeOf
<1>4. EntriesFor(n, request, ids, choices) = UNION {p.files : p \in PreparedFor(n, request, ids, choices)}
  BY DEF EntriesFor
<1> HIDE DEF opened, d, plan, units, Of, Made
<1>5. \A p : p \in PreparedFor(n, request, ids, choices) <=> \E u \in units : p = Made(u)
  BY <1>1, <1>2, <1>3
<1>6. \A e : e \in EntriesFor(n, request, ids, choices) <=> \E u \in units : e \in Made(u).files
  BY <1>4, <1>5
<1> QED
  BY <1>1, <1>5, <1>6 DEF opened, d, plan, units, Of, Made

\* The base of a unit is one of the Paks that have it.
LEMMA BaseIsThere ==
  ASSUME NEW request, NEW ids, Ready(request, ids), NEW u \in UnitsIn(OpenedFor(request, ids))
  PROVE  LET opened == OpenedFor(request, ids) IN
         /\ BaseOf(opened, u) \in DOMAIN Providers(opened, u) /\ 1 \in DOMAIN Providers(opened, u)
         /\ DOMAIN Providers(opened, u) = 1..Len(Providers(opened, u)) /\ Len(Providers(opened, u)) \in Nat
<1> DEFINE opened == OpenedFor(request, ids)
           paks == Providers(opened, u)
           at == {i \in DOMAIN paks : paks[i].id = opened.paks[opened.carrier].id}
<1>1. DOMAIN paks = 1..Len(paks) /\ Len(paks) \in Nat /\ Len(paks) >= 1
  BY ProvidersOf
<1>2. BaseOf(opened, u) = IF at = {} THEN 1 ELSE Least(at)
  BY DEF BaseOf
<1> HIDE DEF paks, opened
<1>3. at \in SUBSET Nat /\ at \subseteq DOMAIN paks
  BY <1>1
<1>4. at # {} => Least(at) \in at
  BY <1>3, LeastOf
<1> QED
  BY <1>1, <1>2, <1>3, <1>4 DEF opened, paks

\* A unit of the comparison is a unit; the Paks that have it have its files.
LEMMA UnitThere ==
  ASSUME NEW request, NEW ids, Ready(request, ids), NEW u \in UnitsIn(OpenedFor(request, ids))
  PROVE  LET opened == OpenedFor(request, ids)
             paks == Providers(opened, u)
         IN /\ u \in Units
            /\ \A k \in DOMAIN paks :
                 /\ FilesOf(paks[k], u) # {} /\ SpelledAs(paks[k], u) \in Seq(Name) /\ Folded(SpelledAs(paks[k], u)) = u.key
                 /\ \A f \in FilesOf(paks[k], u) : f.path \in Paths /\ UnitOf(f.path) = u
<1> DEFINE opened == OpenedFor(request, ids)
           paks == Providers(opened, u)
<1>1. /\ 1 \in DOMAIN paks /\ \A k \in DOMAIN paks : \E i \in HaveUnit(opened, u) : paks[k] = opened.paks[i]
  <2>1. 1 \in DOMAIN paks
    BY BaseIsThere
  <2>2. /\ DOMAIN paks = 1..Cardinality(HaveUnit(opened, u))
        /\ \A k \in 1..Cardinality(HaveUnit(opened, u)) : \E i \in HaveUnit(opened, u) : paks[k] = opened.paks[i]
    BY ProvidersOf
  <2> QED
    BY <2>1, <2>2
<1>2. ASSUME NEW k \in DOMAIN paks
      PROVE  /\ FilesOf(paks[k], u) # {} /\ SpelledAs(paks[k], u) \in Seq(Name) /\ Folded(SpelledAs(paks[k], u)) = u.key
             /\ \A f \in FilesOf(paks[k], u) : f.path \in Paths /\ UnitOf(f.path) = u
  <2>1. PICK i \in HaveUnit(opened, u) : paks[k] = opened.paks[i]
    BY <1>1, <1>2
  <2> DEFINE pak == opened.paks[i]
  <2>2. /\ \E f \in FilesOf(pak, u) : SpelledAs(pak, u) = BasePath(f.path)
        /\ Folded(SpelledAs(pak, u)) = u.key /\ FilesOf(pak, u) # {}
        /\ \A f \in FilesOf(pak, u) : f.path \in Paths /\ UnitOf(f.path) = u
    BY SpelledUnit DEF Paths
  <2>3. SpelledAs(pak, u) \in Seq(Name)
    BY <2>2, BaseOfPath DEF Paths
  <2> QED
    BY <2>1, <2>2, <2>3
<1>3. u \in Units
  BY <1>1, <1>2 DEF Units
<1> QED
  BY <1>2, <1>3

\* What a unit was found to be.
LEMMA UnitOutcome ==
  ASSUME NEW n, NEW request, NEW ids, Ready(request, ids), NEW u \in UnitsIn(OpenedFor(request, ids))
  PROVE  LET opened == OpenedFor(request, ids) IN
         OutcomeIs(OutcomeOf(n, request, ids, u), u, Providers(opened, u), BaseOf(opened, u))
<1> DEFINE opened == OpenedFor(request, ids)
           d == DetectedFor(n, request, ids)
           paks == Providers(opened, u)
           base == BaseOf(opened, u)
           format == {g.format : g \in GameOf(Registry(n), d.selected)}
           groups == GroupsOf(Registry(n), d, SpelledAs(paks[base], u))
           o == OutcomeOf(n, request, ids, u)
<1>1. o = AnalyzeGroup(u, paks, base, format, groups)
  BY DEF OutcomeOf, AnalyzeUnit
<1>2. Len(paks) \in Nat /\ Len(paks) >= 1
  BY ProvidersOf
<1> HIDE DEF opened, d, paks, base, format, groups, o
<1>3. \/ Len(paks) = 1 /\ o = GroupPlan(u, paks, "Copy", << >>, {})
      \/ Len(paks) > 1 /\ AllAlike(u, paks) /\ o = GroupPlan(u, paks, "Deduplicate", << >>, {})
      \/ /\ Len(paks) > 1 /\ ~AllAlike(u, paks) /\ Compares(u, paks, base, format, groups)
         /\ o = GroupPlan(u, paks, "MergeDatabase", SpelledAs(paks[base], u), RowConflicts(Views(paks, u), base, groups))
      \/ /\ Len(paks) > 1 /\ ~AllAlike(u, paks) /\ ~Compares(u, paks, base, format, groups)
         /\ o = GroupPlan(u, paks, "SelectOpaque", SpelledAs(paks[1], u), {WholeFile(paks)})
  <2>1. Len(paks) \in Nat /\ Len(paks) >= 1
    BY <1>2
  <2>2. PlannedAs(o, u, paks, base, format, groups)
    BY <1>1, <2>1, GroupOutcome, Zenon
  <2> QED
    BY <2>2 DEF PlannedAs
<1>4. ASSUME NEW action, NEW path, NEW found, o = GroupPlan(u, paks, action, path, found)
      PROVE  o.asset.action = action /\ o.conflicts = {MakeConflict(u, path, c, paks) : c \in found}
  <2>1. /\ GroupPlan(u, paks, action, path, found).asset.action = action
        /\ GroupPlan(u, paks, action, path, found).conflicts = {MakeConflict(u, path, c, paks) : c \in found}
    BY DEF GroupPlan, AssetPlan
  <2> QED
    BY <1>4, <2>1
<1>5. OutcomeIs(o, u, paks, base)
  <2>1. CASE Len(paks) = 1 /\ o = GroupPlan(u, paks, "Copy", << >>, {})
    <3>1. o.asset.action = "Copy" /\ o.conflicts = {}
      BY <1>4, <2>1
    <3> QED
      BY <2>1, <3>1 DEF OutcomeIs
  <2>2. CASE AllAlike(u, paks) /\ o = GroupPlan(u, paks, "Deduplicate", << >>, {})
    <3>1. o.asset.action = "Deduplicate" /\ o.conflicts = {}
      BY <1>4, <2>2
    <3> QED
      BY <2>2, <3>1 DEF OutcomeIs
  <2>3. CASE /\ Compares(u, paks, base, format, groups)
             /\ o = GroupPlan(u, paks, "MergeDatabase", SpelledAs(paks[base], u), RowConflicts(Views(paks, u), base, groups))
    <3>1. /\ o.asset.action = "MergeDatabase"
          /\ o.conflicts = {MakeConflict(u, SpelledAs(paks[base], u), c, paks) : c \in RowConflicts(Views(paks, u), base, groups)}
      BY <1>4, <2>3
    <3>2. ComparedRows(u, paks, base, SpelledAs(paks[base], u), o.conflicts)
      BY <2>3, <3>1, Zenon DEF ComparedRows
    <3> QED
      BY <3>1, <3>2 DEF OutcomeIs
  <2>4. CASE o = GroupPlan(u, paks, "SelectOpaque", SpelledAs(paks[1], u), {WholeFile(paks)})
    <3>1. /\ o.asset.action = "SelectOpaque"
          /\ o.conflicts = {MakeConflict(u, SpelledAs(paks[1], u), c, paks) : c \in {WholeFile(paks)}}
      BY <1>4, <2>4
    <3>2. o.conflicts = {MakeConflict(u, SpelledAs(paks[1], u), WholeFile(paks), paks)}
      BY <3>1
    <3> QED
      BY <3>1, <3>2 DEF OutcomeIs
  <2> QED
    BY <1>3, <2>1, <2>2, <2>3, <2>4
<1> QED
  BY <1>5 DEF o, paks, base, opened

\* One conflict, and a choice of one of the Paks for it.
OneChoice(o, c, choices, paks) ==
  /\ o.conflicts = {c} /\ o.asset.conflict_ids = {c.id} /\ c.id \in DOMAIN choices
  /\ \E k \in DOMAIN paks : choices[c.id] = paks[k].id

\* A choice between the Paks that have a unit as a file is of one of them.
LEMMA FileChoice ==
  ASSUME NEW n, NEW request, NEW ids, Ready(request, ids), NEW choices, CanWrite(n, request, ids, choices),
         NEW u \in UnitsIn(OpenedFor(request, ids)), OutcomeOf(n, request, ids, u).asset.action = "SelectOpaque"
  PROVE  LET paks == Providers(OpenedFor(request, ids), u)
             o == OutcomeOf(n, request, ids, u)
             c == MakeConflict(u, SpelledAs(paks[1], u), WholeFile(paks), paks)
         IN OneChoice(o, c, choices, paks)
<1> DEFINE opened == OpenedFor(request, ids)
           paks == Providers(opened, u)
           o == OutcomeOf(n, request, ids, u)
           plan == PlanOf(n, request, ids)
           c == MakeConflict(u, SpelledAs(paks[1], u), WholeFile(paks), paks)
<1>1. o.conflicts = {c}
  BY UnitOutcome DEF OutcomeIs
<1>2. o.asset.conflict_ids = {x.id : x \in {y \in o.conflicts : y.blocking}}
  BY AssetOfUnit DEF OutcomeOf
<1>3. c.blocking /\ c.id.inputs = {paks[k].id : k \in DOMAIN paks}
  BY DEF MakeConflict, WholeFile
<1>4. /\ \A x \in plan.conflicts : x.blocking => x.id \in DOMAIN choices
      /\ \A id \in DOMAIN choices : choices[id] \in id.inputs
  BY DEF CanWrite, ResolutionsFit
<1> HIDE DEF c, o, paks, plan, opened
<1>5. o.asset.conflict_ids = {c.id}
  BY <1>1, <1>2, <1>3
<1>6. c \in plan.conflicts
  BY <1>1, PartsByUnit DEF o, plan, opened
<1>7. c.id \in DOMAIN choices
  BY <1>3, <1>4, <1>6
<1>8. \E k \in DOMAIN paks : choices[c.id] = paks[k].id
  BY <1>3, <1>4, <1>7
<1> QED
  BY <1>1, <1>5, <1>7, <1>8 DEF OneChoice, c, o, paks, opened

\* The files of one Pak, chosen wherever there was a choice.
CopiedAs(p, u, paks, choices, conflicts) ==
  \E k \in DOMAIN paks : p.files = CopiedFrom(paks[k], u) /\ \A c \in conflicts : choices[c.id] = paks[k].id

\* A unit that is copied comes from one Pak that has it, the chosen one if there
\* is a choice.
LEMMA CopiedUnit ==
  ASSUME NEW n, NEW request, NEW ids, Ready(request, ids), NEW choices, CanWrite(n, request, ids, choices),
         NEW u \in UnitsIn(OpenedFor(request, ids)), OutcomeOf(n, request, ids, u).asset.action # "MergeDatabase"
  PROVE  LET paks == Providers(OpenedFor(request, ids), u)
             o == OutcomeOf(n, request, ids, u)
             p == MadeOf(n, request, ids, choices, u)
         IN p.audited = {} /\ CopiedAs(p, u, paks, choices, o.conflicts)
<1> DEFINE opened == OpenedFor(request, ids)
           paks == Providers(opened, u)
           o == OutcomeOf(n, request, ids, u)
           a == o.asset
           plan == PlanOf(n, request, ids)
           base == BaseOf(opened, u)
           p == MadeOf(n, request, ids, choices, u)
<1>1. PreparedIs(p, a, u, paks, base, Registry(n), plan, choices)
  BY PreparedCases DEF MadeOf, OutcomeOf
<1>2. OutcomeIs(o, u, paks, base)
  BY UnitOutcome
<1>3. CASE a.action = "SelectOpaque"
  <2> DEFINE c == MakeConflict(u, SpelledAs(paks[1], u), WholeFile(paks), paks)
  <2>1. /\ o.conflicts = {c} /\ a.conflict_ids = {c.id} /\ \E k \in DOMAIN paks : choices[c.id] = paks[k].id
    BY <1>3, FileChoice DEF OneChoice
  <2>2. \A j, k \in DOMAIN paks : paks[j].id = paks[k].id => j = k
    <3>1. /\ DOMAIN paks = 1..Cardinality(HaveUnit(opened, u))
          /\ \A j, k \in 1..Cardinality(HaveUnit(opened, u)) : paks[j].id = paks[k].id => j = k
      BY ProvidersOf
    <3> QED
      BY <3>1
  <2> HIDE DEF c, a, o, paks, opened, p, plan, base
  <2>3. p.audited = {} /\ p.files = FilesFrom(paks, u, Chosen(choices, a))
    BY <1>1, <1>3 DEF PreparedIs
  <2>4. PICK k \in DOMAIN paks : choices[c.id] = paks[k].id
    BY <2>1
  <2>5. Chosen(choices, a) = paks[k].id
    <3>1. (CHOOSE id \in a.conflict_ids : TRUE) = c.id
      BY <2>1
    <3> QED
      BY <2>4, <3>1 DEF Chosen
  <2>6. {x \in ToSet(paks) : x.id = paks[k].id} = {paks[k]}
    BY <2>2 DEF ToSet
  <2>7. FilesFrom(paks, u, paks[k].id) = CopiedFrom(paks[k], u)
    <3>1. {CopiedFrom(pak, u) : pak \in {paks[k]}} = {CopiedFrom(paks[k], u)}
      OBVIOUS
    <3>2. UNION {CopiedFrom(paks[k], u)} = CopiedFrom(paks[k], u)
      OBVIOUS
    <3> QED
      BY <2>6, <3>1, <3>2 DEF FilesFrom
  <2> QED
    BY <2>1, <2>3, <2>4, <2>5, <2>7 DEF CopiedAs, a, o, paks, opened, p
<1>4. CASE a.action # "SelectOpaque"
  <2> HIDE DEF a, o, paks, opened, p, plan, base
  <2>1. a.action # "MergeDatabase"
    BY DEF a, o
  <2>2. o.conflicts = {}
    BY <1>2, <1>4, <2>1 DEF OutcomeIs, a
  <2>3. p.audited = {} /\ \E pak \in ToSet(paks) : p.files = CopiedFrom(pak, u)
    BY <1>1, <1>4, <2>1 DEF PreparedIs
  <2> QED
    BY <2>2, <2>3 DEF CopiedAs, a, o, paks, opened, p, ToSet
<1> QED
  BY <1>3, <1>4

\* A merged list of rows is read back, a merged data table is not.
AuditedFor(p, table, u) == p.audited = (IF table THEN {} ELSE {u.key})

\* A database that is merged has two files in every Pak.
LEMMA MergedUnit ==
  ASSUME NEW n, NEW request, NEW ids, Ready(request, ids), NEW choices, CanWrite(n, request, ids, choices),
         NEW u \in UnitsIn(OpenedFor(request, ids)), OutcomeOf(n, request, ids, u).asset.action = "MergeDatabase"
  PROVE  LET paks == Providers(OpenedFor(request, ids), u)
             base == BaseOf(OpenedFor(request, ids), u)
             p == MadeOf(n, request, ids, choices, u)
         IN /\ AuditedFor(p, IsTable(paks[base], u), u)
            /\ \E header, payload : p.files = DatabaseFiles(paks[base], u, header, payload)
            /\ \A k \in DOMAIN paks : IsDatabaseCandidate(paks[k], u)
            /\ \/ \A k \in DOMAIN paks : IsTable(paks[k], u)
               \/ \A k \in DOMAIN paks : IsRows(paks[k], u)
<1> DEFINE opened == OpenedFor(request, ids)
           paks == Providers(opened, u)
           o == OutcomeOf(n, request, ids, u)
           plan == PlanOf(n, request, ids)
           base == BaseOf(opened, u)
           p == MadeOf(n, request, ids, choices, u)
           b == BuiltDatabase(Registry(n), plan, choices, u, paks, base)
<1>1. PreparedIs(p, o.asset, u, paks, base, Registry(n), plan, choices)
  BY PreparedCases DEF MadeOf, OutcomeOf
<1>2. OutcomeIs(o, u, paks, base)
  BY UnitOutcome
<1>3. o.asset.action = "MergeDatabase"
  OBVIOUS
<1>4. p.built
  <2>1. p \in PreparedFor(n, request, ids, choices)
    BY PartsByUnit
  <2> HIDE DEF p
  <2> QED
    BY <2>1 DEF CanWrite
<1>5. /\ \/ ~b.built /\ b.files = {}
         \/ b.built /\ \E header, payload : b.files = DatabaseFiles(paks[base], u, header, payload)
      /\ IsTable(paks[base], u) => b.audited = {}
      /\ ~IsTable(paks[base], u) => b.audited = {u.key}
  BY BuiltFiles
<1> HIDE DEF opened, paks, o, plan, base, p, b
<1>6. p = b
  BY <1>1, <1>3 DEF PreparedIs, b
<1>7. AuditedFor(p, IsTable(paks[base], u), u)
  BY <1>5, <1>6 DEF AuditedFor
<1>8. \E header, payload : p.files = DatabaseFiles(paks[base], u, header, payload)
  BY <1>4, <1>5, <1>6, Zenon
<1>9. PICK format, groups : Compares(u, paks, base, format, groups)
  BY <1>2, <1>3 DEF OutcomeIs, ComparedRows
<1>10. \A k \in DOMAIN paks : IsDatabaseCandidate(paks[k], u)
  BY <1>9 DEF Compares
<1>11. \/ \A k \in DOMAIN paks : IsTable(paks[k], u)
       \/ \A k \in DOMAIN paks : IsRows(paks[k], u)
  BY <1>9 DEF Compares, TablesCompare, RowListsCompare
<1> QED
  BY <1>7, <1>8, <1>10, <1>11 DEF opened, paks, base, p

\* The two files of a database.
LEMMA Components ==
  ASSUME NEW pak, NEW u, IsDatabaseCandidate(pak, u), NEW ext \in {"uasset", "uexp"}
  PROVE  Component(pak, u, ext) \in FilesOf(pak, u) /\ Ext[Last(Component(pak, u, ext).path)] = ext
<1>1. ext \in {Ext[Last(f.path)] : f \in FilesOf(pak, u)}
  BY DEF IsDatabaseCandidate
<1>2. \E f \in FilesOf(pak, u) : Ext[Last(f.path)] = ext
  BY <1>1
<1> QED
  BY <1>2, Zenon DEF Component

\* The files of a unit in the merged Pak are files of that unit.
LEMMA UnitFiles ==
  ASSUME NEW n, NEW request, NEW ids, Ready(request, ids), NEW choices, CanWrite(n, request, ids, choices),
         NEW u \in UnitsIn(OpenedFor(request, ids))
  PROVE  LET p == MadeOf(n, request, ids, choices, u) IN
         p.files # {} /\ \A e \in p.files : e.path \in Paths /\ UnitOf(e.path) = u
<1> DEFINE paks == Providers(OpenedFor(request, ids), u)
           base == BaseOf(OpenedFor(request, ids), u)
           p == MadeOf(n, request, ids, choices, u)
<1>1. \A k \in DOMAIN paks : FilesOf(paks[k], u) # {} /\ \A f \in FilesOf(paks[k], u) : f.path \in Paths /\ UnitOf(f.path) = u
  BY UnitThere
<1>2. CASE OutcomeOf(n, request, ids, u).asset.action # "MergeDatabase"
  <2>1. PICK k \in DOMAIN paks : p.files = CopiedFrom(paks[k], u)
    BY <1>2, CopiedUnit DEF CopiedAs
  <2> HIDE DEF paks, p
  <2>2. FilesOf(paks[k], u) # {} /\ \A f \in FilesOf(paks[k], u) : f.path \in Paths /\ UnitOf(f.path) = u
    BY <1>1
  <2>3. p.files # {}
    BY <2>1, <2>2 DEF CopiedFrom
  <2>4. \A e \in p.files : e.path \in Paths /\ UnitOf(e.path) = u
    <3> TAKE e \in p.files
    <3>1. PICK f \in FilesOf(paks[k], u) : e.path = f.path
      BY <2>1 DEF CopiedFrom
    <3> QED
      BY <2>2, <3>1
  <2> QED
    BY <2>3, <2>4 DEF p
<1>3. CASE OutcomeOf(n, request, ids, u).asset.action = "MergeDatabase"
  <2>1. /\ \E header, payload : p.files = DatabaseFiles(paks[base], u, header, payload)
        /\ \A k \in DOMAIN paks : IsDatabaseCandidate(paks[k], u)
    BY <1>3, MergedUnit
  <2>2. base \in DOMAIN paks
    BY BaseIsThere
  <2> HIDE DEF paks, p, base
  <2>3. Component(paks[base], u, "uasset") \in FilesOf(paks[base], u) /\ Component(paks[base], u, "uexp") \in FilesOf(paks[base], u)
    BY <2>1, <2>2, Components
  <2>4. PICK header, payload : p.files = DatabaseFiles(paks[base], u, header, payload)
    BY <2>1
  <2> QED
    BY <1>1, <2>2, <2>3, <2>4 DEF DatabaseFiles, p
<1> QED
  BY <1>2, <1>3

\* What the merged Pak has of a unit, and no more.
LEMMA EntriesOfUnit ==
  ASSUME NEW n, NEW request, NEW ids, Ready(request, ids), NEW choices, CanWrite(n, request, ids, choices)
  PROVE  LET entries == EntriesFor(n, request, ids, choices)
             units == UnitsIn(OpenedFor(request, ids))
         IN /\ \A e \in entries : e.path \in Paths
            /\ UnitsOfFiles(entries) = units
            /\ \A u \in units : InUnit(entries, u) = MadeOf(n, request, ids, choices, u).files
<1> DEFINE entries == EntriesFor(n, request, ids, choices)
           units == UnitsIn(OpenedFor(request, ids))
           Made(u) == MadeOf(n, request, ids, choices, u).files
<1>1. \A e : e \in entries <=> \E u \in units : e \in Made(u)
  BY PartsByUnit
<1>2. \A u \in units : Made(u) # {} /\ \A e \in Made(u) : e.path \in Paths /\ UnitOf(e.path) = u
  BY UnitFiles
<1> HIDE DEF entries, units, Made
<1>3. \A e \in entries : e.path \in Paths
  BY <1>1, <1>2
<1>4. UnitsOfFiles(entries) = units
  <2>1. \A t \in UnitsOfFiles(entries) : t \in units
    BY <1>1, <1>2 DEF UnitsOfFiles
  <2>2. ASSUME NEW t \in units PROVE t \in UnitsOfFiles(entries)
    <3>1. PICK e \in Made(t) : UnitOf(e.path) = t
      BY <1>2
    <3>2. e \in entries
      BY <1>1, <3>1
    <3> QED
      BY <3>1, <3>2 DEF UnitsOfFiles
  <2> QED
    BY <2>1, <2>2
<1>5. \A u \in units : InUnit(entries, u) = Made(u)
  BY <1>1, <1>2 DEF InUnit
<1> QED
  BY <1>3, <1>4, <1>5 DEF entries, units, Made

\* The merged Pak as the game sees it.
LEMMA OutputFiles ==
  ASSUME NEW o, Follows(o)
  PROVE  LET request == o.compared.request
             ids == o.compared.inputs
         IN /\ o.mount \in Seq(Name)
            /\ ToSet(OutputPak(o).files) = AsSeen(o.mount, EntriesFor(o.registry, request, ids, o.choices))
<1> DEFINE request == o.compared.request
           ids == o.compared.inputs
           entries == EntriesFor(o.registry, request, ids, o.choices)
           S(e) == [path |-> Folded(o.mount \o e.path), own |-> << >>, blob |-> e.blob]
           X == AsSeen(o.mount, {[path |-> f.path, blob |-> f.blob] : f \in o.files})
<1>1. /\ Ready(request, ids) /\ o.mount = OpenedFor(request, ids).mount /\ o.files = Stored(entries)
  BY DEF Follows
<1>2. IsFiniteSet(entries)
  BY <1>1, EntriesFinite
<1>3. o.mount \in Seq(Name)
  <2>1. 1 \in 1..Len(ids)
    BY <1>1, OpenedPaks
  <2> QED
    BY <1>1, <2>1, GameFiles
<1>4. OutputPak(o).files = SetToSeq(X)
  BY DEF OutputPak
<1> HIDE DEF entries, request, ids
<1>5. X = {S(e) : e \in entries}
  <2> DEFINE B(e) == [path |-> e.path, blob |-> e.blob]
  <2>1. X = {S(B(f)) : f \in o.files}
    BY DEF AsSeen
  <2>2. o.files = {B(e) : e \in entries}
    BY <1>1 DEF Stored
  <2>3. \A e : S(B(B(e))) = S(e)
    OBVIOUS
  <2> HIDE DEF S, B, X
  <2>4. X = {S(B(B(e))) : e \in entries}
    BY <2>1, <2>2
  <2> QED
    BY <2>3, <2>4
<1>6. AsSeen(o.mount, entries) = {S(e) : e \in entries}
  BY DEF AsSeen
<1>7. IsFiniteSet(X)
  <2> DEFINE g == [e \in entries |-> S(e)]
  <2>1. DOMAIN g = entries /\ \A t \in X : \E e \in entries : t = g[e]
    BY <1>5
  <2> HIDE DEF g, X, S
  <2> QED
    BY <1>2, <2>1, ReachedIsFinite
<1>8. ToSet(SetToSeq(X)) = X
  BY <1>7, Listed
<1> HIDE DEF X
<1> QED
  BY <1>3, <1>4, <1>5, <1>6, <1>8 DEF request, ids, entries

\* The files of a unit in a Pak, and those copied from it, are seen alike.
LEMMA CopiedSeen ==
  ASSUME NEW m, NEW pak, NEW u
  PROVE  AsSeen(m, CopiedFrom(pak, u)) = AsSeen(m, FilesOf(pak, u))
<1> DEFINE S(e) == [path |-> Folded(m \o e.path), own |-> << >>, blob |-> e.blob]
           C(f) == [path |-> f.path, from |-> <<[pak |-> pak.id, own |-> f.own]>>, blob |-> f.blob]
<1>1. AsSeen(m, CopiedFrom(pak, u)) = {S(C(f)) : f \in FilesOf(pak, u)}
  BY DEF AsSeen, CopiedFrom
<1>2. AsSeen(m, FilesOf(pak, u)) = {S(f) : f \in FilesOf(pak, u)}
  BY DEF AsSeen
<1>3. \A f : S(C(f)) = S(f)
  OBVIOUS
<1> HIDE DEF S, C
<1> QED
  BY <1>1, <1>2, <1>3

\* Paks whose digests of a unit agree have the same files of it, as seen.
LEMMA AlikeSeen ==
  ASSUME NEW m \in Seq(Name), NEW u \in Units, NEW p, NEW q, Digest(p, u) = Digest(q, u),
         \A f \in FilesOf(p, u) \cup FilesOf(q, u) : f.path \in Paths /\ UnitOf(f.path) = u
  PROVE  AsSeen(m, FilesOf(p, u)) = AsSeen(m, FilesOf(q, u))
<1> DEFINE S(e) == [path |-> Folded(m \o e.path), own |-> << >>, blob |-> e.blob]
           D(f) == [path |-> IF u.kind = "package" THEN f.path ELSE << >>, blob |-> f.blob]
           T(d) == [path |-> IF u.kind = "package" THEN Folded(m \o d.path) ELSE Folded(m) \o u.key, own |-> << >>, blob |-> d.blob]
<1>1. \A X : AsSeen(m, X) = {S(f) : f \in X}
  BY DEF AsSeen
<1>2. \A pak : Digest(pak, u) = {D(f) : f \in FilesOf(pak, u)}
  BY DEF Digest
<1>3. ASSUME NEW f \in FilesOf(p, u) \cup FilesOf(q, u) PROVE S(f) = T(D(f))
  <2>1. CASE u.kind = "package"
    BY <2>1
  <2>2. CASE u.kind # "package"
    <3>1. f.path \in Seq(Name) /\ UnitOf(f.path) = u
      BY <1>3 DEF Paths
    <3>2. ~InPackage(f.path) /\ u.key = Folded(BasePath(f.path))
      BY <2>2, <3>1, UnitForm
    <3>3. u.key = Folded(f.path)
      BY <3>2 DEF BasePath
    <3>4. Folded(m \o f.path) = Folded(m) \o u.key
      BY <3>1, <3>3, FoldedBelow
    <3> QED
      BY <2>2, <3>4
  <2> QED
    BY <2>1, <2>2
<1> HIDE DEF S, D, T
<1>8. {D(f) : f \in FilesOf(p, u)} = {D(f) : f \in FilesOf(q, u)}
  BY <1>2
<1>4. \A f \in FilesOf(p, u) : \E g \in FilesOf(q, u) : D(f) = D(g)
  <2> TAKE f \in FilesOf(p, u)
  <2>1. D(f) \in {D(g) : g \in FilesOf(q, u)}
    BY <1>8
  <2> QED
    BY <2>1
<1>5. \A g \in FilesOf(q, u) : \E f \in FilesOf(p, u) : D(f) = D(g)
  <2> TAKE g \in FilesOf(q, u)
  <2>1. D(g) \in {D(f) : f \in FilesOf(p, u)}
    BY <1>8
  <2> QED
    BY <2>1
<1>6. \A t \in AsSeen(m, FilesOf(p, u)) : t \in AsSeen(m, FilesOf(q, u))
  BY <1>1, <1>3, <1>4
<1>7. \A t \in AsSeen(m, FilesOf(q, u)) : t \in AsSeen(m, FilesOf(p, u))
  BY <1>1, <1>3, <1>5
<1> QED
  BY <1>6, <1>7

\* The compared Paks that have a unit, as the game sees them.
LEMMA SeenHolders ==
  ASSUME NEW o, Follows(o), NEW u \in UnitsIn(OpenedFor(o.compared.request, o.compared.inputs))
  PROVE  LET paks == Providers(OpenedFor(o.compared.request, o.compared.inputs), u)
             U == SeenUnit(o.mount, u)
         IN /\ \A pak : pak \in HoldersSeen(o, U) <=> \E k \in DOMAIN paks : pak = GamePak(paks[k].id)
            /\ \A k \in DOMAIN paks : /\ GamePak(paks[k].id).id = paks[k].id
                                      /\ FilesOf(GamePak(paks[k].id), U) = AsSeen(o.mount, FilesOf(paks[k], u))
<1> DEFINE request == o.compared.request
           ids == o.compared.inputs
           opened == OpenedFor(request, ids)
           paks == Providers(opened, u)
           m == o.mount
           U == SeenUnit(m, u)
           have == HaveUnit(opened, u)
<1>1. Ready(request, ids) /\ m = opened.mount
  BY DEF Follows
<1>2. /\ DOMAIN ids = 1..Len(ids) /\ DOMAIN opened.paks = 1..Len(ids)
      /\ \A i \in 1..Len(ids) : opened.paks[i].id = ids[i]
  BY <1>1, OpenedPaks
<1>3. \A i \in 1..Len(ids) :
        /\ m \in Seq(Name) /\ GamePak(ids[i]).id = ids[i]
        /\ ToSet(GamePak(ids[i]).files) = AsSeen(m, ToSet(opened.paks[i].files))
        /\ \A f \in ToSet(opened.paks[i].files) : f.path \in Paths
  BY <1>1, GameFiles
<1>4. u \in Units
  BY <1>1, UnitThere
<1>5. /\ have \subseteq 1..Len(ids)
      /\ \A k \in DOMAIN paks : \E i \in have : paks[k] = opened.paks[i]
      /\ \A i \in have : \E k \in DOMAIN paks : paks[k] = opened.paks[i]
  <2>1. /\ have \subseteq 1..Len(ids) /\ DOMAIN paks = 1..Cardinality(have)
        /\ \A k \in 1..Cardinality(have) : \E i \in have : paks[k] = opened.paks[i]
        /\ \A i \in have : \E k \in 1..Cardinality(have) : paks[k] = opened.paks[i]
    BY <1>1, ProvidersOf
  <2> QED
    BY <2>1
<1>6. \A i \in 1..Len(ids) : i \in have <=> FilesOf(opened.paks[i], u) # {}
  BY <1>2 DEF HaveUnit
<1> HIDE DEF request, ids, opened, paks, m, have
<1>7. ASSUME NEW i \in 1..Len(ids) PROVE FilesOf(GamePak(ids[i]), U) = AsSeen(m, FilesOf(opened.paks[i], u))
  <2> DEFINE files == ToSet(opened.paks[i].files)
  <2>1. FilesOf(GamePak(ids[i]), U) = InUnit(AsSeen(m, files), U) /\ FilesOf(opened.paks[i], u) = InUnit(files, u)
    BY <1>3 DEF FilesOf, InUnit
  <2>2. m \in Seq(Name) /\ \A f \in files : f.path \in Paths
    BY <1>3
  <2> HIDE DEF files
  <2>3. InUnit(AsSeen(m, files), SeenUnit(m, u)) = AsSeen(m, InUnit(files, u))
    BY <1>4, <2>2, SeenOfUnit
  <2> QED
    BY <2>1, <2>3
<1>8. ASSUME NEW i \in 1..Len(ids) PROVE U \in UnitsOfPak(GamePak(ids[i])) <=> i \in have
  <2>1. U \in UnitsOfPak(GamePak(ids[i])) <=> FilesOf(GamePak(ids[i]), U) # {}
    BY DEF UnitsOfPak, FilesOf
  <2>2. AsSeen(m, FilesOf(opened.paks[i], u)) # {} <=> FilesOf(opened.paks[i], u) # {}
    BY DEF AsSeen
  <2> QED
    BY <1>6, <1>7, <2>1, <2>2
<1>9. \A pak : pak \in ComparedPaks(o) <=> \E i \in 1..Len(ids) : pak = GamePak(ids[i])
  BY <1>2 DEF ComparedPaks, ToSet, ids
<1>10. \A pak : pak \in HoldersSeen(o, U) <=> \E i \in have : pak = GamePak(ids[i])
  BY <1>5, <1>8, <1>9 DEF HoldersSeen
<1>11. \A pak : pak \in HoldersSeen(o, U) <=> \E k \in DOMAIN paks : pak = GamePak(paks[k].id)
  BY <1>2, <1>5, <1>10
<1>12. \A k \in DOMAIN paks : /\ GamePak(paks[k].id).id = paks[k].id
                              /\ FilesOf(GamePak(paks[k].id), U) = AsSeen(m, FilesOf(paks[k], u))
  BY <1>2, <1>3, <1>5, <1>7
<1> QED
  BY <1>11, <1>12 DEF request, ids, opened, paks, m

\* The conflicts of a unit are about it, as the game sees it.
LEMMA ConflictsAbout ==
  ASSUME NEW o, Follows(o), NEW u \in UnitsIn(OpenedFor(o.compared.request, o.compared.inputs)),
         NEW c \in OutcomeOf(o.registry, o.compared.request, o.compared.inputs, u).conflicts
  PROVE  /\ c.id.unit = u.kind /\ c.id.asset \in Seq(Name) /\ Folded(c.id.asset) = u.key
         /\ About(o, c.id, SeenUnit(o.mount, u))
<1> DEFINE request == o.compared.request
           ids == o.compared.inputs
           opened == OpenedFor(request, ids)
           paks == Providers(opened, u)
           base == BaseOf(opened, u)
           result == OutcomeOf(o.registry, request, ids, u)
<1>1. Ready(request, ids)
  BY DEF Follows
<1>2. OutcomeIs(result, u, paks, base)
  BY <1>1, UnitOutcome
<1>3. base \in DOMAIN paks /\ 1 \in DOMAIN paks
  BY <1>1, BaseIsThere
<1>4. \A k \in DOMAIN paks : SpelledAs(paks[k], u) \in Seq(Name) /\ Folded(SpelledAs(paks[k], u)) = u.key
  BY <1>1, UnitThere
<1>5. o.mount \in Seq(Name)
  BY OutputFiles
<1>6. c \in result.conflicts
  OBVIOUS
<1> HIDE DEF request, ids, opened, paks, base, result
<1>7. \E k \in DOMAIN paks : \E x : c = MakeConflict(u, SpelledAs(paks[k], u), x, paks)
  <2>1. CASE ComparedRows(u, paks, base, SpelledAs(paks[base], u), result.conflicts)
    <3>1. PICK format, groups : result.conflicts = {MakeConflict(u, SpelledAs(paks[base], u), x, paks) :
                                                     x \in RowConflicts(Views(paks, u), base, groups)}
      BY <2>1 DEF ComparedRows
    <3> QED
      BY <1>3, <1>6, <3>1
  <2>2. CASE result.conflicts = {MakeConflict(u, SpelledAs(paks[1], u), WholeFile(paks), paks)}
    BY <1>3, <1>6, <2>2
  <2>3. CASE result.conflicts = {}
    BY <1>6, <2>3
  <2> QED
    BY <1>2, <2>1, <2>2, <2>3 DEF OutcomeIs
<1>8. PICK k \in DOMAIN paks : \E x : c = MakeConflict(u, SpelledAs(paks[k], u), x, paks)
  BY <1>7
<1>9. c.id.unit = u.kind /\ c.id.asset = SpelledAs(paks[k], u)
  BY <1>8 DEF MakeConflict
<1>10. Folded(o.mount \o c.id.asset) = Folded(o.mount) \o u.key
  BY <1>4, <1>5, <1>9, FoldedBelow
<1> QED
  BY <1>4, <1>9, <1>10 DEF About, SeenUnit

\* A choice about a unit, as the game sees it, is of a conflict of that unit.
LEMMA ChoicesAbout ==
  ASSUME NEW o, Follows(o), NEW u \in UnitsIn(OpenedFor(o.compared.request, o.compared.inputs)),
         NEW id \in DOMAIN o.choices, About(o, id, SeenUnit(o.mount, u))
  PROVE  \E c \in OutcomeOf(o.registry, o.compared.request, o.compared.inputs, u).conflicts : c.id = id /\ c.blocking
<1> DEFINE request == o.compared.request
           ids == o.compared.inputs
           n == o.registry
           Of(v) == OutcomeOf(n, request, ids, v)
           units == UnitsIn(OpenedFor(request, ids))
           plan == PlanOf(n, request, ids)
<1>1. Ready(request, ids) /\ CanWrite(n, request, ids, o.choices)
  BY DEF Follows
<1>2. PICK c \in plan.conflicts : c.id = id /\ c.blocking
  BY <1>1 DEF CanWrite, ResolutionsFit
<1>3. PICK v \in units : c \in Of(v).conflicts
  BY PartsByUnit
<1>4. c.id.unit = v.kind /\ c.id.asset \in Seq(Name) /\ Folded(c.id.asset) = v.key
  BY <1>3, ConflictsAbout
<1>5. o.mount \in Seq(Name)
  BY OutputFiles
<1>6. u \in Units /\ v \in Units
  BY <1>1, UnitThere
<1> HIDE DEF request, ids, n, Of, units, plan
<1>7. Folded(o.mount \o c.id.asset) = Folded(o.mount) \o v.key
  BY <1>4, <1>5, FoldedBelow
<1>8. SeenUnit(o.mount, v) = SeenUnit(o.mount, u)
  BY <1>2, <1>4, <1>7 DEF About, SeenUnit
<1>9. v = u
  BY <1>5, <1>6, <1>8, SeenUnitApart
<1> QED
  BY <1>2, <1>3, <1>9 DEF Of, request, ids, n

\* Every file of the game that a compared Pak has is in the merged Pak, and no
\* other.
LEMMA UnitsWritten ==
  ASSUME NEW o, Follows(o)
  PROVE  LET units == UNION {UnitsOfPak(pak) : pak \in ComparedPaks(o)}
             there == UnitsIn(OpenedFor(o.compared.request, o.compared.inputs))
         IN /\ UnitsOfPak(OutputPak(o)) = SeenUnits(o.mount, there)
            /\ units = SeenUnits(o.mount, there)
<1> DEFINE request == o.compared.request
           ids == o.compared.inputs
           opened == OpenedFor(request, ids)
           there == UnitsIn(opened)
           entries == EntriesFor(o.registry, request, ids, o.choices)
           units == UNION {UnitsOfPak(pak) : pak \in ComparedPaks(o)}
           m == o.mount
<1>1. Ready(request, ids) /\ CanWrite(o.registry, request, ids, o.choices) /\ m = opened.mount
  BY DEF Follows
<1>2. m \in Seq(Name) /\ ToSet(OutputPak(o).files) = AsSeen(m, entries)
  BY OutputFiles
<1>3. (\A e \in entries : e.path \in Paths) /\ UnitsOfFiles(entries) = there
  BY <1>1, EntriesOfUnit
<1>5. /\ DOMAIN ids = 1..Len(ids) /\ DOMAIN opened.paks = 1..Len(ids)
  BY <1>1, OpenedPaks
<1>6. \A i \in 1..Len(ids) :
        /\ ToSet(GamePak(ids[i]).files) = AsSeen(m, ToSet(opened.paks[i].files))
        /\ \A f \in ToSet(opened.paks[i].files) : f.path \in Paths
  BY <1>1, GameFiles
<1> HIDE DEF entries, request, ids, opened, units, m
<1>7. \A pak : UnitsOfPak(pak) = UnitsOfFiles(ToSet(pak.files))
  BY DEF UnitsOfPak, UnitsOfFiles
<1>8. ASSUME NEW files, \A f \in files : f.path \in Paths
      PROVE  UnitsOfFiles(AsSeen(m, files)) = SeenUnits(m, UnitsOfFiles(files))
  <2>1. CASE files = {}
    BY <2>1 DEF UnitsOfFiles, AsSeen, SeenUnits
  <2>2. CASE files # {}
    <3>1. PICK f \in files : UnitOf(f.path) \in Units
      BY <1>8, <2>2 DEF Units
    <3> QED
      BY <1>2, <1>8, <3>1, SeenOfUnit
  <2> QED
    BY <2>1, <2>2
<1>9. UnitsOfPak(OutputPak(o)) = SeenUnits(m, there)
  BY <1>2, <1>3, <1>7, <1>8
<1>10. \A i \in 1..Len(ids) : UnitsOfPak(GamePak(ids[i])) = SeenUnits(m, UnitsOfFiles(ToSet(opened.paks[i].files)))
  BY <1>6, <1>7, <1>8
<1>11. \A u : u \in there <=> \E i \in 1..Len(ids) : u \in UnitsOfFiles(ToSet(opened.paks[i].files))
  BY <1>5 DEF UnitsIn, UnitsOfFiles
<1>12. \A pak : pak \in ComparedPaks(o) <=> \E i \in 1..Len(ids) : pak = GamePak(ids[i])
  BY <1>5 DEF ComparedPaks, ToSet, ids
<1> HIDE DEF there
<1>13. \A t : t \in units <=> \E i \in 1..Len(ids) : t \in UnitsOfPak(GamePak(ids[i]))
  BY <1>12 DEF units
<1>14. \A us, t : t \in SeenUnits(m, us) <=> \E u \in us : t = SeenUnit(m, u)
  BY DEF SeenUnits
<1>15. \A t : t \in units <=> t \in SeenUnits(m, there)
  BY <1>10, <1>11, <1>13, <1>14
<1> QED
  BY <1>9, <1>15 DEF units, m, there, opened, request, ids

\* A unit that is not merged row by row is written as one of the compared Paks
\* has it, the chosen one where they differ.
LEMMA CopiedAsChosen ==
  ASSUME NEW o, Follows(o), NEW u \in UnitsIn(OpenedFor(o.compared.request, o.compared.inputs)),
         OutcomeOf(o.registry, o.compared.request, o.compared.inputs, u).asset.action # "MergeDatabase"
  PROVE  LET U == SeenUnit(o.mount, u) IN
         \E pak \in HoldersSeen(o, U) :
           /\ FilesSeen(OutputPak(o), U) = FilesSeen(pak, U)
           /\ \A id \in DOMAIN o.choices : About(o, id, U) => o.choices[id] = pak.id
           /\ (\E other \in HoldersSeen(o, U) : FilesSeen(other, U) # FilesSeen(pak, U)) =>
                \E id \in DOMAIN o.choices : About(o, id, U)
<1> DEFINE request == o.compared.request
           ids == o.compared.inputs
           n == o.registry
           opened == OpenedFor(request, ids)
           entries == EntriesFor(n, request, ids, o.choices)
           paks == Providers(opened, u)
           base == BaseOf(opened, u)
           result == OutcomeOf(n, request, ids, u)
           p == MadeOf(n, request, ids, o.choices, u)
           m == o.mount
           U == SeenUnit(m, u)
<1>1. Ready(request, ids) /\ CanWrite(n, request, ids, o.choices)
  BY DEF Follows
<1>2. m \in Seq(Name) /\ ToSet(OutputPak(o).files) = AsSeen(m, entries)
  BY OutputFiles
<1>3. (\A e \in entries : e.path \in Paths) /\ InUnit(entries, u) = p.files
  BY <1>1, EntriesOfUnit
<1>4. /\ u \in Units
      /\ \A k \in DOMAIN paks : \A f \in FilesOf(paks[k], u) : f.path \in Paths /\ UnitOf(f.path) = u
  BY <1>1, UnitThere
<1>5. PICK k \in DOMAIN paks : p.files = CopiedFrom(paks[k], u) /\ \A c \in result.conflicts : o.choices[c.id] = paks[k].id
  <2>1. CopiedAs(p, u, paks, o.choices, result.conflicts)
    BY <1>1, CopiedUnit
  <2> QED
    BY <2>1 DEF CopiedAs
<1>6. /\ \A pak : pak \in HoldersSeen(o, U) <=> \E j \in DOMAIN paks : pak = GamePak(paks[j].id)
      /\ \A j \in DOMAIN paks : /\ GamePak(paks[j].id).id = paks[j].id
                                /\ FilesOf(GamePak(paks[j].id), U) = AsSeen(m, FilesOf(paks[j], u))
  BY SeenHolders
<1>7. OutcomeIs(result, u, paks, base) /\ result.asset.action # "MergeDatabase"
  BY <1>1, UnitOutcome
<1>8. DOMAIN paks = 1..Len(paks) /\ Len(paks) \in Nat /\ 1 \in DOMAIN paks
  BY <1>1, BaseIsThere
<1>9. \A id \in DOMAIN o.choices : About(o, id, U) => \E c \in result.conflicts : c.id = id /\ c.blocking
  BY ChoicesAbout
<1>10. \A c \in result.conflicts : About(o, c.id, U)
  BY ConflictsAbout
<1>11. result.asset.action = "SelectOpaque" =>
         \E c \in result.conflicts : c.id \in DOMAIN o.choices
  <2> SUFFICES ASSUME result.asset.action = "SelectOpaque" PROVE \E c \in result.conflicts : c.id \in DOMAIN o.choices
    OBVIOUS
  <2>1. OneChoice(result, MakeConflict(u, SpelledAs(paks[1], u), WholeFile(paks), paks), o.choices, paks)
    BY <1>1, FileChoice
  <2> HIDE DEF result, paks
  <2> QED
    BY <2>1 DEF OneChoice
<1> HIDE DEF request, ids, n, opened, entries, paks, base, result, p, m, U
<1>12. FilesSeen(OutputPak(o), U) = AsSeen(m, FilesOf(paks[k], u))
  <2>1. FilesSeen(OutputPak(o), U) = InUnit(AsSeen(m, entries), U)
    BY <1>2 DEF FilesSeen, FilesOf, InUnit
  <2>2. InUnit(AsSeen(m, entries), SeenUnit(m, u)) = AsSeen(m, InUnit(entries, u))
    BY <1>2, <1>3, <1>4, SeenOfUnit
  <2>3. AsSeen(m, CopiedFrom(paks[k], u)) = AsSeen(m, FilesOf(paks[k], u))
    BY CopiedSeen
  <2> QED
    BY <1>3, <1>5, <2>1, <2>2, <2>3 DEF U
<1> DEFINE pak == GamePak(paks[k].id)
<1>13. pak \in HoldersSeen(o, U) /\ FilesSeen(pak, U) = AsSeen(m, FilesOf(paks[k], u)) /\ pak.id = paks[k].id
  BY <1>6 DEF FilesSeen
<1>14. \A id \in DOMAIN o.choices : About(o, id, U) => o.choices[id] = pak.id
  BY <1>5, <1>9, <1>13
<1>15. ASSUME NEW other \in HoldersSeen(o, U), FilesSeen(other, U) # FilesSeen(pak, U)
       PROVE  \E id \in DOMAIN o.choices : About(o, id, U)
  <2>1. PICK j \in DOMAIN paks : other = GamePak(paks[j].id)
    BY <1>6
  <2>2. FilesSeen(other, U) = AsSeen(m, FilesOf(paks[j], u))
    BY <1>6, <2>1 DEF FilesSeen
  <2>3. Len(paks) # 1
    BY <1>8, <1>13, <1>15, <2>2
  <2>4. ~AllAlike(u, paks)
    <3> SUFFICES ASSUME AllAlike(u, paks) PROVE FALSE
      OBVIOUS
    <3>1. Digest(paks[j], u) = Digest(paks[k], u)
      BY DEF AllAlike
    <3>2. \A f \in FilesOf(paks[j], u) \cup FilesOf(paks[k], u) : f.path \in Paths /\ UnitOf(f.path) = u
      BY <1>4
    <3> QED
      BY <1>2, <1>4, <1>13, <1>15, <2>2, <3>1, <3>2, AlikeSeen
  <2>5. result.asset.action = "SelectOpaque"
    BY <1>7, <2>3, <2>4 DEF OutcomeIs
  <2> QED
    BY <1>10, <1>11, <2>5
<1> HIDE DEF pak
<1>16. FilesSeen(OutputPak(o), U) = FilesSeen(pak, U)
  BY <1>12, <1>13
<1> QED
  BY <1>13, <1>14, <1>15, <1>16 DEF U, m

\* Two names of one unit with one extension are one.
LEMMA OneName ==
  ASSUME NEW p \in Paths, NEW q \in Paths, UnitOf(p) = UnitOf(q), Ext[Last(p)] = Ext[Last(q)]
  PROVE  Folded(p) = Folded(q)
<1> DEFINE a == BasePath(p)
           b == BasePath(q)
<1>1. p \in Seq(Name) /\ q \in Seq(Name) /\ p # << >> /\ q # << >>
  BY DEF Paths
<1>2. /\ a \in Seq(Name) /\ Len(a) = Len(p) /\ Len(p) \in Nat /\ Len(p) >= 1 /\ \A i \in 1..(Len(p) - 1) : a[i] = p[i]
      /\ Last(p) \in Name /\ a[Len(p)] = IF InPackage(p) THEN Stem[Last(p)] ELSE Last(p)
  BY <1>1, BaseOfPath
<1>3. /\ b \in Seq(Name) /\ Len(b) = Len(q) /\ Len(q) \in Nat /\ Len(q) >= 1 /\ \A i \in 1..(Len(q) - 1) : b[i] = q[i]
      /\ Last(q) \in Name /\ b[Len(q)] = IF InPackage(q) THEN Stem[Last(q)] ELSE Last(q)
  BY <1>1, BaseOfPath
<1>4. Folded(a) = Folded(b)
  BY UnitForm
<1>5. InPackage(p) <=> InPackage(q)
  BY DEF InPackage
<1> HIDE DEF a, b
<1>6. Len(Folded(a)) = Len(a) /\ \A i \in 1..Len(a) : Folded(a)[i] = FoldName[a[i]]
  BY <1>2, FoldedPath
<1>7. Len(Folded(b)) = Len(b) /\ \A i \in 1..Len(b) : Folded(b)[i] = FoldName[b[i]]
  BY <1>3, FoldedPath
<1>8. Len(p) = Len(q) /\ \A i \in 1..Len(p) : FoldName[a[i]] = FoldName[b[i]]
  BY <1>2, <1>3, <1>4, <1>6, <1>7
<1>9. Last(p) = p[Len(p)] /\ Last(q) = q[Len(q)]
  BY DEF Last
<1>10. FoldName[Last(p)] = FoldName[Last(q)]
  <2>1. FoldName[a[Len(p)]] = FoldName[b[Len(p)]]
    BY <1>2, <1>8
  <2>2. CASE InPackage(p)
    <3>1. FoldName[Stem[Last(p)]] = FoldName[Stem[Last(q)]]
      BY <1>2, <1>3, <1>5, <1>8, <2>1, <2>2
    <3> QED
      BY <1>2, <1>3, <3>1, ProfilesAssumption
  <2>3. CASE ~InPackage(p)
    BY <1>2, <1>3, <1>5, <1>8, <2>1, <2>3
  <2> QED
    BY <2>2, <2>3
<1>11. \A i \in 1..Len(p) : FoldName[p[i]] = FoldName[q[i]]
  <2> TAKE i \in 1..Len(p)
  <2>1. CASE i = Len(p)
    BY <1>8, <1>9, <1>10, <2>1
  <2>2. CASE i # Len(p)
    <3>1. i \in 1..(Len(p) - 1)
      BY <1>2, <2>2
    <3> QED
      BY <1>2, <1>3, <1>8, <3>1
  <2> QED
    BY <2>1, <2>2
<1>12. /\ Folded(p) \in Seq(Name) /\ Len(Folded(p)) = Len(p) /\ \A i \in 1..Len(p) : Folded(p)[i] = FoldName[p[i]]
  BY <1>1, FoldedPath
<1>13. /\ Folded(q) \in Seq(Name) /\ Len(Folded(q)) = Len(q) /\ \A i \in 1..Len(q) : Folded(q)[i] = FoldName[q[i]]
  BY <1>1, FoldedPath
<1>14. \A i \in 1..Len(Folded(p)) : Folded(p)[i] = Folded(q)[i]
  BY <1>8, <1>11, <1>12, <1>13
<1> QED
  BY <1>8, <1>12, <1>13, <1>14, SeqEqual

\* No two files of an open Pak have one path.
LEMMA OneFile ==
  ASSUME NEW request, NEW ids, Ready(request, ids), NEW i \in 1..Len(ids),
         NEW f \in ToSet(OpenedFor(request, ids).paks[i].files), NEW g \in ToSet(OpenedFor(request, ids).paks[i].files),
         Folded(f.path) = Folded(g.path)
  PROVE  f = g
<1> DEFINE opened == OpenedFor(request, ids)
           pak == opened.paks[i]
           files == Contents[ids[i]].files
           rest == Rest(MountsOf(ids)[i], CommonLength(MountsOf(ids)))
<1>1. /\ ids \in Seq(DOMAIN Contents) /\ Len(ids) >= 1 /\ DOMAIN pak.files = 1..Len(files) /\ DOMAIN files = 1..Len(files)
      /\ \A k \in 1..Len(files) : pak.files[k] = Rebased(rest, files[k])
  BY OpenedPaks
<1>2. rest \in Seq(Name)
  BY <1>1, SharedFolder
<1>3. /\ \A k \in 1..Len(files) : files[k].path \in Seq(Name)
      /\ \A j, k \in 1..Len(files) : Folded(files[j].path) = Folded(files[k].path) => j = k
  <2>1. ids[i] \in DOMAIN Contents
    BY <1>1, ElementOfSeq
  <2> QED
    BY <1>1, <2>1, ContentsAssumption
<1>4. f \in ToSet(pak.files) /\ g \in ToSet(pak.files)
  OBVIOUS
<1> HIDE DEF opened, pak, files, rest
<1>5. PICK j \in 1..Len(files) : f = Rebased(rest, files[j])
  BY <1>1, <1>4 DEF ToSet
<1>6. PICK k \in 1..Len(files) : g = Rebased(rest, files[k])
  BY <1>1, <1>4 DEF ToSet
<1>7. f.path = rest \o files[j].path /\ g.path = rest \o files[k].path
  BY <1>5, <1>6 DEF Rebased
<1>8. files[j].path \in Seq(Name) /\ files[k].path \in Seq(Name)
  BY <1>3
<1>9. Folded(rest) \o Folded(files[j].path) = Folded(rest) \o Folded(files[k].path)
  <2>1. /\ Folded(rest \o files[j].path) = Folded(rest) \o Folded(files[j].path)
        /\ Folded(rest \o files[k].path) = Folded(rest) \o Folded(files[k].path)
    BY <1>2, <1>8, FoldedBelow, Zenon
  <2>2. Folded(f.path) = Folded(g.path)
    OBVIOUS
  <2> QED
    BY <1>7, <2>1, <2>2, Zenon
<1>10. Folded(files[j].path) = Folded(files[k].path)
  <2>1. \A x, y \in Seq(Name) : Folded(rest) \o Folded(x) = Folded(rest) \o Folded(y) => Folded(x) = Folded(y)
    BY <1>2, SeenApart, Zenon
  <2> QED
    BY <1>8, <1>9, <2>1, Zenon
<1> QED
  BY <1>3, <1>5, <1>6, <1>10

\* A part of a database as the game sees it is the part of the Pak.
LEMMA ComponentSeen ==
  ASSUME NEW o, Follows(o), NEW u \in UnitsIn(OpenedFor(o.compared.request, o.compared.inputs)),
         NEW k \in DOMAIN Providers(OpenedFor(o.compared.request, o.compared.inputs), u),
         IsDatabaseCandidate(Providers(OpenedFor(o.compared.request, o.compared.inputs), u)[k], u),
         NEW ext \in {"uasset", "uexp"}
  PROVE  LET pak == Providers(OpenedFor(o.compared.request, o.compared.inputs), u)[k] IN
         Component(GamePak(pak.id), SeenUnit(o.mount, u), ext).blob = Component(pak, u, ext).blob
<1> DEFINE request == o.compared.request
           ids == o.compared.inputs
           opened == OpenedFor(request, ids)
           paks == Providers(opened, u)
           pak == paks[k]
           m == o.mount
           U == SeenUnit(m, u)
           S(f) == [path |-> Folded(m \o f.path), own |-> << >>, blob |-> f.blob]
           c == Component(pak, u, ext)
           d == Component(GamePak(pak.id), U, ext)
<1>1. Ready(request, ids)
  BY DEF Follows
<1>2. FilesOf(GamePak(pak.id), U) = AsSeen(m, FilesOf(pak, u))
  BY SeenHolders
<1>3. \A f \in FilesOf(pak, u) : f.path \in Paths /\ UnitOf(f.path) = u
  BY <1>1, UnitThere
<1>4. m \in Seq(Name)
  BY OutputFiles
<1>5. c \in FilesOf(pak, u) /\ Ext[Last(c.path)] = ext
  BY Components
<1>6. PICK i \in 1..Len(ids) : pak = opened.paks[i]
  <2>1. /\ HaveUnit(opened, u) \subseteq 1..Len(ids) /\ DOMAIN paks = 1..Cardinality(HaveUnit(opened, u))
        /\ \A j \in 1..Cardinality(HaveUnit(opened, u)) : \E i \in HaveUnit(opened, u) : paks[j] = opened.paks[i]
    BY <1>1, ProvidersOf
  <2>2. k \in DOMAIN paks
    OBVIOUS
  <2> HIDE DEF opened, paks
  <2> QED
    BY <2>1, <2>2
<1>7. \A f, g \in ToSet(opened.paks[i].files) : Folded(f.path) = Folded(g.path) => f = g
  BY <1>1, OneFile
<1>8. FilesOf(pak, u) \subseteq ToSet(pak.files)
  BY DEF FilesOf
<1>9. FilesOf(GamePak(pak.id), U) = {S(f) : f \in FilesOf(pak, u)}
  BY <1>2 DEF AsSeen
<1>10. d = CHOOSE f \in FilesOf(GamePak(pak.id), U) : Ext[Last(f.path)] = ext
  BY DEF Component
<1> HIDE DEF request, ids, opened, paks, pak, m, U, c, d
<1>11. \A f \in FilesOf(pak, u) : Ext[Last(S(f).path)] = Ext[Last(f.path)]
  <2> TAKE f \in FilesOf(pak, u)
  <2>1. f.path \in Seq(Name) \ {<< >>}
    BY <1>3 DEF Paths
  <2>2. Ext[Last(Folded(m \o f.path))] = Ext[Last(f.path)]
    BY <1>4, <2>1, SeenPath
  <2> QED
    BY <2>2
<1>12. S(c).blob = c.blob
  OBVIOUS
<1> HIDE DEF S
<1>13. S(c) \in FilesOf(GamePak(pak.id), U) /\ Ext[Last(S(c).path)] = ext
  BY <1>5, <1>9, <1>11
<1>14. d \in FilesOf(GamePak(pak.id), U) /\ Ext[Last(d.path)] = ext
  BY <1>10, <1>13, Zenon
<1>15. PICK f \in FilesOf(pak, u) : d = S(f)
  BY <1>9, <1>14
<1>16. Ext[Last(f.path)] = Ext[Last(c.path)] /\ f.path \in Paths /\ c.path \in Paths /\ UnitOf(f.path) = UnitOf(c.path)
  BY <1>3, <1>5, <1>11, <1>14, <1>15
<1>17. Folded(f.path) = Folded(c.path)
  BY <1>16, OneName
<1>18. f = c
  BY <1>5, <1>6, <1>7, <1>8, <1>17
<1> QED
  BY <1>12, <1>15, <1>18 DEF c, d, pak, paks, opened, request, ids, U, m

\* A set is as large as what it is renamed to, when no two have one name.
LEMMA Renamed ==
  ASSUME NEW S, IsFiniteSet(S), NEW f, DOMAIN f = S, \A x, y \in S : f[x] = f[y] => x = y,
         NEW T, \A t : t \in T <=> \E x \in S : t = f[x]
  PROVE  IsFiniteSet(T) /\ Cardinality(T) = Cardinality(S)
<1> DEFINE g == [x \in S |-> f[x]]
<1>1. g \in [S -> T]
  OBVIOUS
<1>2. \A x, y \in S : g[x] = g[y] => x = y
  OBVIOUS
<1>3. \A t \in T : \E x \in S : g[x] = t
  OBVIOUS
<1> HIDE DEF g
<1>4. g \in Surjection(S, T)
  BY <1>1, <1>3 DEF Surjection
<1>5. g \in Injection(S, T)
  BY <1>1, <1>2 DEF Injection, IsInjective
<1> QED
  BY <1>4, <1>5, FS_Surjection

\* The units of a comparison that are merged row by row, and the data tables of
\* them.
MergedThere(o) ==
  {u \in UnitsIn(OpenedFor(o.compared.request, o.compared.inputs)) :
     OutcomeOf(o.registry, o.compared.request, o.compared.inputs, u).asset.action = "MergeDatabase"}
TablesThere(o) ==
  {u \in MergedThere(o) :
     IsTable(Providers(OpenedFor(o.compared.request, o.compared.inputs), u)[BaseOf(OpenedFor(o.compared.request, o.compared.inputs), u)], u)}

\* What the plan says of a merged unit.
LEMMA MergedAssets ==
  ASSUME NEW o, Follows(o)
  PROVE  /\ IsFiniteSet(MergedThere(o)) /\ \A u \in MergedThere(o) : u \in Units /\ u.kind = "package"
         /\ \A asset : asset \in {x \in o.compared.assets : x.action = "MergeDatabase"} <=>
              \E u \in MergedThere(o) : asset = OutcomeOf(o.registry, o.compared.request, o.compared.inputs, u).asset
         /\ \A u \in MergedThere(o) :
              LET path == OutcomeOf(o.registry, o.compared.request, o.compared.inputs, u).asset.virtual_path IN
              path \in Seq(Name) /\ Folded(path) = u.key
<1> DEFINE request == o.compared.request
           ids == o.compared.inputs
           n == o.registry
           opened == OpenedFor(request, ids)
           units == UnitsIn(opened)
           Of(u) == OutcomeOf(n, request, ids, u).asset
<1>1. Ready(request, ids) /\ o.compared = PlanOf(n, request, ids)
  BY DEF Follows
<1>2. IsFiniteSet(units)
  BY <1>1, FilesFinite
<1>3. \A asset : asset \in PlanOf(n, request, ids).assets <=> \E u \in units : asset = Of(u)
  <2>1. /\ PlanOf(n, request, ids).detected = DetectedFor(n, request, ids)
        /\ \A asset : asset \in PlanOf(n, request, ids).assets <=> \E u \in units : asset = OutcomeOf(n, request, ids, u).asset
        /\ \A c : c \in PlanOf(n, request, ids).conflicts <=> \E u \in units : c \in OutcomeOf(n, request, ids, u).conflicts
        /\ \A p : p \in PreparedFor(n, request, ids, o.choices) <=>
             \E u \in units : p = MadeOf(n, request, ids, o.choices, u)
        /\ \A e : e \in EntriesFor(n, request, ids, o.choices) <=>
             \E u \in units : e \in MadeOf(n, request, ids, o.choices, u).files
    BY PartsByUnit
  <2> QED
    BY <2>1
<1>4. \A u \in units : /\ Of(u).virtual_path = SpelledAs(Providers(opened, u)[1], u)
                       /\ Folded(Of(u).virtual_path) = u.key
                       /\ Of(u).action = "MergeDatabase" => u.kind = "package"
  BY <1>1, AssetOfUnit DEF OutcomeOf
<1>5. \A u \in units : u \in Units /\ SpelledAs(Providers(opened, u)[1], u) \in Seq(Name)
  BY <1>1, UnitThere, BaseIsThere
<1>6. MergedThere(o) = {u \in units : Of(u).action = "MergeDatabase"}
  BY DEF MergedThere
<1> HIDE DEF request, ids, n, opened, units, Of
<1>7. IsFiniteSet(MergedThere(o))
  <2>1. MergedThere(o) \in SUBSET units
    BY <1>6
  <2> QED
    BY <1>2, <2>1, FS_Subset
<1>8. \A asset : asset \in {x \in o.compared.assets : x.action = "MergeDatabase"} <=> \E u \in MergedThere(o) : asset = Of(u)
  BY <1>1, <1>3, <1>6
<1>9. \A u \in MergedThere(o) : /\ u \in Units /\ u.kind = "package"
                                /\ Of(u).virtual_path \in Seq(Name) /\ Folded(Of(u).virtual_path) = u.key
  BY <1>4, <1>5, <1>6
<1> QED
  BY <1>7, <1>8, <1>9 DEF request, ids, n, Of

\* The audits are those of the merged databases that are lists.
LEMMA AuditsOf ==
  ASSUME NEW o, Follows(o)
  PROVE  \A key : key \in o.report.audits <=> \E u \in MergedThere(o) \ TablesThere(o) : key = u.key
<1> DEFINE request == o.compared.request
           ids == o.compared.inputs
           n == o.registry
           opened == OpenedFor(request, ids)
           units == UnitsIn(opened)
           Made(u) == MadeOf(n, request, ids, o.choices, u)
           table(u) == IsTable(Providers(opened, u)[BaseOf(opened, u)], u)
<1>1. /\ Ready(request, ids) /\ CanWrite(n, request, ids, o.choices)
      /\ o.report.audits = UNION {p.audited : p \in PreparedFor(n, request, ids, o.choices)}
  BY DEF Follows
<1>2. \A p : p \in PreparedFor(n, request, ids, o.choices) <=> \E u \in units : p = Made(u)
  BY PartsByUnit
<1>3. \A u \in units : u \in MergedThere(o) => AuditedFor(Made(u), table(u), u)
  BY <1>1, MergedUnit DEF MergedThere
<1>4. \A u \in units : u \notin MergedThere(o) => Made(u).audited = {}
  BY <1>1, CopiedUnit DEF MergedThere
<1>5. MergedThere(o) \subseteq units /\ \A u \in MergedThere(o) : u \in TablesThere(o) <=> table(u)
  BY DEF MergedThere, TablesThere
<1> HIDE DEF request, ids, n, opened, units, Made, table
<1>6. \A key : key \in o.report.audits <=> \E u \in units : key \in Made(u).audited
  BY <1>1, <1>2
<1>7. \A u \in MergedThere(o) : Made(u).audited = IF u \in TablesThere(o) THEN {} ELSE {u.key}
  BY <1>3, <1>5 DEF AuditedFor
<1>8. ASSUME NEW key \in o.report.audits PROVE \E u \in MergedThere(o) \ TablesThere(o) : key = u.key
  <2>1. PICK u \in units : key \in Made(u).audited
    BY <1>6
  <2>2. u \in MergedThere(o)
    BY <1>4, <2>1
  <2>3. u \notin TablesThere(o) /\ key \in {u.key}
    BY <1>7, <2>1, <2>2
  <2> QED
    BY <2>2, <2>3
<1>9. ASSUME NEW u \in MergedThere(o) \ TablesThere(o) PROVE u.key \in o.report.audits
  <2>1. u \in units /\ Made(u).audited = {u.key}
    BY <1>5, <1>7
  <2>2. u.key \in Made(u).audited
    BY <2>1
  <2> QED
    BY <1>6, <2>1, <2>2
<1> QED
  BY <1>8, <1>9

\* A unit that is merged is a data table where all Paks have a table header.
LEMMA TablesSeen ==
  ASSUME NEW o, Follows(o), NEW u \in MergedThere(o)
  PROVE  LET U == SeenUnit(o.mount, u) IN
         /\ U \in MergedUnits(o)
         /\ (\A pak \in HoldersSeen(o, U) : Header(pak, U).kind = "header") <=> u \in TablesThere(o)
<1> DEFINE request == o.compared.request
           ids == o.compared.inputs
           opened == OpenedFor(request, ids)
           paks == Providers(opened, u)
           base == BaseOf(opened, u)
           U == SeenUnit(o.mount, u)
<1>1. Ready(request, ids) /\ CanWrite(o.registry, request, ids, o.choices)
  BY DEF Follows
<1>2. u \in UnitsIn(opened) /\ OutcomeOf(o.registry, request, ids, u).asset.action = "MergeDatabase"
  BY DEF MergedThere
<1>3. /\ \A k \in DOMAIN paks : IsDatabaseCandidate(paks[k], u)
      /\ \/ \A k \in DOMAIN paks : IsTable(paks[k], u)
         \/ \A k \in DOMAIN paks : IsRows(paks[k], u)
  BY <1>1, <1>2, MergedUnit
<1>4. base \in DOMAIN paks
  BY <1>1, <1>2, BaseIsThere
<1>5. \A pak : pak \in HoldersSeen(o, U) <=> \E k \in DOMAIN paks : pak = GamePak(paks[k].id)
  BY <1>2, SeenHolders
<1>6. \A k \in DOMAIN paks : Component(GamePak(paks[k].id), U, "uasset").blob = Component(paks[k], u, "uasset").blob
  BY <1>2, <1>3, ComponentSeen
<1>7. u \in TablesThere(o) <=> IsTable(paks[base], u)
  BY DEF TablesThere
<1>8. U \in MergedUnits(o)
  <2> DEFINE asset == OutcomeOf(o.registry, request, ids, u).asset
  <2>1. /\ u.kind = "package" /\ asset \in {x \in o.compared.assets : x.action = "MergeDatabase"}
        /\ asset.virtual_path \in Seq(Name) /\ Folded(asset.virtual_path) = u.key
    BY MergedAssets
  <2>2. o.mount \in Seq(Name)
    BY OutputFiles
  <2> HIDE DEF asset
  <2>3. Folded(o.mount \o asset.virtual_path) = Folded(o.mount) \o u.key
    BY <2>1, <2>2, FoldedBelow
  <2>4. U = [kind |-> "package", key |-> Folded(o.mount \o asset.virtual_path)]
    BY <2>1, <2>3 DEF SeenUnit
  <2> QED
    BY <2>1, <2>4 DEF MergedUnits
<1> HIDE DEF request, ids, opened, paks, base, U
<1>9. (\A pak \in HoldersSeen(o, U) : Header(pak, U).kind = "header") <=> \A k \in DOMAIN paks : Header(paks[k], u).kind = "header"
  BY <1>5, <1>6 DEF Header
<1>10. CASE \A k \in DOMAIN paks : IsTable(paks[k], u)
  BY <1>4, <1>7, <1>8, <1>9, <1>10 DEF IsTable, U
<1>11. CASE \A k \in DOMAIN paks : IsRows(paks[k], u)
  <2>1. Header(paks[base], u).kind = "shell" /\ ~IsTable(paks[base], u)
    BY <1>4, <1>11 DEF IsRows, IsTable
  <2> QED
    BY <1>4, <1>7, <1>8, <1>9, <2>1 DEF U
<1> QED
  BY <1>3, <1>10, <1>11

\* The report of a merge is accepted by verify, unless it merged a data table.
LEMMA ReportOf ==
  ASSUME NEW o, Follows(o)
  PROVE  ReportAccepted([mount |-> o.mount, files |-> o.files], o.report) <=> MergedTables(o) = {}
<1> DEFINE there == MergedThere(o)
           tables == TablesThere(o)
           lists == there \ tables
           actions == {asset \in o.report.actions : asset.action = "MergeDatabase"}
           Of(u) == OutcomeOf(o.registry, o.compared.request, o.compared.inputs, u).asset
           f == [u \in there |-> Of(u)]
           g == [u \in lists |-> u.key]
<1>1. /\ o.report.mount = o.mount /\ o.report.files = o.files /\ o.report.actions = o.compared.assets
      /\ AuditsFit(o.report.audits, o.files)
  BY DEF Follows
<1>2. /\ IsFiniteSet(there) /\ \A u \in there : u \in Units /\ u.kind = "package"
      /\ \A asset : asset \in actions <=> \E u \in there : asset = Of(u)
      /\ \A u \in there : Folded(Of(u).virtual_path) = u.key
  BY <1>1, MergedAssets
<1>3. \A key : key \in o.report.audits <=> \E u \in lists : key = u.key
  BY AuditsOf
<1>4. \A u \in there : /\ SeenUnit(o.mount, u) \in MergedUnits(o)
                       /\ (\A pak \in HoldersSeen(o, SeenUnit(o.mount, u)) : Header(pak, SeenUnit(o.mount, u)).kind = "header")
                            <=> u \in tables
  BY TablesSeen
<1>5. \A U \in MergedUnits(o) : \E u \in there : U = SeenUnit(o.mount, u)
  <2> TAKE U \in MergedUnits(o)
  <2>1. PICK asset \in actions : U = [kind |-> "package", key |-> Folded(o.mount \o asset.virtual_path)]
    BY <1>1 DEF MergedUnits
  <2>2. PICK u \in there : asset = Of(u)
    BY <1>2
  <2>3. asset.virtual_path \in Seq(Name) /\ Folded(asset.virtual_path) = u.key
    BY <2>2, MergedAssets
  <2>4. o.mount \in Seq(Name)
    BY OutputFiles
  <2>5. Folded(o.mount \o asset.virtual_path) = Folded(o.mount) \o u.key
    BY <2>3, <2>4, FoldedBelow
  <2> QED
    BY <1>2, <2>1, <2>2, <2>5 DEF SeenUnit
<1>6. tables \subseteq there
  BY DEF TablesThere
<1> HIDE DEF there, tables, actions, Of
<1>7. \A u, v \in there : u.key = v.key => u = v
  <2> TAKE u, v \in there
  <2>1. u = [kind |-> u.kind, key |-> u.key] /\ v = [kind |-> v.kind, key |-> v.key] /\ u.kind = v.kind
    BY <1>2, UnitForm DEF Units
  <2> QED
    BY <2>1
<1>8. IsFiniteSet(lists) /\ Cardinality(lists) \in Nat /\ (Cardinality(lists) = Cardinality(there) <=> tables = {})
  <2>1. lists \in SUBSET there
    OBVIOUS
  <2>2. IsFiniteSet(lists) /\ (Cardinality(there) = Cardinality(lists) => there = lists)
    BY <1>2, <2>1, FS_Subset
  <2>3. there = lists <=> tables = {}
    BY <1>6
  <2> QED
    BY <2>2, <2>3, FS_CardinalityType
<1>9. Cardinality(actions) = Cardinality(there)
  <2>1. DOMAIN f = there /\ \A u, v \in there : f[u] = f[v] => u = v
    BY <1>2, <1>7
  <2>2. \A t : t \in actions <=> \E u \in there : t = f[u]
    BY <1>2
  <2> HIDE DEF f
  <2> QED
    BY <1>2, <2>1, <2>2, Renamed
<1>10. Cardinality(o.report.audits) = Cardinality(lists)
  <2>1. DOMAIN g = lists /\ \A u, v \in lists : g[u] = g[v] => u = v
    BY <1>7
  <2>2. \A t : t \in o.report.audits <=> \E u \in lists : t = g[u]
    BY <1>3
  <2> HIDE DEF g, lists
  <2> QED
    BY <1>8, <2>1, <2>2, Renamed
<1>11. MergedTables(o) = {} <=> tables = {}
  <2>1. ASSUME NEW u \in tables PROVE MergedTables(o) # {}
    BY <1>4, <1>6, <2>1 DEF MergedTables
  <2>2. ASSUME NEW U \in MergedTables(o) PROVE tables # {}
    BY <1>4, <1>5, <2>2 DEF MergedTables
  <2> QED
    BY <2>1, <2>2
<1>12. ReportAccepted([mount |-> o.mount, files |-> o.files], o.report) <=> Cardinality(o.report.audits) = Cardinality(actions)
  BY <1>1 DEF ReportAccepted, actions
<1> QED
  BY <1>8, <1>9, <1>10, <1>11, <1>12

\* What is written is what was compared when the choices were made: every file
\* of the game that a compared Pak has, each asset that is not merged row by row
\* as one of them had it, the chosen one where they differ; and verify accepts
\* the report, unless a data table was merged.
THEOREM WrittenAsCompared == Spec => []OutputIsWhatWasCompared
<1>1. ASSUME IInv PROVE OutputIsWhatWasCompared
  <2> SUFFICES ASSUME NEW o \in ToSet(output)
               PROVE  LET units == UNION {UnitsOfPak(pak) : pak \in ComparedPaks(o)}
                          written == OutputPak(o)
                      IN /\ UnitsOfPak(written) = units
                         /\ \A u \in units \ MergedUnits(o) : \E pak \in HoldersSeen(o, u) :
                              /\ FilesSeen(written, u) = FilesSeen(pak, u)
                              /\ \A id \in DOMAIN o.choices : About(o, id, u) => o.choices[id] = pak.id
                              /\ (\E other \in HoldersSeen(o, u) : FilesSeen(other, u) # FilesSeen(pak, u)) =>
                                   \E id \in DOMAIN o.choices : About(o, id, u)
                         /\ ReportAccepted([mount |-> o.mount, files |-> o.files], o.report) <=> MergedTables(o) = {}
    BY DEF OutputIsWhatWasCompared
  <2> DEFINE units == UNION {UnitsOfPak(pak) : pak \in ComparedPaks(o)}
             there == UnitsIn(OpenedFor(o.compared.request, o.compared.inputs))
  <2>1. Follows(o)
    BY <1>1, WrittenFollows
  <2>2. UnitsOfPak(OutputPak(o)) = SeenUnits(o.mount, there) /\ units = SeenUnits(o.mount, there)
    BY <2>1, UnitsWritten
  <2>3. ASSUME NEW u \in units \ MergedUnits(o)
        PROVE  \E pak \in HoldersSeen(o, u) :
                 /\ FilesSeen(OutputPak(o), u) = FilesSeen(pak, u)
                 /\ \A id \in DOMAIN o.choices : About(o, id, u) => o.choices[id] = pak.id
                 /\ (\E other \in HoldersSeen(o, u) : FilesSeen(other, u) # FilesSeen(pak, u)) =>
                      \E id \in DOMAIN o.choices : About(o, id, u)
    <3> HIDE DEF units, there
    <3>1. PICK v \in there : u = SeenUnit(o.mount, v)
      BY <2>2, <2>3 DEF SeenUnits
    <3>2. v \notin MergedThere(o)
      BY <2>1, <2>3, <3>1, TablesSeen
    <3>3. OutcomeOf(o.registry, o.compared.request, o.compared.inputs, v).asset.action # "MergeDatabase"
      BY <3>1, <3>2 DEF MergedThere, there
    <3> QED
      BY <2>1, <3>1, <3>3, CopiedAsChosen DEF there
  <2>4. ReportAccepted([mount |-> o.mount, files |-> o.files], o.report) <=> MergedTables(o) = {}
    BY <2>1, ReportOf
  <2> QED
    BY <2>2, <2>3, <2>4
<1> QED
  BY <1>1, Inductive, PTL

-----------------------------------------------------------------------------
(***************************************************************************)
(* Sizes that are added up, lists of lists                                 *)
(***************************************************************************)
\* The unit squares under the bars of a chart, which a total counts.
Under(w, d) == UNION {{i} \X (1..w[i]) : i \in d}

\* A bar stands beside the others: a chart has its squares and theirs.
LEMMA UnderOne ==
  ASSUME NEW w, NEW d, IsFiniteSet(d), NEW x \in d, \A i \in d : w[i] \in Nat
  PROVE  /\ IsFiniteSet(Under(w, d)) /\ Cardinality(Under(w, d)) \in Nat
         /\ Cardinality(Under(w, d)) = w[x] + Cardinality(Under(w, d \ {x}))
<1> DEFINE bar(i) == {i} \X (1..w[i])
           bars == {bar(i) : i \in d}
<1>1. ASSUME NEW i \in d
      PROVE  IsFiniteSet(bar(i)) /\ Cardinality(bar(i)) = w[i]
  <2>1. IsFiniteSet({i}) /\ Cardinality({i}) = 1
    BY FS_Singleton
  <2>2. IsFiniteSet(1..w[i]) /\ Cardinality(1..w[i]) = w[i]
    <3>1. w[i] \in Int /\ 1 \in Int
      OBVIOUS
    <3>2. IsFiniteSet(1..w[i]) /\ Cardinality(1..w[i]) = IF 1 > w[i] THEN 0 ELSE w[i] - 1 + 1
      BY <3>1, FS_Interval, Zenon
    <3>3. w[i] \in Nat
      OBVIOUS
    <3> QED
      BY <3>2, <3>3
  <2>3. IsFiniteSet(bar(i)) /\ Cardinality(bar(i)) = 1 * w[i]
    BY <2>1, <2>2, FS_Product
  <2> QED
    BY <2>3
<1>2. IsFiniteSet(bars)
  <2> DEFINE f == [i \in d |-> bar(i)]
  <2>1. DOMAIN f = d /\ \A b \in bars : \E i \in d : b = f[i]
    OBVIOUS
  <2> HIDE DEF f, bars
  <2> QED
    BY <2>1, ReachedIsFinite
<1>3. \A b \in bars : IsFiniteSet(b)
  BY <1>1
<1>4. Under(w, d) = UNION bars
  BY DEF Under
<1>5. IsFiniteSet(Under(w, d))
  <2> HIDE DEF bars
  <2> QED
    BY <1>2, <1>3, <1>4, FS_UNION
<1>6. Under(w, d) = bar(x) \cup Under(w, d \ {x}) /\ bar(x) \cap Under(w, d \ {x}) = {}
  BY DEF Under
<1>7. IsFiniteSet(Under(w, d \ {x}))
  <2>1. Under(w, d \ {x}) \in SUBSET Under(w, d)
    BY DEF Under
  <2> QED
    BY <1>5, <2>1, FS_Subset
<1> HIDE DEF bar
<1>8. Cardinality(Under(w, d)) = w[x] + Cardinality(Under(w, d \ {x})) - 0
  <2>1. Cardinality(bar(x) \cap Under(w, d \ {x})) = 0
    BY <1>6, FS_EmptySet
  <2> QED
    BY <1>1, <1>6, <1>7, <2>1, FS_Union
<1> QED
  BY <1>1, <1>5, <1>7, <1>8, FS_CardinalityType

\* A total is that count.
LEMMA TotalIs ==
  ASSUME NEW s, NEW n \in Nat, DOMAIN s = 1..n, \A i \in 1..n : s[i] \in Nat
  PROVE  Total(s) = Cardinality(Under(s, 1..n)) /\ Total(s) \in Nat /\ IsFiniteSet(Under(s, 1..n))
<1> DEFINE D == 1..n
           some(d) == CHOOSE x \in d : TRUE
           Is(g) == g = [d \in SUBSET D |-> IF d = {} THEN 0 ELSE s[some(d)] + g[d \ {some(d)}]]
           iter == CHOOSE g : Is(g)
           count(d) == Cardinality(Under(s, d))
           G == [d \in SUBSET D |-> count(d)]
           wrong == {Cardinality(d) : d \in {d \in SUBSET D : iter[d] # count(d)}}
<1>2. Total(s) = iter[D]
  BY DEF Total, FoldSeq, FoldFunction, FoldFunctionOnSet, MapThenFoldSet
<1>3. IsFiniteSet(D)
  BY FS_Interval
<1>4. ASSUME NEW d \in SUBSET D
      PROVE  /\ IsFiniteSet(d) /\ Cardinality(d) \in Nat
             /\ d = {} => count(d) = 0
             /\ d # {} => /\ some(d) \in d /\ s[some(d)] \in Nat /\ d \ {some(d)} \in SUBSET D
                          /\ count(d) = s[some(d)] + count(d \ {some(d)})
                          /\ Cardinality(d \ {some(d)}) = Cardinality(d) - 1
  <2>1. IsFiniteSet(d)
    BY <1>3, FS_Subset
  <2>2. Cardinality(d) \in Nat
    BY <2>1, FS_CardinalityType
  <2>3. d = {} => count(d) = 0
    <3>1. Under(s, {}) = {}
      BY DEF Under
    <3> QED
      BY <3>1, FS_EmptySet
  <2>4. d # {} => some(d) \in d /\ s[some(d)] \in Nat /\ d \ {some(d)} \in SUBSET D
    OBVIOUS
  <2>5. \A i \in d : s[i] \in Nat
    OBVIOUS
  <2> HIDE DEF some
  <2>6. d # {} => Cardinality(d \ {some(d)}) = Cardinality(d) - 1
    BY <2>1, <2>4, FS_RemoveElement
  <2>7. d # {} => count(d) = s[some(d)] + count(d \ {some(d)})
    BY <2>1, <2>4, <2>5, UnderOne
  <2> QED
    BY <2>1, <2>2, <2>3, <2>4, <2>6, <2>7
<1> HIDE DEF D, some, count
<1>5. Is(G)
  <2>1. ASSUME NEW d \in SUBSET D
        PROVE  G[d] = IF d = {} THEN 0 ELSE s[some(d)] + G[d \ {some(d)}]
    BY <1>4
  <2> QED
    BY <2>1
<1> HIDE DEF G
<1>6. Is(iter)
  BY <1>5
<1> HIDE DEF iter
<1>7. wrong = {}
  <2> SUFFICES ASSUME wrong # {} PROVE FALSE
    OBVIOUS
  <2>1. wrong \in SUBSET Nat
    BY <1>4
  <2>2. Least(wrong) \in wrong /\ \A k \in wrong : Least(wrong) <= k
    BY <2>1, LeastOf
  <2>3. PICK d \in SUBSET D : iter[d] # count(d) /\ Least(wrong) = Cardinality(d)
    BY <2>2
  <2>4. d # {}
    BY <1>4, <1>6, <2>3
  <2>5. iter[d] = s[some(d)] + iter[d \ {some(d)}]
    BY <1>6, <2>4
  <2>6. /\ count(d) = s[some(d)] + count(d \ {some(d)}) /\ Cardinality(d \ {some(d)}) = Cardinality(d) - 1
        /\ d \ {some(d)} \in SUBSET D /\ Cardinality(d) \in Nat
    BY <1>4, <2>4
  <2>7. ~(Least(wrong) <= Cardinality(d) - 1)
    BY <2>3, <2>6
  <2>8. iter[d \ {some(d)}] = count(d \ {some(d)})
    <3> SUFFICES ASSUME iter[d \ {some(d)}] # count(d \ {some(d)}) PROVE FALSE
      OBVIOUS
    <3>1. Cardinality(d \ {some(d)}) \in wrong
      BY <2>6
    <3> QED
      BY <2>2, <2>6, <2>7, <3>1
  <2> QED
    BY <2>3, <2>5, <2>6, <2>8
<1>8. iter[D] = count(D)
  BY <1>7
<1>9. IsFiniteSet(Under(s, 1..n)) /\ Cardinality(Under(s, 1..n)) \in Nat
  <2>1. CASE n = 0
    <3>1. Under(s, 1..n) = {}
      BY <2>1 DEF Under
    <3> QED
      BY <3>1, FS_EmptySet
  <2>2. CASE n # 0
    <3>1. 1 \in 1..n
      BY <2>2
    <3>2. IsFiniteSet(1..n)
      BY FS_Interval
    <3> QED
      BY <3>1, <3>2, UnderOne
  <2> QED
    BY <2>1, <2>2
<1> QED
  BY <1>2, <1>8, <1>9 DEF D, count

\* The total of two lists, one behind the other.
LEMMA TotalOfBoth ==
  ASSUME NEW v \in Seq(Nat), NEW w \in Seq(Nat)
  PROVE  Total(v) \in Nat /\ Total(w) \in Nat /\ Total(v \o w) = Total(v) + Total(w)
<1> DEFINE m == Len(v)
           n == Len(w)
           s == v \o w
           A == Under(v, 1..m)
           B == Under(w, 1..n)
           C == {<<x[1] + m, x[2]>> : x \in B}
           g == [x \in B |-> <<x[1] + m, x[2]>>]
<1>1. /\ m \in Nat /\ n \in Nat /\ m + n \in Nat
      /\ DOMAIN v = 1..m /\ DOMAIN w = 1..n /\ DOMAIN s = 1..(m + n)
      /\ \A i \in 1..m : v[i] \in Nat /\ s[i] = v[i]
      /\ \A i \in 1..n : w[i] \in Nat /\ s[i + m] = w[i]
      /\ \A i \in 1..(m + n) : s[i] \in Nat /\ (i \in 1..m \/ (i - m \in 1..n /\ s[i] = w[i - m]))
  OBVIOUS
<1> HIDE DEF m, n, s
<1>2. Total(v) = Cardinality(A) /\ Total(v) \in Nat /\ IsFiniteSet(A)
  BY <1>1, TotalIs
<1>3. Total(w) = Cardinality(B) /\ Total(w) \in Nat /\ IsFiniteSet(B)
  BY <1>1, TotalIs
<1>4. Total(s) = Cardinality(Under(s, 1..(m + n)))
  BY <1>1, TotalIs
<1>5. \A x : x \in B <=> \E i \in 1..n : \E k \in 1..w[i] : x = <<i, k>>
  BY DEF Under
<1>6. \A x : x \in A <=> \E i \in 1..m : \E k \in 1..v[i] : x = <<i, k>>
  BY DEF Under
<1>7. \A x : x \in Under(s, 1..(m + n)) <=> \E i \in 1..(m + n) : \E k \in 1..s[i] : x = <<i, k>>
  BY DEF Under
<1>8. \A x : x \in C <=> \E i \in 1..n : \E k \in 1..w[i] : x = <<i + m, k>>
  <2>1. ASSUME NEW x \in C PROVE \E i \in 1..n : \E k \in 1..w[i] : x = <<i + m, k>>
    <3>1. PICK y \in B : x = <<y[1] + m, y[2]>>
      OBVIOUS
    <3>2. PICK i \in 1..n : \E k \in 1..w[i] : y = <<i, k>>
      BY <1>5
    <3>3. PICK k \in 1..w[i] : y = <<i, k>>
      BY <3>2
    <3>4. x = <<i + m, k>>
      BY <3>1, <3>3
    <3> QED
      BY <3>4
  <2>2. ASSUME NEW i \in 1..n, NEW k \in 1..w[i] PROVE <<i + m, k>> \in C
    <3>1. <<i, k>> \in B
      BY <1>5
    <3>2. <<i, k>>[1] = i /\ <<i, k>>[2] = k
      OBVIOUS
    <3> HIDE DEF B
    <3> QED
      BY <3>1, <3>2
  <2> QED
    BY <2>1, <2>2
<1>9. IsFiniteSet(C) /\ Cardinality(C) = Cardinality(B)
  <2>1. \A x \in B : g[x] \in C
    OBVIOUS
  <2>2. \A y \in C : \E x \in B : g[x] = y
    OBVIOUS
  <2>3. ASSUME NEW x \in B, NEW y \in B, g[x] = g[y] PROVE x = y
    <3>1. PICK i \in 1..n : \E k \in 1..w[i] : x = <<i, k>>
      BY <1>5
    <3>2. PICK j \in 1..n : \E l \in 1..w[j] : y = <<j, l>>
      BY <1>5
    <3>3. PICK k \in 1..w[i] : x = <<i, k>>
      BY <3>1
    <3>4. PICK l \in 1..w[j] : y = <<j, l>>
      BY <3>2
    <3>5. <<i + m, k>> = <<j + m, l>>
      BY <2>3, <3>3, <3>4
    <3>6. i = j /\ k = l
      BY <1>1, <3>5
    <3> QED
      BY <3>3, <3>4, <3>6
  <2>4. g \in [B -> C]
    OBVIOUS
  <2> HIDE DEF g, B, C
  <2>5. g \in Bijection(B, C)
    BY <2>2, <2>3, <2>4 DEF Bijection, Injection, Surjection, IsInjective
  <2>6. ExistsBijection(B, C)
    BY <2>5 DEF ExistsBijection
  <2> QED
    BY <1>3, <2>6, FS_Bijection
<1> HIDE DEF A, B, C, g
<1>10. A \cap C = {}
  <2> SUFFICES ASSUME NEW x \in A, x \in C PROVE FALSE
    OBVIOUS
  <2>1. PICK i \in 1..m : \E k \in 1..v[i] : x = <<i, k>>
    BY <1>6
  <2>2. PICK j \in 1..n : \E l \in 1..w[j] : x = <<j + m, l>>
    BY <1>8
  <2>3. i = j + m
    BY <2>1, <2>2
  <2> QED
    BY <1>1, <2>3
<1>11. Under(s, 1..(m + n)) = A \cup C
  <2>1. ASSUME NEW x \in Under(s, 1..(m + n)) PROVE x \in A \cup C
    <3>0. PICK i \in 1..(m + n) : \E k \in 1..s[i] : x = <<i, k>>
      BY <1>7
    <3>1. PICK k \in 1..s[i] : x = <<i, k>>
      BY <3>0
    <3>2. CASE i \in 1..m
      BY <1>1, <1>6, <3>1, <3>2
    <3>3. CASE i - m \in 1..n /\ s[i] = w[i - m]
      <4>1. k \in 1..w[i - m] /\ (i - m) + m = i
        BY <1>1, <3>3
      <4>2. x = <<(i - m) + m, k>>
        BY <3>1, <4>1
      <4> QED
        BY <1>8, <3>3, <4>1, <4>2
    <3> QED
      BY <1>1, <3>2, <3>3
  <2>2. ASSUME NEW x \in A PROVE x \in Under(s, 1..(m + n))
    <3>1. PICK i \in 1..m : \E k \in 1..v[i] : x = <<i, k>>
      BY <1>6
    <3>2. i \in 1..(m + n) /\ s[i] = v[i]
      BY <1>1
    <3> QED
      BY <1>7, <3>1, <3>2
  <2>3. ASSUME NEW x \in C PROVE x \in Under(s, 1..(m + n))
    <3>1. PICK i \in 1..n : \E k \in 1..w[i] : x = <<i + m, k>>
      BY <1>8
    <3>2. i + m \in 1..(m + n) /\ s[i + m] = w[i]
      BY <1>1
    <3> QED
      BY <1>7, <3>1, <3>2
  <2> QED
    BY <2>1, <2>2, <2>3
<1>12. Cardinality(A \cup C) = Cardinality(A) + Cardinality(C) - Cardinality(A \cap C) /\ Cardinality(A \cap C) = 0
  BY <1>2, <1>9, <1>10, FS_Union, FS_EmptySet
<1>13. Total(s) = Total(v) + Total(w)
  <2>1. Total(s) = Total(v) + Total(w) - 0
    BY <1>2, <1>3, <1>4, <1>9, <1>11, <1>12, Zenon
  <2> QED
    BY <1>2, <1>3, <2>1
<1> QED
  BY <1>2, <1>3, <1>13 DEF s

\* One list behind the other has the members of both.
LEMMA Joined ==
  ASSUME NEW U, NEW a \in Seq(U), NEW b \in Seq(U)
  PROVE  /\ a \o b \in Seq(U) /\ ToSet(a \o b) = ToSet(a) \cup ToSet(b)
         /\ Len(a) \in Nat /\ Len(b) \in Nat /\ Len(a \o b) = Len(a) + Len(b)
         /\ DOMAIN a = 1..Len(a) /\ DOMAIN b = 1..Len(b) /\ DOMAIN (a \o b) = 1..(Len(a) + Len(b))
         /\ \A i \in 1..Len(a) : i \in DOMAIN (a \o b) /\ (a \o b)[i] = a[i]
         /\ \A i \in 1..Len(b) : i + Len(a) \in DOMAIN (a \o b) /\ (a \o b)[i + Len(a)] = b[i]
         /\ \A i \in DOMAIN (a \o b) : \/ i \in 1..Len(a) /\ (a \o b)[i] = a[i]
                                       \/ i - Len(a) \in 1..Len(b) /\ (a \o b)[i] = b[i - Len(a)]
<1>1. /\ Len(a) \in Nat /\ Len(b) \in Nat /\ Len(a \o b) = Len(a) + Len(b)
      /\ DOMAIN a = 1..Len(a) /\ DOMAIN b = 1..Len(b) /\ DOMAIN (a \o b) = 1..(Len(a) + Len(b))
      /\ \A i \in 1..Len(a) : (a \o b)[i] = a[i]
      /\ \A i \in 1..Len(b) : (a \o b)[i + Len(a)] = b[i]
      /\ \A i \in 1..(Len(a) + Len(b)) :
           IF i <= Len(a) THEN i \in 1..Len(a) /\ (a \o b)[i] = a[i]
           ELSE i - Len(a) \in 1..Len(b) /\ (a \o b)[i] = b[i - Len(a)]
      /\ a \o b \in Seq(U)
  OBVIOUS
<1> DEFINE s == a \o b
<1> HIDE DEF s
<1>2. /\ \A i \in 1..Len(a) : i \in DOMAIN s
      /\ \A i \in 1..Len(b) : i + Len(a) \in DOMAIN s
  BY <1>1 DEF s
<1>3. \A i \in DOMAIN s : (i \in 1..Len(a) /\ s[i] = a[i]) \/ (i - Len(a) \in 1..Len(b) /\ s[i] = b[i - Len(a)])
  BY <1>1 DEF s
<1>4. ASSUME NEW x \in ToSet(s) PROVE x \in ToSet(a) \cup ToSet(b)
  BY <1>1, <1>3 DEF ToSet
<1>5. ASSUME NEW x \in ToSet(a) PROVE x \in ToSet(s)
  BY <1>1, <1>2 DEF ToSet, s
<1>6. ASSUME NEW x \in ToSet(b) PROVE x \in ToSet(s)
  <2>1. PICK i \in 1..Len(b) : x = b[i]
    BY <1>1 DEF ToSet
  <2>2. i + Len(a) \in DOMAIN s /\ s[i + Len(a)] = x
    BY <1>1, <1>2, <2>1 DEF s
  <2> QED
    BY <2>2, Zenon DEF ToSet
<1> QED
  BY <1>1, <1>2, <1>3, <1>4, <1>5, <1>6 DEF s

\* A list of lists, as one, has the members of each.
LEMMA Flattened ==
  ASSUME NEW U, NEW seqs \in Seq(Seq(U))
  PROVE  /\ FlattenSeq(seqs) \in Seq(U)
         /\ \A x : x \in ToSet(FlattenSeq(seqs)) <=> \E i \in 1..Len(seqs) : x \in ToSet(seqs[i])
<1> DEFINE n == Len(seqs)
           Is(g, k) == g = [i \in 1..k |-> IF i = 1 THEN seqs[i] ELSE g[i - 1] \o seqs[i]]
           without == {k \in 1..n : ~ \E g : Is(g, k)}
           flatten == CHOOSE g : Is(g, n)
           Members(s, k) == s \in Seq(U) /\ \A x : x \in ToSet(s) <=> \E i \in 1..k : x \in ToSet(seqs[i])
           wrong == {k \in 1..n : ~ Members(flatten[k], k)}
<1>1. n \in Nat /\ \A i \in 1..n : seqs[i] \in Seq(U)
  OBVIOUS
<1>2. n = 0 => FlattenSeq(seqs) = seqs /\ seqs = << >>
  BY DEF FlattenSeq
<1>3. n # 0 => FlattenSeq(seqs) = flatten[n]
  BY DEF FlattenSeq
<1> HIDE DEF n
<1>4. without = {}
  <2> SUFFICES ASSUME without # {} PROVE FALSE
    OBVIOUS
  <2> HIDE DEF Is
  <2>1. without \in SUBSET Nat
    BY <1>1
  <2>2. PICK m \in without : \A k \in without : m <= k
    BY <2>1, LeastOf
  <2>3. CASE m = 1
    <3>1. Is([i \in 1..1 |-> seqs[i]], 1)
      BY DEF Is
    <3> QED
      BY <2>2, <2>3, <3>1
  <2>4. CASE m # 1
    <3>1. m \in Nat /\ m - 1 \in 1..n /\ ~(m <= m - 1)
      BY <1>1, <2>2, <2>4
    <3>2. PICK g : Is(g, m - 1)
      BY <2>2, <3>1
    <3> DEFINE h == [i \in 1..m |-> IF i = m THEN g[m - 1] \o seqs[m] ELSE g[i]]
    <3>3. ASSUME NEW i \in 1..m
          PROVE  h[i] = IF i = 1 THEN seqs[i] ELSE h[i - 1] \o seqs[i]
      <4>1. CASE i = m
        <5>1. m - 1 \in 1..m /\ m \in 1..m /\ m - 1 # m
          BY <3>1
        <5>2. h[m - 1] = g[m - 1] /\ h[m] = g[m - 1] \o seqs[m]
          BY <5>1, Zenon
        <5> HIDE DEF h
        <5> QED
          BY <2>4, <4>1, <5>2
      <4>2. CASE i # m
        <5>1. i \in 1..(m - 1) /\ h[i] = g[i]
          BY <3>1, <4>2
        <5>2. i # 1 => i - 1 \in 1..m /\ i - 1 # m /\ h[i - 1] = g[i - 1]
          BY <3>1, <4>2
        <5> HIDE DEF h
        <5>3. g[i] = IF i = 1 THEN seqs[i] ELSE g[i - 1] \o seqs[i]
          BY <3>2, <5>1 DEF Is
        <5> QED
          BY <5>1, <5>2, <5>3
      <4> QED
        BY <4>1, <4>2
    <3>4. Is(h, m)
      BY <3>3 DEF Is
    <3> QED
      BY <2>2, <3>4
  <2> QED
    BY <2>3, <2>4
<1>5. n # 0 => Is(flatten, n)
  <2> HIDE DEF Is
  <2>1. n # 0 => \E g : Is(g, n)
    <3>1. n # 0 => n \in 1..n
      BY <1>1
    <3>2. n \notin without
      BY <1>4, Zenon
    <3> QED
      BY <3>1, <3>2, Zenon
  <2> QED
    BY <2>1
<1> HIDE DEF flatten
<1>6. wrong = {}
  <2> SUFFICES ASSUME wrong # {} PROVE FALSE
    OBVIOUS
  <2>1. wrong \in SUBSET Nat
    BY <1>1
  <2> HIDE DEF Members, Is
  <2>2. PICK m \in wrong : \A k \in wrong : m <= k
    BY <2>1, LeastOf
  <2>3. m \in 1..n /\ seqs[m] \in Seq(U) /\ ~Members(flatten[m], m) /\ Is(flatten, n)
    BY <1>1, <1>5, <2>2
  <2>4. CASE m = 1
    <3>1. flatten[1] = seqs[1]
      BY <2>3, <2>4 DEF Is
    <3> QED
      BY <2>3, <2>4, <3>1 DEF Members
  <2>5. CASE m # 1
    <3>1. m \in Nat /\ m - 1 \in 1..n /\ ~(m <= m - 1)
      BY <1>1, <2>3, <2>5
    <3>2. Members(flatten[m - 1], m - 1)
      BY <2>2, <3>1
    <3>3. flatten[m] = flatten[m - 1] \o seqs[m]
      BY <2>3, <2>5 DEF Is
    <3>4. flatten[m - 1] \in Seq(U)
      BY <3>2 DEF Members
    <3>5. flatten[m] \in Seq(U) /\ ToSet(flatten[m]) = ToSet(flatten[m - 1]) \cup ToSet(seqs[m])
      <4> DEFINE a == flatten[m - 1]
                 b == seqs[m]
      <4>1. a \in Seq(U) /\ b \in Seq(U)
        BY <2>3, <3>4
      <4> HIDE DEF a, b
      <4>2. a \o b \in Seq(U) /\ ToSet(a \o b) = ToSet(a) \cup ToSet(b)
        BY <4>1, Joined
      <4> QED
        BY <3>3, <4>2 DEF a, b
    <3>6. \A i : i \in 1..m <=> i \in 1..(m - 1) \/ i = m
      BY <3>1
    <3>7. \A x : x \in ToSet(flatten[m]) <=> \E i \in 1..m : x \in ToSet(seqs[i])
      BY <3>2, <3>5, <3>6, Zenon DEF Members
    <3> QED
      BY <2>3, <3>5, <3>7 DEF Members
  <2> QED
    BY <2>4, <2>5
<1>7. CASE n = 0
  <2>1. FlattenSeq(seqs) = << >>
    BY <1>2, <1>7
  <2>2. \A i : i \notin 1..n
    BY <1>7
  <2>3. ToSet(FlattenSeq(seqs)) = {} /\ FlattenSeq(seqs) \in Seq(U)
    BY <2>1 DEF ToSet
  <2> QED
    BY <2>2, <2>3 DEF n
<1>8. CASE n # 0
  <2> HIDE DEF Members
  <2>1. Members(flatten[n], n)
    BY <1>1, <1>6, <1>8
  <2> USE DEF Members
  <2> QED
    BY <1>3, <1>8, <2>1 DEF n
<1> QED
  BY <1>7, <1>8

\* What is picked from a list is what is at these places.
LEMMA PickedIs ==
  ASSUME NEW U, NEW s \in Seq(U), NEW S \in SUBSET (1..Len(s))
  PROVE  Picked(s, S) \in Seq(U) /\ \A x : x \in ToSet(Picked(s, S)) <=> \E i \in S : x = s[i]
<1> DEFINE n == Cardinality(S)
           p == Picked(s, S)
<1>1. Len(s) \in Nat /\ S \in SUBSET Nat /\ \A i \in S : s[i] \in U
  OBVIOUS
<1>2. IsFiniteSet(1..Len(s))
  BY <1>1, FS_Interval
<1>3. IsFiniteSet(S) /\ n \in Nat
  BY <1>2, FS_Subset, FS_CardinalityType
<1>4. p = [k \in 1..n |-> s[Nth(S, k)]]
  BY DEF Picked
<1>5. (\A k \in 1..n : Nth(S, k) \in S) /\ (\A i \in S : \E k \in 1..n : Nth(S, k) = i)
  BY <1>1, <1>3, NthOf
<1> HIDE DEF n, p
<1>6. p \in Seq(U)
  <2>1. \A k \in 1..n : s[Nth(S, k)] \in U
    BY <1>1, <1>5
  <2> QED
    BY <1>3, <1>4, <2>1
<1>7. ASSUME NEW x \in ToSet(p) PROVE \E i \in S : x = s[i]
  BY <1>4, <1>5, <1>7 DEF ToSet
<1>8. ASSUME NEW i \in S PROVE s[i] \in ToSet(p)
  <2>1. PICK k \in 1..n : Nth(S, k) = i
    BY <1>5
  <2>2. k \in DOMAIN p /\ p[k] = s[i]
    BY <1>4, <2>1
  <2> QED
    BY <2>2, Zenon DEF ToSet
<1> QED
  BY <1>6, <1>7, <1>8 DEF p

\* The first entries have every text that is wanted and not known.
LEMMA FirstOfEachHas ==
  ASSUME NEW U, NEW s \in Seq(U), NEW known
  PROVE  /\ FirstOfEach(s, known) \in Seq(U)
         /\ \A e \in ToSet(s) : e.text \in known \/ \E a \in ToSet(FirstOfEach(s, known)) : a.text = e.text
<1> DEFINE S == {i \in DOMAIN s : s[i].text \notin known /\ \A j \in 1..(i - 1) : s[j].text # s[i].text}
<1>1. DOMAIN s = 1..Len(s) /\ Len(s) \in Nat /\ S \in SUBSET (1..Len(s))
  OBVIOUS
<1>2. FirstOfEach(s, known) = Picked(s, S)
  BY DEF FirstOfEach
<1>3. ASSUME NEW e \in ToSet(s), e.text \notin known PROVE \E i \in S : s[i].text = e.text
  <2> DEFINE T == {i \in DOMAIN s : s[i].text = e.text}
  <2>1. T \in SUBSET Nat /\ T # {}
    BY <1>1 DEF ToSet
  <2>2. PICK m \in T : \A k \in T : m <= k
    BY <2>1, LeastOf
  <2>3. m \in DOMAIN s /\ s[m].text = e.text
    BY <2>2
  <2>4. \A j \in 1..(m - 1) : j \in DOMAIN s /\ ~(m <= j)
    BY <1>1, <2>3
  <2>5. \A j \in 1..(m - 1) : s[j].text # s[m].text
    BY <2>2, <2>3, <2>4
  <2>6. m \in S
    BY <1>3, <2>3, <2>5
  <2> QED
    BY <2>3, <2>6
<1> HIDE DEF S
<1>4. Picked(s, S) \in Seq(U) /\ \A x : x \in ToSet(Picked(s, S)) <=> \E i \in S : x = s[i]
  BY <1>1, PickedIs
<1> QED
  BY <1>2, <1>3, <1>4

-----------------------------------------------------------------------------
(***************************************************************************)
(* Names and fields of data tables                                         *)
(***************************************************************************)
\* The header of a merged table has the names of the base, and more behind them.
Grown(h, g) ==
  /\ Len(h.names) \in Nat /\ Len(g.names) \in Nat /\ Len(h.names) <= Len(g.names)
  /\ \A i \in 1..Len(h.names) : g.names[i] = h.names[i]
  /\ g.imports = h.imports

\* A name that fits in a header means the same in one that grew out of it.
LEMMA NameStays ==
  ASSUME NEW h, NEW g, Grown(h, g), NEW n, Refers(h, n)
  PROVE  Refers(g, n) /\ Text(g, n) = Text(h, n) /\ NameOf(g, n) = NameOf(h, n)
BY DEF Grown, Refers, Text, NameOf

\* A field of the base that nobody replaces still fits.
LEMMA FieldStays ==
  ASSUME NEW h, NEW g, Grown(h, g), NEW f, FieldFits(h, f)
  PROVE  FieldFits(g, f) /\ Text(g, f.name) = Text(h, f.name)
<1>1. /\ Refers(h, f.name) /\ Refers(h, f.type) /\ Text(h, f.name) # "None"
      /\ \A i \in DOMAIN f.tag : f.tag[i].kind = "name" => Refers(h, f.tag[i].at)
      /\ \A i \in DOMAIN f.value : f.value[i].kind = "name" => Refers(h, f.value[i].at)
      /\ CellKinds(f.tag) = TagKinds(Text(h, f.type))
      /\ ValueFits(Text(h, f.type), f.size, f.value)
  BY Zenon DEF FieldFits
<1>2. /\ Refers(g, f.name) /\ Text(g, f.name) = Text(h, f.name)
      /\ Refers(g, f.type) /\ Text(g, f.type) = Text(h, f.type)
  BY <1>1, NameStays
<1>3. \A i \in DOMAIN f.tag : f.tag[i].kind = "name" => Refers(g, f.tag[i].at)
  BY <1>1, NameStays
<1>4. \A i \in DOMAIN f.value : f.value[i].kind = "name" => Refers(g, f.value[i].at)
  BY <1>1, NameStays
<1> QED
  BY <1>1, <1>2, <1>3, <1>4, Zenon DEF FieldFits

\* The names that a field refers to.
CellSites(cells) == {c.at : c \in {x \in ToSet(cells) : x.kind = "name"}}
FieldSites(f) == {f.name, f.type} \cup CellSites(f.tag) \cup CellSites(f.value)

\* The copy of a field looks at each of them.
LEMMA SitesOfField ==
  ASSUME NEW f, FieldShape(f)
  PROVE  /\ NamesOfField(f) \in Seq(FName)
         /\ \A n : n \in ToSet(NamesOfField(f)) <=> n \in FieldSites(f)
<1> DEFINE cells == f.tag \o f.value
           K == {i \in DOMAIN cells : cells[i].kind = "name"}
           C == {c \in ToSet(f.tag) \cup ToSet(f.value) : CellShape(c)}
           names == Picked(cells, K)
           list == [i \in DOMAIN names |-> names[i].at]
<1>1. /\ f.name \in FName /\ f.type \in FName
      /\ f.tag \in Seq(ToSet(f.tag)) /\ \A i \in DOMAIN f.tag : CellShape(f.tag[i])
      /\ f.value \in Seq(ToSet(f.value)) /\ \A i \in DOMAIN f.value : CellShape(f.value[i])
  <2>1. {f.name, f.type} \subseteq FName
        /\ \A cs \in {f.tag, f.value} : cs \in Seq(ToSet(cs)) /\ \A i \in DOMAIN cs : CellShape(cs[i])
    BY Zenon DEF FieldShape
  <2> QED
    BY <2>1, Zenon
<1>2. f.tag \in Seq(C) /\ f.value \in Seq(C)
  <2>1. \A i \in DOMAIN f.tag : f.tag[i] \in C
    BY <1>1, Zenon DEF ToSet
  <2>2. \A i \in DOMAIN f.value : f.value[i] \in C
    BY <1>1, Zenon DEF ToSet
  <2> HIDE DEF C
  <2> QED
    BY <1>1, <2>1, <2>2
<1>3. NamesOfField(f) = <<f.name, f.type>> \o list
  BY DEF NamesOfField
<1>4. \A c \in C : c.kind = "name" => c.at \in FName
  BY DEF CellShape
<1> HIDE DEF C
<1>5. cells \in Seq(C) /\ ToSet(cells) = ToSet(f.tag) \cup ToSet(f.value)
  BY <1>2, Joined
<1>6. CellSites(cells) = CellSites(f.tag) \cup CellSites(f.value)
  <2> HIDE DEF cells
  <2> QED
    BY <1>5 DEF CellSites
<1> HIDE DEF cells
<1>7. names \in Seq(C) /\ \A x : x \in ToSet(names) <=> \E i \in K : x = cells[i]
  <2>1. K \in SUBSET (1..Len(cells))
    BY <1>5
  <2> HIDE DEF K
  <2> QED
    BY <1>5, <2>1, PickedIs
<1>8. \A x : x \in ToSet(names) <=> x \in ToSet(cells) /\ x.kind = "name"
  BY <1>7 DEF ToSet
<1> HIDE DEF names, K
<1>9. DOMAIN names = 1..Len(names) /\ Len(names) \in Nat /\ \A i \in DOMAIN names : names[i] \in C
  BY <1>7
<1>10. \A i \in DOMAIN names : names[i] \in ToSet(names)
  BY DEF ToSet
<1>11. list \in Seq(FName)
  <2>1. \A i \in DOMAIN names : names[i].at \in FName
    BY <1>4, <1>8, <1>9, <1>10
  <2> QED
    BY <1>9, <2>1
<1>12. \A n : n \in ToSet(list) <=> n \in CellSites(cells)
  <2>1. ASSUME NEW n \in ToSet(list) PROVE n \in CellSites(cells)
    <3>1. PICK i \in DOMAIN names : n = names[i].at
      BY DEF ToSet
    <3> QED
      BY <1>8, <1>10, <3>1 DEF CellSites
  <2>2. ASSUME NEW n \in CellSites(cells) PROVE n \in ToSet(list)
    <3>1. PICK c \in ToSet(cells) : c.kind = "name" /\ n = c.at
      BY DEF CellSites
    <3>2. PICK i \in DOMAIN names : names[i] = c
      BY <1>8, <3>1, Zenon DEF ToSet
    <3>3. i \in DOMAIN list /\ list[i] = n
      BY <3>1, <3>2
    <3> QED
      BY <3>3, Zenon DEF ToSet
  <2> QED
    BY <2>1, <2>2
<1> HIDE DEF list
<1>13. <<f.name, f.type>> \in Seq(FName) /\ ToSet(<<f.name, f.type>>) = {f.name, f.type}
  BY <1>1 DEF ToSet
<1>14. <<f.name, f.type>> \o list \in Seq(FName) /\ ToSet(<<f.name, f.type>> \o list) = {f.name, f.type} \cup ToSet(list)
  <2> DEFINE two == <<f.name, f.type>>
  <2>1. two \in Seq(FName) /\ ToSet(two) = {f.name, f.type}
    BY <1>13
  <2> HIDE DEF two
  <2>2. two \o list \in Seq(FName) /\ ToSet(two \o list) = ToSet(two) \cup ToSet(list)
    BY <1>11, <2>1, Joined
  <2> QED
    BY <2>1, <2>2 DEF two
<1> QED
  BY <1>3, <1>6, <1>12, <1>14 DEF FieldSites

\* The index of a text that is there, and of the first import of an identity.
IsList(s) == Len(s) \in Nat /\ DOMAIN s = 1..Len(s)
HasText(names, text) == \E i \in DOMAIN names : names[i].text = text

\* A text that a list of names has is found in it.
LEMMA FirstIndexIs ==
  ASSUME NEW names, IsList(names), NEW text, HasText(names, text)
  PROVE  FirstIndex(names, text) \in 1..Len(names) /\ names[FirstIndex(names, text)].text = text
<1> DEFINE T == {i \in DOMAIN names : names[i].text = text}
<1>1. T \in SUBSET Nat /\ T # {} /\ DOMAIN names = 1..Len(names) /\ Len(names) \in Nat
  BY DEF IsList, HasText
<1>2. PICK m \in T : \A k \in T : m <= k
  BY <1>1, LeastOf
<1>3. m \in DOMAIN names /\ names[m].text = text /\ \A j \in 1..(m - 1) : j \in DOMAIN names /\ ~(m <= j)
  BY <1>1, <1>2
<1>4. \A j \in 1..(m - 1) : names[j].text # text
  BY <1>2, <1>3
<1>5. \E i \in DOMAIN names : names[i].text = text /\ \A j \in 1..(i - 1) : names[j].text # text
  BY <1>3, <1>4
<1>6. FirstIndex(names, text) \in DOMAIN names /\ names[FirstIndex(names, text)].text = text
  BY <1>5 DEF FirstIndex
<1> QED
  BY <1>1, <1>6

\* An import that a header has is found in it.
LEMMA FirstImportIs ==
  ASSUME NEW h, IsList(h.imports), NEW identity, \E j \in DOMAIN h.imports : h.imports[j].identity = identity
  PROVE  FirstImport(h, identity) \in 1..Len(h.imports) /\ h.imports[FirstImport(h, identity)].identity = identity
<1> DEFINE T == {i \in DOMAIN h.imports : h.imports[i].identity = identity}
<1>1. T \in SUBSET Nat /\ T # {} /\ DOMAIN h.imports = 1..Len(h.imports) /\ Len(h.imports) \in Nat
  BY DEF IsList
<1>2. PICK m \in T : \A k \in T : m <= k
  BY <1>1, LeastOf
<1>3. m \in DOMAIN h.imports /\ h.imports[m].identity = identity
      /\ \A j \in 1..(m - 1) : j \in DOMAIN h.imports /\ ~(m <= j)
  BY <1>1, <1>2
<1>4. \A j \in 1..(m - 1) : h.imports[j].identity # identity
  BY <1>2, <1>3
<1>5. \E i \in DOMAIN h.imports : h.imports[i].identity = identity /\ \A j \in 1..(i - 1) : h.imports[j].identity # identity
  BY <1>3, <1>4
<1>6. FirstImport(h, identity) \in DOMAIN h.imports /\ h.imports[FirstImport(h, identity)].identity = identity
  BY <1>5 DEF FirstImport
<1> QED
  BY <1>1, <1>6

\* A copied name refers to the same text.
LEMMA NameRetargeted ==
  ASSUME NEW from, NEW g, IsList(g.names), NEW n \in FName, Refers(from, n), HasText(g.names, Text(from, n))
  PROVE  LET r == RetargetedName(from, g.names, n) IN
         r \in FName /\ Refers(g, r) /\ Text(g, r) = Text(from, n) /\ NameOf(g, r) = NameOf(from, n)
<1> DEFINE k == FirstIndex(g.names, Text(from, n))
           r == RetargetedName(from, g.names, n)
<1>1. k \in 1..Len(g.names) /\ g.names[k].text = Text(from, n) /\ Len(g.names) \in Nat
  BY FirstIndexIs DEF IsList
<1>2. r = [n EXCEPT !.index = k]
  BY DEF RetargetedName
<1> HIDE DEF k, r
<1>3. r \in FName /\ r.index = k /\ r.number = n.number
  BY <1>1, <1>2 DEF FName
<1>4. Refers(g, r) /\ Text(g, r) = Text(from, n)
  BY <1>1, <1>3 DEF Refers, Text
<1> QED
  BY <1>3, <1>4 DEF r, NameOf

\* A copied cell means the same and takes as much room.
CellCopied(from, g, c, r) ==
  /\ r.kind = c.kind /\ CellSize(r) = CellSize(c) /\ CellMeaning(g, r) = CellMeaning(from, c)
  /\ c.kind = "name" => Refers(g, r.at)
  /\ c.kind = "data" => r = c
CanCopyCell(from, to, g, c) ==
  /\ c.kind = "name" => Refers(from, c.at) /\ HasText(g.names, Text(from, c.at))
  /\ c.kind = "import" /\ c.import # 0 =>
       /\ ImportedAs(from, c.import) # << >>
       /\ \E j \in DOMAIN to.imports : to.imports[j].identity = ImportedAs(from, c.import)[1]

\* A cell that is copied fits where it goes, and means what it meant.
LEMMA CellRetargeted ==
  ASSUME NEW from, NEW to, NEW g, IsList(g.names), IsList(to.imports), g.imports = to.imports,
         NEW c, CellShape(c), CanCopyCell(from, to, g, c)
  PROVE  CellCopied(from, g, c, RetargetedCell(from, to, g.names, c))
<1> DEFINE r == RetargetedCell(from, to, g.names, c)
<1>1. CASE c.kind = "name"
  <2> DEFINE m == RetargetedName(from, g.names, c.at)
  <2>1. c = [kind |-> "name", at |-> c.at] /\ c.at \in FName
    BY <1>1 DEF CellShape
  <2>2. Refers(g, m) /\ NameOf(g, m) = NameOf(from, c.at)
    BY <1>1, <2>1, NameRetargeted DEF CanCopyCell
  <2>3. r = [c EXCEPT !.at = m]
    BY <1>1 DEF RetargetedCell
  <2> HIDE DEF m, r
  <2>4. r = [kind |-> "name", at |-> m]
    BY <2>1, <2>3
  <2>5. r.kind = "name" /\ r.at = m
    BY <2>4
  <2>6. CellSize(r) = CellSize(c)
    BY <1>1, <2>5 DEF CellSize
  <2>7. CellMeaning(g, r) = CellMeaning(from, c)
    BY <1>1, <2>2, <2>5 DEF CellMeaning
  <2> QED
    BY <1>1, <2>2, <2>5, <2>6, <2>7 DEF r, CellCopied
<1>2. CASE c.kind = "import" /\ c.import # 0
  <2> DEFINE identity == ImportedAs(from, c.import)[1]
             k == FirstImport(to, identity)
  <2>1. c = [kind |-> "import", import |-> c.import] /\ c.import \in Int
    BY <1>2 DEF CellShape
  <2>2. k \in 1..Len(to.imports) /\ to.imports[k].identity = identity
    BY <1>2, FirstImportIs DEF CanCopyCell
  <2>3. ImportedAs(from, c.import) = <<identity>>
    BY <1>2 DEF CanCopyCell, ImportedAs
  <2>4. r = [c EXCEPT !.import = -k]
    BY <1>2 DEF RetargetedCell
  <2> HIDE DEF k, r, identity
  <2>5. r = [kind |-> "import", import |-> -k]
    BY <2>1, <2>4
  <2>6. r.kind = "import" /\ r.import = -k
    BY <2>5
  <2>7. ImportedAs(g, r.import) = <<identity>>
    <3>1. -(-k) = k /\ k \in 1..Len(g.imports)
      BY <2>2 DEF IsList
    <3> QED
      BY <2>2, <2>6, <3>1 DEF ImportedAs
  <2>8. CellMeaning(g, r) = CellMeaning(from, c)
    <3>1. <<identity>> # << >>
      OBVIOUS
    <3> QED
      BY <1>2, <2>3, <2>6, <2>7, <3>1 DEF CellMeaning
  <2>9. CellSize(r) = CellSize(c)
    BY <1>2, <2>6 DEF CellSize
  <2> QED
    BY <1>2, <2>6, <2>8, <2>9 DEF r, CellCopied
<1>3. CASE c.kind \notin {"name", "import"} \/ (c.kind = "import" /\ c.import = 0)
  <2>1. r = c
    BY <1>3 DEF RetargetedCell
  <2>2. CellMeaning(g, c) = CellMeaning(from, c)
    <3>1. CASE c.kind \notin {"name", "import"}
      BY <3>1 DEF CellMeaning
    <3>2. CASE c.kind = "import" /\ c.import = 0
      <4>1. -c.import = 0
        <5> DEFINE minus == -c.import
        <5>1. ASSUME NEW x \in Int PROVE -x = 0 - x
          OBVIOUS
        <5>2. c.import \in Int
          BY <3>2 DEF CellShape
        <5>3. minus = 0 - c.import
          BY <5>1, <5>2, Zenon
        <5> HIDE DEF minus
        <5>4. minus = 0
          BY <3>2, <5>3
        <5> QED
          BY <5>4 DEF minus
      <4>2. ImportedAs(from, c.import) = << >> /\ ImportedAs(g, c.import) = << >>
        BY <4>1 DEF ImportedAs
      <4> QED
        BY <3>2, <4>2 DEF CellMeaning
    <3> QED
      BY <1>3, <3>1, <3>2
  <2> HIDE DEF r
  <2> QED
    BY <1>3, <2>1, <2>2 DEF r, CellCopied
<1> QED
  BY <1>1, <1>2, <1>3

\* What a copied field is made of.
LEMMA RetargetedParts ==
  ASSUME NEW from, NEW to, NEW names, NEW f, FieldShape(f)
  PROVE  LET r == Retargeted(from, to, names, f) IN
         /\ r.name = RetargetedName(from, names, f.name) /\ r.type = RetargetedName(from, names, f.type)
         /\ r.size = f.size
         /\ r.tag = [i \in DOMAIN f.tag |-> RetargetedCell(from, to, names, f.tag[i])]
         /\ r.value = [i \in DOMAIN f.value |-> RetargetedCell(from, to, names, f.value[i])]
<1>1. f = [name |-> f.name, type |-> f.type, tag |-> f.tag, size |-> f.size, value |-> f.value]
  BY DEF FieldShape
<1> DEFINE a == RetargetedName(from, names, f.name)
           b == RetargetedName(from, names, f.type)
           t == [i \in DOMAIN f.tag |-> RetargetedCell(from, to, names, f.tag[i])]
           v == [i \in DOMAIN f.value |-> RetargetedCell(from, to, names, f.value[i])]
           r == Retargeted(from, to, names, f)
<1>2. r = [f EXCEPT !.name = a, !.type = b, !.tag = t, !.value = v]
  <2>1. [f EXCEPT !.name = RetargetedName(from, names, @)].type = f.type
        /\ [f EXCEPT !.name = RetargetedName(from, names, @), !.type = RetargetedName(from, names, @)].tag = f.tag
    BY <1>1
  <2> QED
    BY <1>1 DEF Retargeted
<1> HIDE DEF a, b, t, v, r
<1>3. r = [name |-> a, type |-> b, tag |-> t, size |-> f.size, value |-> v]
  BY <1>1, <1>2
<1>4. r.name = a /\ r.type = b /\ r.tag = t /\ r.size = f.size /\ r.value = v
  BY <1>3
<1> QED
  BY <1>4, Zenon DEF a, b, t, v, r

\* What a value is made of, by its type.
ValueArms(type, size, kinds, counted) ==
  CASE type = "BoolProperty" -> kinds = << >>
    [] type \in DOMAIN FixedSize -> kinds = <<"data">> /\ size = FixedSize[type]
    [] type = "ByteProperty" -> kinds = IF size = FNameSize THEN <<"name">> ELSE <<"data">>
    [] type \in {"NameProperty", "EnumProperty"} -> kinds = <<"name">>
    [] type = "StrProperty" -> kinds = <<"data">>
    [] type = "SoftObjectProperty" -> kinds = <<"name", "data">>
    [] type = "ObjectProperty" -> kinds = <<"import">>
    [] type = "ArrayProperty" -> counted
    [] OTHER -> FALSE

\* A value whose cells are copied is one of the same type and size.
LEMMA SameValueFits ==
  ASSUME NEW type, NEW size, NEW v, NEW w, IsList(v), ValueFits(type, size, v), DOMAIN w = DOMAIN v,
         \A i \in DOMAIN v : w[i].kind = v[i].kind /\ CellSize(w[i]) = CellSize(v[i]) /\ (v[i].kind = "data" => w[i] = v[i])
  PROVE  ValueFits(type, size, w)
<1>1. CellKinds(w) = CellKinds(v)
  BY DEF CellKinds
<1>2. ValueSize(w) = ValueSize(v)
  <2>1. [i \in DOMAIN w |-> CellSize(w[i])] = [i \in DOMAIN v |-> CellSize(v[i])]
    OBVIOUS
  <2> QED
    BY <2>1, Zenon DEF ValueSize
<1> DEFINE kinds == CellKinds(v)
           counted(x) == /\ CellKinds(x) # << >> /\ CellKinds(x)[1] = "data"
                         /\ Len(CellKinds(x)) = x[1].data + 1 /\ \A i \in 2..Len(CellKinds(x)) : CellKinds(x)[i] = "name"
<1>3. kinds # << >> /\ kinds[1] = "data" => w[1] = v[1]
  <2>1. Len(v) \in Nat /\ DOMAIN v = 1..Len(v) /\ kinds = [i \in 1..Len(v) |-> v[i].kind]
    BY DEF IsList, CellKinds
  <2>2. kinds # << >> => 1 \in DOMAIN v
    <3>1. Len(v) = 0 => kinds = << >>
      BY <2>1
    <3> QED
      BY <2>1, <3>1
  <2>3. 1 \in DOMAIN v => kinds[1] = v[1].kind
    BY <2>1
  <2> HIDE DEF kinds
  <2> QED
    BY <2>2, <2>3
<1>4. counted(w) = counted(v)
  BY <1>1, <1>3
<1>5. \A x : ValueFits(type, size, x) <=> size = ValueSize(x) /\ ValueArms(type, size, CellKinds(x), counted(x))
  BY Zenon DEF ValueFits, ValueArms
<1> HIDE DEF counted
<1> QED
  BY <1>1, <1>2, <1>4, <1>5, Zenon

\* A copied field is one of the merged table, and means what it meant.
FieldCopied(image, merged, f, r) ==
  /\ FieldFits(merged.header, r) /\ Text(merged.header, r.name) = Text(image.header, f.name)
  /\ Meaning(merged, r) = Meaning(image, f)
CanCopyField(image, to, g, f) ==
  /\ FieldShape(f) /\ FieldFits(image.header, f) /\ CanRetarget(image.header, to, f)
  /\ \A n \in FieldSites(f) : HasText(g.names, Text(image.header, n))

\* A field that is copied fits where it goes, and means what it meant.
LEMMA FieldRetargeted ==
  ASSUME NEW image, NEW to, NEW merged, IsList(merged.header.names), IsList(to.imports),
         merged.header.imports = to.imports, NEW f, CanCopyField(image, to, merged.header, f)
  PROVE  FieldCopied(image, merged, f, Retargeted(image.header, to, merged.header.names, f))
<1> DEFINE from == image.header
           g == merged.header
           r == Retargeted(from, to, g.names, f)
<1>1. /\ f.name \in FName /\ f.type \in FName
      /\ f.tag \in Seq(ToSet(f.tag)) /\ \A i \in DOMAIN f.tag : CellShape(f.tag[i])
      /\ f.value \in Seq(ToSet(f.value)) /\ \A i \in DOMAIN f.value : CellShape(f.value[i])
  <2>1. {f.name, f.type} \subseteq FName
        /\ \A cs \in {f.tag, f.value} : cs \in Seq(ToSet(cs)) /\ \A i \in DOMAIN cs : CellShape(cs[i])
    BY Zenon DEF FieldShape, CanCopyField
  <2> QED
    BY <2>1, Zenon
<1>2. /\ Refers(from, f.name) /\ Refers(from, f.type) /\ Text(from, f.name) # "None"
      /\ \A i \in DOMAIN f.tag : f.tag[i].kind = "name" => Refers(from, f.tag[i].at)
      /\ \A i \in DOMAIN f.value : f.value[i].kind = "name" => Refers(from, f.value[i].at)
      /\ CellKinds(f.tag) = TagKinds(Text(from, f.type))
      /\ ValueFits(Text(from, f.type), f.size, f.value)
  BY Zenon DEF FieldFits, CanCopyField
<1>3. /\ HasText(g.names, Text(from, f.name)) /\ HasText(g.names, Text(from, f.type))
      /\ \A i \in DOMAIN f.tag : f.tag[i].kind = "name" => HasText(g.names, Text(from, f.tag[i].at))
      /\ \A i \in DOMAIN f.value : f.value[i].kind = "name" => HasText(g.names, Text(from, f.value[i].at))
  <2>1. f.name \in FieldSites(f) /\ f.type \in FieldSites(f)
    BY DEF FieldSites
  <2>2. ASSUME NEW i \in DOMAIN f.tag, f.tag[i].kind = "name" PROVE f.tag[i].at \in FieldSites(f)
    BY <2>2 DEF FieldSites, CellSites, ToSet
  <2>3. ASSUME NEW i \in DOMAIN f.value, f.value[i].kind = "name" PROVE f.value[i].at \in FieldSites(f)
    BY <2>3 DEF FieldSites, CellSites, ToSet
  <2> QED
    BY <2>1, <2>2, <2>3, Zenon DEF CanCopyField
<1>4. /\ r.name = RetargetedName(from, g.names, f.name) /\ r.type = RetargetedName(from, g.names, f.type)
      /\ r.size = f.size
      /\ r.tag = [i \in DOMAIN f.tag |-> RetargetedCell(from, to, g.names, f.tag[i])]
      /\ r.value = [i \in DOMAIN f.value |-> RetargetedCell(from, to, g.names, f.value[i])]
  BY RetargetedParts DEF CanCopyField
<1> HIDE DEF from, r, g
<1>5. /\ Refers(g, r.name) /\ Text(g, r.name) = Text(from, f.name)
      /\ Refers(g, r.type) /\ Text(g, r.type) = Text(from, f.type)
  BY <1>1, <1>2, <1>3, <1>4, NameRetargeted DEF g
<1>6. ASSUME NEW i \in DOMAIN f.tag
      PROVE  CellCopied(from, g, f.tag[i], r.tag[i])
  <2>1. f.tag[i].kind \in {"data", "name"}
    <3>1. f.tag[i].kind = TagKinds(Text(from, f.type))[i] /\ i \in DOMAIN TagKinds(Text(from, f.type))
      BY <1>2 DEF CellKinds
    <3> DEFINE kinds == TagKinds(Text(from, f.type))
    <3>2. kinds = <<"data">> \/ kinds = <<"name">> \/ kinds = << >>
      BY DEF TagKinds
    <3> HIDE DEF kinds
    <3>3. i \in DOMAIN kinds => kinds[i] \in {"data", "name"}
      BY <3>2
    <3> QED
      BY <3>1, <3>3 DEF kinds
  <2>2. CanCopyCell(from, to, g, f.tag[i])
    BY <1>2, <1>3, <2>1 DEF CanCopyCell
  <2>3. CellCopied(from, g, f.tag[i], RetargetedCell(from, to, g.names, f.tag[i]))
    BY <1>1, <2>2, CellRetargeted DEF g
  <2> QED
    BY <1>4, <2>3
<1>7. ASSUME NEW i \in DOMAIN f.value
      PROVE  CellCopied(from, g, f.value[i], r.value[i])
  <2>1. f.value[i].kind = "import" /\ f.value[i].import # 0 =>
          /\ ImportedAs(from, f.value[i].import) # << >>
          /\ \E j \in DOMAIN to.imports : to.imports[j].identity = ImportedAs(from, f.value[i].import)[1]
    BY DEF CanCopyField, CanRetarget, from
  <2>2. CanCopyCell(from, to, g, f.value[i])
    BY <1>2, <1>3, <2>1, Zenon DEF CanCopyCell
  <2>3. CellCopied(from, g, f.value[i], RetargetedCell(from, to, g.names, f.value[i]))
    BY <1>1, <2>2, CellRetargeted DEF g
  <2> QED
    BY <1>4, <2>3
<1>8. DOMAIN r.tag = DOMAIN f.tag /\ DOMAIN r.value = DOMAIN f.value
  BY <1>4
<1>9. FieldFits(g, r)
  <2>1. \A i \in DOMAIN r.tag : r.tag[i].kind = "name" => Refers(g, r.tag[i].at)
    BY <1>6, <1>8 DEF CellCopied
  <2>2. \A i \in DOMAIN r.value : r.value[i].kind = "name" => Refers(g, r.value[i].at)
    BY <1>7, <1>8 DEF CellCopied
  <2>3. CellKinds(r.tag) = CellKinds(f.tag)
    BY <1>6, <1>8 DEF CellCopied, CellKinds
  <2>4. ValueFits(Text(from, f.type), f.size, r.value)
    <3>1. IsList(f.value)
      BY <1>1 DEF IsList
    <3>2. \A i \in DOMAIN f.value : /\ r.value[i].kind = f.value[i].kind /\ CellSize(r.value[i]) = CellSize(f.value[i])
                                    /\ f.value[i].kind = "data" => r.value[i] = f.value[i]
      BY <1>7, Zenon DEF CellCopied
    <3> QED
      BY <1>2, <1>8, <3>1, <3>2, SameValueFits
  <2> QED
    BY <1>2, <1>4, <1>5, <2>1, <2>2, <2>3, <2>4 DEF FieldFits
<1>10. Meaning(merged, r) = Meaning(image, f)
  <2>1. [i \in DOMAIN r.tag |-> CellMeaning(g, r.tag[i])] = [i \in DOMAIN f.tag |-> CellMeaning(from, f.tag[i])]
    BY <1>6, <1>8 DEF CellCopied
  <2>2. [i \in DOMAIN r.value |-> CellMeaning(g, r.value[i])] = [i \in DOMAIN f.value |-> CellMeaning(from, f.value[i])]
    BY <1>7, <1>8 DEF CellCopied
  <2> QED
    BY <1>4, <1>5, <2>1, <2>2, Zenon DEF Meaning, from, g
<1> QED
  BY <1>5, <1>9, <1>10 DEF FieldCopied, from, g, r

\* What a header that is written again is made of.
LEMMA RewrittenParts ==
  ASSUME NEW h, HeaderShape(h), NEW appended, NEW size
  PROVE  LET g == RewriteHeader(h, appended, size)
             delta == Sizes(appended)
         IN /\ g.names = h.names \o appended /\ g.imports = h.imports /\ g.tail = h.tail /\ g.exports = h.exports
            /\ g.count = Len(h.names) + Len(appended) /\ g.total = h.total + delta
            /\ g.at = [id \in DOMAIN h.at |-> Shifted(h.at[id], delta)]
            /\ g.serial.size = size /\ g.serial.offset = h.total + delta /\ g.bulk = h.total + delta + size
<1> DEFINE delta == Sizes(appended)
           names == h.names \o appended
           count == Len(h.names) + Len(appended)
           total == h.total + delta
           at == [id \in DOMAIN h.at |-> Shifted(h.at[id], delta)]
           serial == [size |-> size, offset |-> total]
           bulk == total + size
           g == RewriteHeader(h, appended, size)
<1>1. h = [names |-> h.names, imports |-> h.imports, tail |-> h.tail, at |-> h.at, total |-> h.total,
           count |-> h.count, exports |-> h.exports, serial |-> h.serial, bulk |-> h.bulk]
  BY DEF HeaderShape
<1>2. g = [h EXCEPT !.names = names, !.count = count, !.total = total, !.at = at, !.serial = serial, !.bulk = bulk]
  BY <1>1 DEF RewriteHeader
<1>3. serial.size = size /\ serial.offset = total
  OBVIOUS
<1> HIDE DEF delta, names, count, total, at, serial, bulk, g
<1>4. g = [names |-> names, imports |-> h.imports, tail |-> h.tail, at |-> at, total |-> total,
           count |-> count, exports |-> h.exports, serial |-> serial, bulk |-> bulk]
  BY <1>1, <1>2
<1>5. /\ g.names = names /\ g.imports = h.imports /\ g.tail = h.tail /\ g.exports = h.exports
      /\ g.count = count /\ g.total = total /\ g.at = at /\ g.serial = serial /\ g.bulk = bulk
  BY <1>4
<1> QED
  BY <1>3, <1>5 DEF delta, names, count, total, at, bulk, g

\* Lists of things that have a size.
Sized(s) == s \in Seq(ToSet(s)) /\ \A i \in DOMAIN s : s[i].size \in Nat

\* The sizes of a list add up to a number.
LEMMA SizesIs ==
  ASSUME NEW s, Sized(s)
  PROVE  Sizes(s) \in Nat /\ \A k \in 0..Len(s) : Sizes(SubSeq(s, 1, k)) \in Nat
<1>1. s \in Seq(ToSet(s)) /\ Len(s) \in Nat /\ DOMAIN s = 1..Len(s) /\ \A i \in DOMAIN s : s[i].size \in Nat
  BY DEF Sized
<1>2. Sizes(s) \in Nat
  <2> DEFINE w == [i \in DOMAIN s |-> s[i].size]
  <2>1. DOMAIN w = 1..Len(s) /\ \A i \in 1..Len(s) : w[i] \in Nat
    BY <1>1
  <2>2. Sizes(s) = Total(w)
    BY DEF Sizes
  <2> HIDE DEF w
  <2> QED
    BY <1>1, <2>1, <2>2, TotalIs
<1>3. ASSUME NEW k \in 0..Len(s) PROVE Sizes(SubSeq(s, 1, k)) \in Nat
  <2> DEFINE t == SubSeq(s, 1, k)
             w == [i \in DOMAIN t |-> t[i].size]
  <2>1. DOMAIN t = 1..k /\ k \in Nat /\ \A i \in 1..k : t[i] = s[i] /\ i \in 1..Len(s)
    BY <1>1
  <2>2. DOMAIN w = 1..k /\ \A i \in 1..k : w[i] \in Nat
    <3> HIDE DEF t
    <3> QED
      BY <1>1, <2>1
  <2>3. Sizes(t) = Total(w)
    BY DEF Sizes
  <2> HIDE DEF w, t
  <2>4. Total(w) \in Nat
    BY <2>1, <2>2, TotalIs
  <2> QED
    BY <2>3, <2>4 DEF t
<1> QED
  BY <1>2, <1>3

\* Those of two lists are those of one behind the other.
LEMMA SizesOfBoth ==
  ASSUME NEW s, Sized(s), NEW t, Sized(t)
  PROVE  Sizes(s) \in Nat /\ Sizes(t) \in Nat /\ Sizes(s \o t) = Sizes(s) + Sizes(t)
<1> DEFINE v == [i \in DOMAIN s |-> s[i].size]
           w == [i \in DOMAIN t |-> t[i].size]
           both == s \o t
           u == [i \in DOMAIN both |-> both[i].size]
<1>1. /\ s \in Seq(ToSet(s)) /\ Len(s) \in Nat /\ DOMAIN s = 1..Len(s) /\ \A i \in DOMAIN s : s[i].size \in Nat
      /\ t \in Seq(ToSet(t)) /\ Len(t) \in Nat /\ DOMAIN t = 1..Len(t) /\ \A i \in DOMAIN t : t[i].size \in Nat
  BY DEF Sized
<1>2. v \in Seq(Nat) /\ w \in Seq(Nat) /\ Len(v) = Len(s) /\ Len(w) = Len(t)
  BY <1>1
<1>3. v \o w \in Seq(Nat) /\ DOMAIN (v \o w) = 1..(Len(s) + Len(t))
      /\ (\A i \in 1..Len(s) : (v \o w)[i] = v[i]) /\ (\A i \in 1..Len(t) : (v \o w)[i + Len(s)] = w[i])
  <2> HIDE DEF v, w
  <2>1. v \o w \in Seq(Nat) /\ DOMAIN (v \o w) = 1..(Len(v) + Len(w))
        /\ (\A i \in 1..Len(v) : (v \o w)[i] = v[i]) /\ (\A i \in 1..Len(w) : (v \o w)[i + Len(v)] = w[i])
    <3>1. v \in Seq(Nat) /\ w \in Seq(Nat)
      BY <1>2
    <3>2. v \o w \in Seq(Nat) /\ DOMAIN (v \o w) = 1..(Len(v) + Len(w))
      BY <3>1
    <3>3. \A i \in 1..Len(v) : (v \o w)[i] = v[i]
      BY <3>1
    <3>4. \A i \in 1..Len(w) : (v \o w)[i + Len(v)] = w[i]
      BY <3>1
    <3> QED
      BY <3>2, <3>3, <3>4
  <2> QED
    BY <1>2, <2>1, Zenon
<1>4. DOMAIN both = 1..(Len(s) + Len(t))
      /\ (\A i \in 1..Len(s) : both[i] = s[i]) /\ (\A i \in 1..Len(t) : both[i + Len(s)] = t[i])
      /\ (\A i \in DOMAIN both : i \in 1..Len(s) \/ (i - Len(s) \in 1..Len(t) /\ (i - Len(s)) + Len(s) = i))
  BY <1>1
<1> HIDE DEF both
<1>5. \A i \in 1..Len(s) : v[i] = s[i].size
  BY <1>1
<1>6. \A i \in 1..Len(t) : w[i] = t[i].size
  BY <1>1
<1>7. ASSUME NEW i \in DOMAIN both PROVE both[i].size = (v \o w)[i]
  <2> HIDE DEF v, w
  <2>1. CASE i \in 1..Len(s)
    BY <1>3, <1>4, <1>5, <2>1
  <2>2. CASE i - Len(s) \in 1..Len(t) /\ (i - Len(s)) + Len(s) = i
    <3>1. both[i] = t[i - Len(s)] /\ (v \o w)[i] = w[i - Len(s)]
      BY <1>3, <1>4, <2>2
    <3> QED
      BY <1>6, <2>2, <3>1
  <2> QED
    BY <1>4, <2>1, <2>2
<1> DEFINE joined == v \o w
<1>8. joined = [i \in DOMAIN joined |-> joined[i]]
  BY <1>2
<1>9. u = joined
  <2>1. DOMAIN joined = DOMAIN both
    BY <1>3, <1>4
  <2>2. \A i \in DOMAIN both : both[i].size = joined[i]
    BY <1>7
  <2> HIDE DEF joined
  <2> QED
    BY <1>8, <2>1, <2>2
<1>10. Sizes(s) = Total(v) /\ Sizes(t) = Total(w) /\ Sizes(both) = Total(u)
  BY DEF Sizes
<1> HIDE DEF v, w, u
<1> QED
  BY <1>2, <1>9, <1>10, TotalOfBoth DEF both

\* Names are appended: everything behind them is found where the summary says.
LEMMA HeaderGrows ==
  ASSUME NEW h, HeaderShape(h), HeaderFits(h), NEW appended, Sized(appended), NEW size
  PROVE  LET g == RewriteHeader(h, appended, size) IN
         /\ g.names = h.names \o appended /\ IsList(g.names) /\ g.imports = h.imports /\ IsList(h.imports)
         /\ Grown(h, g) /\ HeaderFits(g) /\ g.serial.size = size /\ SectionsFound(g, h, size)
<1> DEFINE g == RewriteHeader(h, appended, size)
           delta == Sizes(appended)
           end == NameTableEnd(h)
           before(id) == Sizes(SubSeq(h.tail, 1, (CHOOSE i \in DOMAIN h.tail : h.tail[i].id = id) - 1))
<1>1. /\ g.names = h.names \o appended /\ g.imports = h.imports /\ g.tail = h.tail /\ g.exports = h.exports
      /\ g.count = Len(h.names) + Len(appended) /\ g.total = h.total + delta
      /\ g.at = [id \in DOMAIN h.at |-> Shifted(h.at[id], delta)]
      /\ g.serial.size = size /\ g.serial.offset = h.total + delta /\ g.bulk = h.total + delta + size
  BY RewrittenParts
<1>2. /\ h.imports \in Seq(ToSet(h.imports)) /\ Sized(h.names) /\ Sized(h.tail)
      /\ {"imports", "exports"} \subseteq DOMAIN h.at
      /\ {"imports", "exports"} \subseteq {h.tail[i].id : i \in DOMAIN h.tail}
  <2>1. \A s \in {h.names, h.tail} : s \in Seq(ToSet(s)) /\ \A i \in DOMAIN s : s[i].size \in Nat
    BY DEF HeaderShape
  <2>2. Sized(h.names) /\ Sized(h.tail)
    BY <2>1, Zenon DEF Sized
  <2> QED
    BY <2>2, Zenon DEF HeaderShape
<1>3. /\ h.total = HeaderLength(h) /\ h.exports = 1
      /\ h.count = Len(h.names)
      /\ \A id \in {"imports", "exports"} : h.at[id] = Found(h, id)
      /\ end = IF h.at["imports"] < h.at["exports"] THEN h.at["imports"] ELSE h.at["exports"]
  BY DEF HeaderFits
<1> HIDE DEF g, delta
<1>4. Sizes(h.names) \in Nat /\ delta \in Nat /\ Sizes(g.names) = Sizes(h.names) + delta /\ Sizes(h.tail) \in Nat
  BY <1>1, <1>2, SizesOfBoth, SizesIs DEF delta
<1>5. SummarySize \in Nat \ {0}
  BY SummaryAssumption
<1>6. end \in Nat /\ end # 0 /\ NameTableEnd(g) = end + delta
  BY <1>4, <1>5 DEF NameTableEnd
<1>7. HeaderLength(h) = end + Sizes(h.tail) /\ HeaderLength(g) = HeaderLength(h) + delta /\ HeaderLength(h) \in Nat
  <2>1. HeaderLength(h) = end + Sizes(h.tail) /\ HeaderLength(g) = (end + delta) + Sizes(h.tail)
    BY <1>1, <1>6 DEF HeaderLength
  <2> HIDE DEF end
  <2> QED
    BY <1>4, <1>6, <2>1
<1>8. ASSUME NEW id, \E i \in DOMAIN h.tail : h.tail[i].id = id
      PROVE  /\ Found(h, id) \in Nat /\ Found(h, id) # 0 /\ Found(g, id) = Found(h, id) + delta
  <2>1. Found(h, id) = end + before(id) /\ Found(g, id) = (end + delta) + before(id)
    BY <1>1, <1>6 DEF Found
  <2>2. before(id) \in Nat
    <3> DEFINE i == CHOOSE i \in DOMAIN h.tail : h.tail[i].id = id
    <3>1. i \in DOMAIN h.tail
      BY <1>8
    <3>2. DOMAIN h.tail = 1..Len(h.tail) /\ Len(h.tail) \in Nat
      BY <1>2 DEF Sized
    <3>3. i - 1 \in 0..Len(h.tail)
      BY <3>1, <3>2
    <3> HIDE DEF i
    <3>4. Sizes(SubSeq(h.tail, 1, i - 1)) \in Nat
      BY <1>2, <3>3, SizesIs
    <3> QED
      BY <3>4 DEF i
  <2> HIDE DEF before, end
  <2> QED
    BY <1>4, <1>6, <2>1, <2>2
<1> HIDE DEF before
<1>9. DOMAIN g.at = DOMAIN h.at /\ \A id \in DOMAIN h.at : g.at[id] = IF h.at[id] = 0 THEN 0 ELSE h.at[id] + delta
  BY <1>1 DEF Shifted
<1>10. ASSUME NEW id \in {"imports", "exports"}
       PROVE  g.at[id] = h.at[id] + delta /\ g.at[id] = Found(g, id) /\ h.at[id] \in Nat
  <2>1. id \in DOMAIN h.at /\ \E i \in DOMAIN h.tail : h.tail[i].id = id
    BY <1>2
  <2>2. Found(h, id) \in Nat /\ Found(h, id) # 0 /\ Found(g, id) = Found(h, id) + delta /\ h.at[id] = Found(h, id)
    BY <1>3, <1>8, <2>1
  <2> QED
    BY <1>9, <2>1, <2>2
<1>11. IsList(g.names) /\ IsList(h.imports) /\ Grown(h, g) /\ Len(g.names) = Len(h.names) + Len(appended)
  <2>1. h.names \in Seq(ToSet(h.names)) /\ appended \in Seq(ToSet(appended))
    BY <1>2 DEF Sized
  <2>2. /\ Len(h.names) \in Nat /\ Len(appended) \in Nat /\ Len(g.names) = Len(h.names) + Len(appended)
        /\ DOMAIN g.names = 1..Len(g.names) /\ \A i \in 1..Len(h.names) : g.names[i] = h.names[i]
    BY <1>1, <2>1
  <2>3. IsList(h.imports)
    BY <1>2 DEF IsList
  <2> QED
    BY <1>1, <2>2, <2>3 DEF IsList, Grown
<1>12. HeaderFits(g)
  <2>1. g.total = HeaderLength(g)
    BY <1>1, <1>3, <1>7
  <2>2. NameTableEnd(g) = IF g.at["imports"] < g.at["exports"] THEN g.at["imports"] ELSE g.at["exports"]
    <3> HIDE DEF end
    <3> QED
      BY <1>3, <1>4, <1>6, <1>10
  <2> QED
    BY <1>1, <1>3, <1>10, <1>11, <2>1, <2>2 DEF HeaderFits
<1>13. SectionsFound(g, h, size)
  <2>1. ASSUME NEW id \in DOMAIN h.at, InPlace(h, id) PROVE InPlace(g, id)
    <3>1. (\E i \in DOMAIN h.tail : h.tail[i].id = id) /\ h.at[id] = Found(h, id)
      BY <2>1 DEF InPlace
    <3>2. Found(h, id) \in Nat /\ Found(h, id) # 0 /\ Found(g, id) = Found(h, id) + delta
      BY <1>8, <3>1
    <3>3. g.at[id] = Found(g, id)
      BY <1>9, <3>1, <3>2
    <3> QED
      BY <1>1, <3>1, <3>3 DEF InPlace
  <2>2. g.serial.offset = HeaderLength(g) /\ g.bulk = HeaderLength(g) + size
    BY <1>1, <1>3, <1>7
  <2> QED
    BY <1>1, <1>9, <2>1, <2>2 DEF SectionsFound
<1> QED
  BY <1>1, <1>11, <1>12, <1>13 DEF g

\* A table that can be read.
Readable(image) == HeaderShape(image.header) /\ TableShape(image.table) /\ ImageFits(image)
FieldReads(h, f) == FieldShape(f) /\ FieldFits(h, f)
RowReads(image, row) ==
  /\ row = [name |-> row.name, fields |-> row.fields] /\ row.name \in FName /\ Refers(image.header, row.name)
  /\ row.fields \in Seq(ToSet(row.fields)) /\ \A j \in DOMAIN row.fields : FieldReads(image.header, row.fields[j])
  /\ \A i, j \in DOMAIN row.fields :
       Text(image.header, row.fields[i].name) = Text(image.header, row.fields[j].name) => i = j

\* The rows of a table that can be read, can be read, and no two have one name.
LEMMA RowsOfImage ==
  ASSUME NEW image, Readable(image)
  PROVE  /\ image.table.rows \in Seq(ToSet(image.table.rows))
         /\ \A i \in DOMAIN image.table.rows : RowReads(image, image.table.rows[i])
         /\ \A i, j \in DOMAIN image.table.rows :
              NameOf(image.header, image.table.rows[i].name) = NameOf(image.header, image.table.rows[j].name) => i = j
<1> DEFINE h == image.header
           t == image.table
<1>1. /\ t.rows \in Seq(ToSet(t.rows)) /\ \A i \in DOMAIN t.rows : RowShape(t.rows[i])
  BY DEF Readable, TableShape
<1>2. /\ \A i \in DOMAIN t.rows :
           /\ Refers(h, t.rows[i].name)
           /\ \A j \in DOMAIN t.rows[i].fields : FieldFits(h, t.rows[i].fields[j])
           /\ IsInjective([j \in DOMAIN t.rows[i].fields |-> Text(h, t.rows[i].fields[j].name)])
      /\ IsInjective([i \in DOMAIN t.rows |-> NameOf(h, t.rows[i].name)])
  BY Zenon DEF Readable, ImageFits
<1> HIDE DEF h, t
<1>3. ASSUME NEW i \in DOMAIN t.rows PROVE RowReads(image, t.rows[i])
  <2> DEFINE row == t.rows[i]
             texts == [j \in DOMAIN row.fields |-> Text(h, row.fields[j].name)]
  <2>1. /\ row = [name |-> row.name, fields |-> row.fields] /\ row.name \in FName
        /\ row.fields \in Seq(ToSet(row.fields)) /\ \A j \in DOMAIN row.fields : FieldShape(row.fields[j])
    BY <1>1, Zenon DEF RowShape
  <2>2. Refers(h, row.name) /\ (\A j \in DOMAIN row.fields : FieldFits(h, row.fields[j])) /\ IsInjective(texts)
    BY <1>2
  <2>3. \A k, j \in DOMAIN row.fields : Text(h, row.fields[k].name) = Text(h, row.fields[j].name) => k = j
    <3>1. DOMAIN texts = DOMAIN row.fields /\ \A j \in DOMAIN row.fields : texts[j] = Text(h, row.fields[j].name)
      OBVIOUS
    <3> HIDE DEF texts, row
    <3> QED
      BY <2>2, <3>1, Zenon DEF IsInjective
  <2> HIDE DEF row
  <2>4. \A j \in DOMAIN row.fields : FieldReads(h, row.fields[j])
    BY <2>1, <2>2, Zenon DEF FieldReads
  <2> QED
    BY <2>1, <2>2, <2>3, <2>4, Zenon DEF RowReads, h, row
<1>4. \A i, j \in DOMAIN t.rows : NameOf(h, t.rows[i].name) = NameOf(h, t.rows[j].name) => i = j
  <2> DEFINE names == [i \in DOMAIN t.rows |-> NameOf(h, t.rows[i].name)]
  <2>1. DOMAIN names = DOMAIN t.rows /\ (\A i \in DOMAIN t.rows : names[i] = NameOf(h, t.rows[i].name)) /\ IsInjective(names)
    BY <1>2
  <2> HIDE DEF names
  <2> QED
    BY <2>1, Zenon DEF IsInjective
<1> QED
  BY <1>1, <1>3, <1>4 DEF h, t

\* The row of a name, and the field of a name.
LEMMA RowIs ==
  ASSUME NEW image, Readable(image), NEW r \in RowNames(image)
  PROVE  /\ \E i \in DOMAIN image.table.rows : RowOf(image, r) = image.table.rows[i]
         /\ NameOf(image.header, RowOf(image, r).name) = r /\ RowReads(image, RowOf(image, r))
<1>1. PICK row \in ToSet(image.table.rows) : r = NameOf(image.header, row.name)
  BY DEF RowNames
<1>2. RowOf(image, r) \in ToSet(image.table.rows) /\ NameOf(image.header, RowOf(image, r).name) = r
  BY <1>1 DEF RowOf
<1>3. PICK i \in DOMAIN image.table.rows : RowOf(image, r) = image.table.rows[i]
  BY <1>2, Zenon DEF ToSet
<1>4. RowReads(image, RowOf(image, r))
  BY <1>3, RowsOfImage
<1> QED
  BY <1>2, <1>3, <1>4

\* A row is the row of its name.
LEMMA RowAt ==
  ASSUME NEW image, Readable(image), NEW i \in DOMAIN image.table.rows
  PROVE  LET r == NameOf(image.header, image.table.rows[i].name) IN
         r \in RowNames(image) /\ RowOf(image, r) = image.table.rows[i]
<1> DEFINE r == NameOf(image.header, image.table.rows[i].name)
<1>1. image.table.rows[i] \in ToSet(image.table.rows)
  BY DEF ToSet
<1>2. r \in RowNames(image)
  BY <1>1 DEF RowNames
<1>3. PICK j \in DOMAIN image.table.rows : RowOf(image, r) = image.table.rows[j]
  BY <1>2, RowIs
<1>4. NameOf(image.header, image.table.rows[j].name) = r
  BY <1>2, <1>3, RowIs
<1>5. i = j
  BY <1>4, RowsOfImage
<1> QED
  BY <1>2, <1>3, <1>5

\* A field that a row has can be read.
LEMMA FieldIs ==
  ASSUME NEW image, Readable(image), NEW r \in RowNames(image), NEW f, HasField(image, r, f)
  PROVE  /\ FieldOf(image, r, f) \in ToSet(RowOf(image, r).fields)
         /\ Text(image.header, FieldOf(image, r, f).name) = f /\ FieldReads(image.header, FieldOf(image, r, f))
<1> DEFINE row == RowOf(image, r)
<1>1. RowReads(image, row)
  BY RowIs
<1>2. PICK i \in DOMAIN row.fields : f = Text(image.header, row.fields[i].name)
  BY DEF HasField, FieldNames, ToSet
<1>3. row.fields[i] \in ToSet(row.fields)
  BY DEF ToSet
<1>4. FieldOf(image, r, f) \in ToSet(row.fields) /\ Text(image.header, FieldOf(image, r, f).name) = f
  BY <1>2, <1>3 DEF FieldOf
<1>5. \A g \in ToSet(row.fields) : FieldReads(image.header, g)
  BY <1>1 DEF RowReads, ToSet
<1> QED
  BY <1>4, <1>5

-----------------------------------------------------------------------------
(***************************************************************************)
(* What is copied into a data table                                        *)
(***************************************************************************)
\* A copy is made of names and fields of a donor.
CopyReads(images, copy) ==
  LET h == images[copy.donor].header IN
  /\ copy.donor \in DOMAIN images
  /\ copy.name \in Seq(FName) /\ \A n \in ToSet(copy.name) : Refers(h, n)
  /\ copy.fields \in Seq(ToSet(copy.fields)) /\ \A f \in ToSet(copy.fields) : FieldReads(h, f)
CopySites(copy) == ToSet(copy.name) \cup UNION {FieldSites(f) : f \in ToSet(copy.fields)}

\* The names that a copy refers to.
LEMMA SitesOfCopy ==
  ASSUME NEW images, NEW copy, CopyReads(images, copy)
  PROVE  /\ NameSites(copy) \in Seq(FName) /\ ToSet(NameSites(copy)) = CopySites(copy)
         /\ \A n \in CopySites(copy) : Refers(images[copy.donor].header, n)
<1> DEFINE h == images[copy.donor].header
           seqs == [i \in DOMAIN copy.fields |-> NamesOfField(copy.fields[i])]
           flat == FlattenSeq(seqs)
<1>1. /\ copy.name \in Seq(FName) /\ \A n \in ToSet(copy.name) : Refers(h, n)
      /\ copy.fields \in Seq(ToSet(copy.fields)) /\ \A f \in ToSet(copy.fields) : FieldReads(h, f)
  BY DEF CopyReads
<1> HIDE DEF h
<1>2. /\ DOMAIN copy.fields = 1..Len(copy.fields) /\ Len(copy.fields) \in Nat
      /\ \A i \in DOMAIN copy.fields : copy.fields[i] \in ToSet(copy.fields)
  BY <1>1 DEF ToSet
<1>3. ASSUME NEW i \in DOMAIN copy.fields
      PROVE  /\ NamesOfField(copy.fields[i]) \in Seq(FName)
             /\ ToSet(NamesOfField(copy.fields[i])) = FieldSites(copy.fields[i])
  <2>1. FieldShape(copy.fields[i])
    BY <1>1, <1>2 DEF FieldReads
  <2> DEFINE f == copy.fields[i]
  <2> HIDE DEF f
  <2>2. FieldShape(f)
    BY <2>1 DEF f
  <2>3. NamesOfField(f) \in Seq(FName) /\ \A n : n \in ToSet(NamesOfField(f)) <=> n \in FieldSites(f)
    BY <2>2, SitesOfField
  <2> QED
    BY <2>3 DEF f
<1>4. seqs \in Seq(Seq(FName)) /\ Len(seqs) = Len(copy.fields) /\ \A i \in 1..Len(copy.fields) : seqs[i] = NamesOfField(copy.fields[i])
  BY <1>2, <1>3
<1> HIDE DEF seqs
<1>5. flat \in Seq(FName) /\ \A x : x \in ToSet(flat) <=> \E i \in 1..Len(seqs) : x \in ToSet(seqs[i])
  BY <1>4, Flattened
<1>6. ToSet(flat) = UNION {FieldSites(f) : f \in ToSet(copy.fields)}
  <2> HIDE DEF flat
  <2>1. ASSUME NEW x \in ToSet(flat) PROVE \E f \in ToSet(copy.fields) : x \in FieldSites(f)
    <3>1. PICK i \in 1..Len(seqs) : x \in ToSet(seqs[i])
      BY <1>5, <2>1
    <3>2. i \in DOMAIN copy.fields /\ seqs[i] = NamesOfField(copy.fields[i])
      BY <1>2, <1>4, <3>1
    <3>3. x \in FieldSites(copy.fields[i]) /\ copy.fields[i] \in ToSet(copy.fields)
      BY <1>2, <1>3, <3>1, <3>2
    <3> QED
      BY <3>3
  <2>2. ASSUME NEW f \in ToSet(copy.fields), NEW x \in FieldSites(f) PROVE x \in ToSet(flat)
    <3>1. PICK i \in DOMAIN copy.fields : f = copy.fields[i]
      BY DEF ToSet
    <3>2. x \in ToSet(NamesOfField(copy.fields[i]))
      BY <1>3, <2>2, <3>1
    <3>3. i \in 1..Len(seqs) /\ seqs[i] = NamesOfField(copy.fields[i])
      BY <1>2, <1>4, <3>1
    <3> QED
      BY <1>5, <3>2, <3>3
  <2> QED
    BY <2>1, <2>2
<1>7. NameSites(copy) = copy.name \o flat
  BY DEF NameSites, seqs
<1> HIDE DEF flat
<1>8. copy.name \o flat \in Seq(FName) /\ ToSet(copy.name \o flat) = ToSet(copy.name) \cup ToSet(flat)
  <2> DEFINE a == copy.name
  <2>1. a \in Seq(FName)
    BY <1>1
  <2> HIDE DEF a
  <2>2. a \o flat \in Seq(FName) /\ ToSet(a \o flat) = ToSet(a) \cup ToSet(flat)
    BY <1>5, <2>1, Joined
  <2> QED
    BY <2>2 DEF a
<1>9. ASSUME NEW f \in ToSet(copy.fields), NEW n \in FieldSites(f) PROVE Refers(h, n)
  <2>1. FieldFits(h, f)
    BY <1>1 DEF FieldReads
  <2>2. /\ Refers(h, f.name) /\ Refers(h, f.type)
        /\ \A i \in DOMAIN f.tag : f.tag[i].kind = "name" => Refers(h, f.tag[i].at)
        /\ \A i \in DOMAIN f.value : f.value[i].kind = "name" => Refers(h, f.value[i].at)
    BY <2>1, Zenon DEF FieldFits
  <2>3. ASSUME NEW cells, \A i \in DOMAIN cells : cells[i].kind = "name" => Refers(h, cells[i].at), n \in CellSites(cells)
        PROVE  Refers(h, n)
    BY <2>3 DEF CellSites, ToSet
  <2> QED
    BY <1>9, <2>2, <2>3 DEF FieldSites
<1> QED
  BY <1>1, <1>6, <1>7, <1>8, <1>9 DEF CopySites, h

\* The names that are appended: with them, every name of a copy is there.
CopiesRead(images, copies) == copies \in Seq(ToSet(copies)) /\ \A i \in DOMAIN copies : CopyReads(images, copies[i])

\* Every name that a copy refers to is in the name table, once the appended ones are.
LEMMA NamesAppended ==
  ASSUME NEW images, \A i \in DOMAIN images : HeaderShape(images[i].header),
         NEW carrier \in DOMAIN images, NEW copies, CopiesRead(images, copies)
  PROVE  LET appended == AppendedNames(images, carrier, copies)
             names == images[carrier].header.names \o appended
         IN /\ Sized(appended)
            /\ \A copy \in ToSet(copies) : \A n \in CopySites(copy) :
                 HasText(names, Text(images[copy.donor].header, n))
<1> DEFINE U == UNION {ToSet(images[i].header.names) : i \in DOMAIN images}
           entries(i) == LET h == images[copies[i].donor].header
                             sites == NameSites(copies[i])
                         IN [j \in DOMAIN sites |-> h.names[sites[j].index]]
           seqs == [i \in DOMAIN copies |-> entries(i)]
           wanted == FlattenSeq(seqs)
           base == images[carrier].header.names
           known == {e.text : e \in ToSet(base)}
           appended == FirstOfEach(wanted, known)
<1>1. AppendedNames(images, carrier, copies) = appended
  BY DEF AppendedNames, WantedNames
<1>2. /\ copies \in Seq(ToSet(copies)) /\ Len(copies) \in Nat /\ DOMAIN copies = 1..Len(copies)
      /\ \A i \in DOMAIN copies : CopyReads(images, copies[i])
  BY DEF CopiesRead
<1>3. ASSUME NEW k \in DOMAIN images
      PROVE  /\ Sized(images[k].header.names) /\ IsList(images[k].header.names)
             /\ \A j \in 1..Len(images[k].header.names) : images[k].header.names[j] \in U
  <2> DEFINE names == images[k].header.names
  <2>1. names \in Seq(ToSet(names)) /\ \A j \in DOMAIN names : names[j].size \in Nat
    BY Zenon DEF HeaderShape
  <2>2. \A j \in DOMAIN names : names[j] \in ToSet(names)
    BY DEF ToSet
  <2>3. ToSet(names) \subseteq U
    OBVIOUS
  <2> HIDE DEF U, names
  <2>4. Sized(names) /\ IsList(names)
    BY <2>1 DEF Sized, IsList
  <2> QED
    BY <2>2, <2>3, <2>4 DEF IsList, names
<1>4. ASSUME NEW e \in U PROVE e.size \in Nat
  <2>1. PICK k \in DOMAIN images : e \in ToSet(images[k].header.names)
    OBVIOUS
  <2>2. PICK j \in DOMAIN images[k].header.names : e = images[k].header.names[j]
    BY <2>1 DEF ToSet
  <2>3. \A i \in DOMAIN images[k].header.names : images[k].header.names[i].size \in Nat
    BY <1>3, Zenon DEF Sized
  <2> QED
    BY <2>2, <2>3
<1> HIDE DEF U
<1>5. ASSUME NEW i \in DOMAIN copies
      PROVE  /\ entries(i) \in Seq(U)
             /\ \A n \in CopySites(copies[i]) : \E e \in ToSet(entries(i)) : e.text = Text(images[copies[i].donor].header, n)
  <2> DEFINE h == images[copies[i].donor].header
             sites == NameSites(copies[i])
  <2>1. CopyReads(images, copies[i]) /\ copies[i].donor \in DOMAIN images
    BY <1>2 DEF CopyReads
  <2>2. sites \in Seq(FName) /\ ToSet(sites) = CopySites(copies[i]) /\ \A n \in CopySites(copies[i]) : Refers(h, n)
    BY <2>1, SitesOfCopy
  <2>3. entries(i) = [j \in DOMAIN sites |-> h.names[sites[j].index]]
    OBVIOUS
  <2>4. IsList(h.names) /\ \A j \in 1..Len(h.names) : h.names[j] \in U
    BY <1>3, <2>1
  <2> HIDE DEF h, sites, entries
  <2>5. Len(sites) \in Nat /\ DOMAIN sites = 1..Len(sites) /\ \A j \in DOMAIN sites : sites[j] \in CopySites(copies[i])
    BY <2>2 DEF ToSet
  <2>6. \A j \in DOMAIN sites : sites[j].index \in 1..Len(h.names)
    BY <2>2, <2>5 DEF Refers
  <2>7. entries(i) \in Seq(U)
    BY <2>3, <2>4, <2>5, <2>6
  <2>8. ASSUME NEW n \in CopySites(copies[i]) PROVE \E e \in ToSet(entries(i)) : e.text = Text(h, n)
    <3>1. PICK j \in DOMAIN sites : sites[j] = n
      BY <2>2 DEF ToSet
    <3>2. j \in DOMAIN entries(i) /\ entries(i)[j] = h.names[n.index]
      BY <2>3, <3>1
    <3>3. entries(i)[j] \in ToSet(entries(i)) /\ entries(i)[j].text = Text(h, n)
      BY <3>2 DEF ToSet, Text
    <3> QED
      BY <3>3
  <2> QED
    BY <2>7, <2>8 DEF h
<1> HIDE DEF entries
<1>6. seqs \in Seq(Seq(U)) /\ Len(seqs) = Len(copies) /\ \A i \in 1..Len(copies) : seqs[i] = entries(i)
  BY <1>2, <1>5
<1> HIDE DEF seqs
<1>7. wanted \in Seq(U) /\ \A x : x \in ToSet(wanted) <=> \E i \in 1..Len(seqs) : x \in ToSet(seqs[i])
  BY <1>6, Flattened
<1> HIDE DEF wanted, known
<1>8. /\ appended \in Seq(U)
      /\ \A e \in ToSet(wanted) : e.text \in known \/ \E a \in ToSet(appended) : a.text = e.text
  BY <1>7, FirstOfEachHas
<1> HIDE DEF appended
<1>9. Sized(appended)
  <2>1. DOMAIN appended = 1..Len(appended) /\ Len(appended) \in Nat /\ \A i \in DOMAIN appended : appended[i] \in U
    BY <1>8
  <2>2. appended \in Seq(ToSet(appended))
    BY <1>8, OwnMembers
  <2> QED
    BY <1>4, <2>1, <2>2 DEF Sized
<1>10. base \in Seq(ToSet(base)) /\ appended \in Seq(ToSet(appended))
  BY <1>3, <1>9 DEF Sized
<1> DEFINE names == base \o appended
<1>11. ToSet(names) = ToSet(base) \cup ToSet(appended)
  <2> DEFINE all == ToSet(base) \cup ToSet(appended)
  <2>1. base \in Seq(all) /\ appended \in Seq(all)
    BY <1>10
  <2> HIDE DEF all, base
  <2>2. ToSet(base \o appended) = ToSet(base) \cup ToSet(appended)
    BY <2>1, Joined
  <2> QED
    BY <2>2
<1> HIDE DEF names, base
<1>12. ASSUME NEW copy \in ToSet(copies), NEW n \in CopySites(copy)
       PROVE  HasText(names, Text(images[copy.donor].header, n))
  <2>1. PICK i \in DOMAIN copies : copy = copies[i]
    BY DEF ToSet
  <2>2. PICK e \in ToSet(entries(i)) : e.text = Text(images[copy.donor].header, n)
    BY <1>5, <1>12, <2>1
  <2>3. e \in ToSet(wanted)
    BY <1>2, <1>6, <1>7, <2>1, <2>2
  <2>4. \E a \in ToSet(names) : a.text = e.text
    BY <1>8, <1>11, <2>3 DEF known
  <2> QED
    BY <2>2, <2>4 DEF HasText, ToSet
<1> QED
  BY <1>1, <1>9, <1>12 DEF names, base

\* What the build hands to the merge of the tables: fields of rows of the base, and
\* rows that it does not have, each from one donor.
SelectionsGiven(images, carrier, selections) ==
  /\ IsFiniteSet(selections.fields) /\ \A s \in selections.fields : s.donor \in DOMAIN images
  /\ selections.rows \in Seq(ToSet(selections.rows))
  /\ \A i \in DOMAIN selections.rows :
       selections.rows[i].donor \in DOMAIN images /\ selections.rows[i].row \notin RowNames(images[carrier])
  /\ \A i, j \in DOMAIN selections.rows : selections.rows[i].row = selections.rows[j].row => i = j
TablesGiven(images, carrier, selections) ==
  /\ carrier \in DOMAIN images /\ \A i \in DOMAIN images : Readable(images[i])
  /\ SelectionsGiven(images, carrier, selections) /\ CanMergeTable(images, carrier, selections)
RowCopied(images, selected) == CopiedRow(selected.donor, RowOf(images[selected.donor], selected.row))

\* The copy of a field that is selected.
LEMMA FieldCopyReads ==
  ASSUME NEW images, NEW s, s.donor \in DOMAIN images, Readable(images[s.donor]),
         s.row \in RowNames(images[s.donor]), HasField(images[s.donor], s.row, s.field)
  PROVE  LET copy == CopiedField(images, s) IN
         /\ CopyReads(images, copy) /\ copy.donor = s.donor
         /\ ToSet(copy.fields) = {FieldOf(images[s.donor], s.row, s.field)}
         /\ 1 \in DOMAIN copy.fields /\ copy.fields[1] = FieldOf(images[s.donor], s.row, s.field)
<1> DEFINE f == FieldOf(images[s.donor], s.row, s.field)
           copy == CopiedField(images, s)
<1>1. FieldReads(images[s.donor].header, f)
  BY FieldIs
<1>2. copy.donor = s.donor /\ copy.name = << >> /\ copy.fields = <<f>>
  BY DEF CopiedField
<1> HIDE DEF f, copy
<1>3. ToSet(copy.fields) = {f} /\ ToSet(copy.name) = {} /\ copy.name \in Seq(FName)
  BY <1>2 DEF ToSet
<1>4. copy.fields \in Seq({f})
  BY <1>2
<1>5. CopyReads(images, copy)
  BY <1>1, <1>2, <1>3, <1>4 DEF CopyReads
<1>6. 1 \in DOMAIN copy.fields /\ copy.fields[1] = f
  BY <1>2
<1> QED
  BY <1>2, <1>3, <1>5, <1>6 DEF f, copy

\* The copy of a row that is selected.
LEMMA RowCopyReads ==
  ASSUME NEW images, NEW s, s.donor \in DOMAIN images, Readable(images[s.donor]), s.row \in RowNames(images[s.donor])
  PROVE  LET copy == RowCopied(images, s)
             row == RowOf(images[s.donor], s.row)
         IN CopyReads(images, copy) /\ copy.donor = s.donor /\ row.name \in ToSet(copy.name) /\ copy.fields = row.fields
<1> DEFINE row == RowOf(images[s.donor], s.row)
           copy == RowCopied(images, s)
<1>1. RowReads(images[s.donor], row)
  BY RowIs
<1>2. copy.donor = s.donor /\ copy.name = <<row.name>> /\ copy.fields = row.fields
  BY DEF RowCopied, CopiedRow
<1> HIDE DEF row, copy
<1>3. /\ row.name \in FName /\ Refers(images[s.donor].header, row.name)
      /\ row.fields \in Seq(ToSet(row.fields)) /\ \A f \in ToSet(row.fields) : FieldReads(images[s.donor].header, f)
  BY <1>1 DEF RowReads, ToSet
<1>4. ToSet(copy.name) = {row.name} /\ copy.name \in Seq(FName)
  BY <1>2, <1>3 DEF ToSet
<1>5. CopyReads(images, copy)
  BY <1>2, <1>3, <1>4 DEF CopyReads
<1> QED
  BY <1>2, <1>4, <1>5 DEF row, copy

\* Each chosen field and each added row is copied.
LEMMA CopiedIs ==
  ASSUME NEW images, NEW carrier, NEW selections, TablesGiven(images, carrier, selections)
  PROVE  LET copies == Copied(images, carrier, selections) IN
         /\ CopiesRead(images, copies)
         /\ \A s \in selections.fields : s.row \in RowNames(images[carrier]) => CopiedField(images, s) \in ToSet(copies)
         /\ \A i \in DOMAIN selections.rows : RowCopied(images, selections.rows[i]) \in ToSet(copies)
<1> DEFINE base == images[carrier]
           rows == base.table.rows
           of(i) == {s \in selections.fields : s.row = NameOf(base.header, rows[i].name)}
           seqs == [i \in DOMAIN rows |-> SetToSeq(of(i))]
           fields == FlattenSeq(seqs)
           A == [i \in DOMAIN fields |-> CopiedField(images, fields[i])]
           B == [i \in DOMAIN selections.rows |-> RowCopied(images, selections.rows[i])]
<1>1. Copied(images, carrier, selections) = A \o B
  BY Zenon DEF Copied, FieldsChosen, RowCopied
<1>2. /\ Readable(base) /\ \A i \in DOMAIN images : Readable(images[i])
      /\ IsFiniteSet(selections.fields) /\ \A s \in selections.fields : s.donor \in DOMAIN images
      /\ selections.rows \in Seq(ToSet(selections.rows))
      /\ \A i \in DOMAIN selections.rows : selections.rows[i].donor \in DOMAIN images
      /\ \A s \in selections.fields : s.row \in RowNames(images[s.donor]) /\ HasField(images[s.donor], s.row, s.field)
      /\ \A i \in DOMAIN selections.rows : selections.rows[i].row \in RowNames(images[selections.rows[i].donor])
  BY DEF TablesGiven, SelectionsGiven, CanMergeTable, SelectionsFit
<1>3. rows \in Seq(ToSet(rows)) /\ DOMAIN rows = 1..Len(rows) /\ Len(rows) \in Nat
  <2>1. rows \in Seq(ToSet(rows))
    BY <1>2, RowsOfImage
  <2> HIDE DEF rows
  <2> QED
    BY <2>1
<1>4. ASSUME NEW i \in DOMAIN rows
      PROVE  SetToSeq(of(i)) \in Seq(selections.fields) /\ ToSet(SetToSeq(of(i))) = of(i)
  <2>1. of(i) \in SUBSET selections.fields
    OBVIOUS
  <2> HIDE DEF of
  <2>2. IsFiniteSet(of(i))
    BY <1>2, <2>1, FS_Subset
  <2>3. SetToSeq(of(i)) \in Seq(of(i)) /\ ToSet(SetToSeq(of(i))) = of(i)
    BY <2>2, Listed
  <2>4. SetToSeq(of(i)) \in Seq(selections.fields)
    BY <2>1, <2>3
  <2> QED
    BY <2>3, <2>4
<1>5. seqs \in Seq(Seq(selections.fields)) /\ Len(seqs) = Len(rows) /\ \A i \in 1..Len(rows) : seqs[i] = SetToSeq(of(i))
  <2> HIDE DEF rows, of
  <2> QED
    BY <1>3, <1>4
<1> HIDE DEF seqs
<1>6. fields \in Seq(selections.fields) /\ \A x : x \in ToSet(fields) <=> \E i \in 1..Len(seqs) : x \in ToSet(seqs[i])
  BY <1>5, Flattened
<1> HIDE DEF fields
<1>7. ASSUME NEW s \in selections.fields, s.row \in RowNames(base) PROVE s \in ToSet(fields)
  <2>1. PICK row \in ToSet(rows) : s.row = NameOf(base.header, row.name)
    BY <1>7 DEF RowNames
  <2>2. PICK i \in DOMAIN rows : row = rows[i]
    BY DEF ToSet
  <2>3. s \in of(i)
    BY <2>1, <2>2
  <2> HIDE DEF rows, of
  <2>4. s \in ToSet(SetToSeq(of(i)))
    BY <1>4, <2>3
  <2> QED
    BY <1>3, <1>5, <1>6, <2>4
<1> HIDE DEF rows, of
<1>8. /\ DOMAIN fields = 1..Len(fields) /\ Len(fields) \in Nat /\ \A i \in DOMAIN fields : fields[i] \in selections.fields
      /\ DOMAIN selections.rows = 1..Len(selections.rows) /\ Len(selections.rows) \in Nat
  BY <1>2, <1>6
<1>9. \A i \in DOMAIN fields : A[i] = CopiedField(images, fields[i]) /\ CopyReads(images, A[i])
  BY <1>2, <1>8, FieldCopyReads
<1>10. \A i \in DOMAIN selections.rows : B[i] = RowCopied(images, selections.rows[i]) /\ CopyReads(images, B[i])
  BY <1>2, RowCopyReads
<1> DEFINE C == ToSet(A) \cup ToSet(B)
<1>11. A \in Seq(ToSet(A)) /\ DOMAIN A = DOMAIN fields
  BY <1>8 DEF ToSet
<1>12. B \in Seq(ToSet(B)) /\ DOMAIN B = DOMAIN selections.rows
  BY <1>8 DEF ToSet
<1> HIDE DEF A, B
<1>13. A \o B \in Seq(C) /\ ToSet(A \o B) = C
  <2>1. A \in Seq(C) /\ B \in Seq(C)
    BY <1>11, <1>12
  <2> HIDE DEF C
  <2>2. A \o B \in Seq(C) /\ ToSet(A \o B) = ToSet(A) \cup ToSet(B)
    BY <2>1, Joined
  <2> QED
    BY <2>2 DEF C
<1>14. \A copy \in C : CopyReads(images, copy)
  BY <1>9, <1>10, <1>11, <1>12 DEF ToSet
<1>15. CopiesRead(images, A \o B)
  <2> DEFINE all == A \o B
  <2>1. all \in Seq(ToSet(all)) /\ \A i \in DOMAIN all : all[i] \in ToSet(all)
    BY <1>13 DEF ToSet
  <2> HIDE DEF all
  <2>2. \A i \in DOMAIN all : CopyReads(images, all[i])
    BY <1>13, <1>14, <2>1 DEF all
  <2> QED
    BY <2>1, <2>2 DEF CopiesRead, all
<1>16. ASSUME NEW s \in selections.fields, s.row \in RowNames(base) PROVE CopiedField(images, s) \in ToSet(A)
  <2>1. PICK i \in DOMAIN fields : fields[i] = s
    BY <1>7, <1>16 DEF ToSet
  <2> QED
    BY <1>9, <1>11, <2>1 DEF ToSet
<1>17. \A i \in DOMAIN selections.rows : RowCopied(images, selections.rows[i]) \in ToSet(B)
  BY <1>10, <1>12 DEF ToSet
<1> QED
  BY <1>1, <1>13, <1>15, <1>16, <1>17

-----------------------------------------------------------------------------
(***************************************************************************)
(* A merged data table                                                     *)
(***************************************************************************)
\* The row that is made of a row of a Pak has the same name, and fields of the
\* same names that fit.
RowMade(merged, image, row, new) ==
  /\ Refers(merged.header, new.name) /\ NameOf(merged.header, new.name) = NameOf(image.header, row.name)
  /\ DOMAIN new.fields = DOMAIN row.fields
  /\ \A j \in DOMAIN row.fields : /\ FieldFits(merged.header, new.fields[j])
                                  /\ Text(merged.header, new.fields[j].name) = Text(image.header, row.fields[j].name)
RowMeans(merged, image, row, new) == \A j \in DOMAIN row.fields : Meaning(merged, new.fields[j]) = Meaning(image, row.fields[j])

\* The header of a merged table, and that every name of a copy is there.
NamesHeld(merged, images, carrier, copies) ==
  /\ IsList(merged.header.names) /\ merged.header.imports = images[carrier].header.imports
  /\ IsList(images[carrier].header.imports) /\ Grown(images[carrier].header, merged.header)
  /\ \A copy \in ToSet(copies) : \A n \in CopySites(copy) :
       HasText(merged.header.names, Text(images[copy.donor].header, n))

\* A field of a copy fits in the merged table, and means what it meant.
LEMMA CopyFits ==
  ASSUME NEW images, NEW carrier, NEW selections, TablesGiven(images, carrier, selections),
         NEW merged, NamesHeld(merged, images, carrier, Copied(images, carrier, selections)),
         NEW copy \in ToSet(Copied(images, carrier, selections)), NEW j \in DOMAIN copy.fields
  PROVE  FieldCopied(images[copy.donor], merged, copy.fields[j],
                     Retargeted(images[copy.donor].header, images[carrier].header, merged.header.names, copy.fields[j]))
<1> DEFINE copies == Copied(images, carrier, selections)
           f == copy.fields[j]
           to == images[carrier].header
<1>1. CopyReads(images, copy)
  <2>1. CopiesRead(images, copies)
    BY CopiedIs
  <2>2. PICK i \in DOMAIN copies : copy = copies[i]
    BY DEF ToSet
  <2> HIDE DEF copies
  <2> QED
    BY <2>1, <2>2 DEF CopiesRead
<1>2. f \in ToSet(copy.fields)
  BY DEF ToSet
<1>3. FieldReads(images[copy.donor].header, f)
  BY <1>1, <1>2 DEF CopyReads
<1>4. CanRetarget(images[copy.donor].header, to, f)
  BY DEF TablesGiven, CanMergeTable
<1>5. \A n \in FieldSites(f) : HasText(merged.header.names, Text(images[copy.donor].header, n))
  BY <1>2 DEF NamesHeld, CopySites
<1>6. CanCopyField(images[copy.donor], to, merged.header, f)
  BY <1>3, <1>4, <1>5 DEF CanCopyField, FieldReads
<1>7. IsList(merged.header.names) /\ IsList(to.imports) /\ merged.header.imports = to.imports
  BY DEF NamesHeld
<1> HIDE DEF f, to
<1>8. FieldCopied(images[copy.donor], merged, f, Retargeted(images[copy.donor].header, to, merged.header.names, f))
  BY <1>6, <1>7, FieldRetargeted
<1> QED
  BY <1>8 DEF f, to

\* A row that is copied whole.
LEMMA AddedRowIs ==
  ASSUME NEW images, NEW carrier, NEW selections, TablesGiven(images, carrier, selections),
         NEW merged, NamesHeld(merged, images, carrier, Copied(images, carrier, selections)),
         NEW i \in DOMAIN selections.rows
  PROVE  LET donor == images[selections.rows[i].donor]
             row == RowOf(donor, selections.rows[i].row)
             new == AddedRow(donor.header, images[carrier].header, merged.header.names, row)
         IN /\ selections.rows[i].row \in RowNames(donor) /\ NameOf(donor.header, row.name) = selections.rows[i].row
            /\ RowMade(merged, donor, row, new) /\ RowMeans(merged, donor, row, new)
<1> DEFINE s == selections.rows[i]
           donor == images[s.donor]
           row == RowOf(donor, s.row)
           to == images[carrier].header
           new == AddedRow(donor.header, to, merged.header.names, row)
           copy == RowCopied(images, s)
<1>1. s.donor \in DOMAIN images /\ Readable(donor) /\ s.row \in RowNames(donor)
  BY DEF TablesGiven, SelectionsGiven, CanMergeTable, SelectionsFit
<1>2. copy \in ToSet(Copied(images, carrier, selections))
  BY CopiedIs
<1>3. copy.donor = s.donor /\ row.name \in ToSet(copy.name) /\ copy.fields = row.fields
  BY <1>1, RowCopyReads
<1>4. RowReads(donor, row) /\ NameOf(donor.header, row.name) = s.row
  BY <1>1, RowIs
<1>5. new.name = RetargetedName(donor.header, merged.header.names, row.name)
      /\ new.fields = [j \in DOMAIN row.fields |-> Retargeted(donor.header, to, merged.header.names, row.fields[j])]
  BY DEF AddedRow
<1> HIDE DEF copy, row, new, to
<1>6. HasText(merged.header.names, Text(donor.header, row.name))
  BY <1>2, <1>3 DEF NamesHeld, CopySites
<1>7. Refers(merged.header, new.name) /\ NameOf(merged.header, new.name) = NameOf(donor.header, row.name)
  <2>1. row.name \in FName /\ Refers(donor.header, row.name) /\ IsList(merged.header.names)
    BY <1>4 DEF RowReads, NamesHeld
  <2> QED
    BY <1>5, <1>6, <2>1, NameRetargeted
<1>8. ASSUME NEW j \in DOMAIN row.fields
      PROVE  FieldCopied(donor, merged, row.fields[j], new.fields[j])
  <2>1. j \in DOMAIN copy.fields /\ copy.fields[j] = row.fields[j]
    BY <1>3
  <2>2. FieldCopied(images[copy.donor], merged, copy.fields[j],
                    Retargeted(images[copy.donor].header, to, merged.header.names, copy.fields[j]))
    BY <1>2, <2>1, CopyFits DEF to
  <2>3. new.fields[j] = Retargeted(donor.header, to, merged.header.names, row.fields[j])
    BY <1>5
  <2> QED
    BY <1>3, <2>1, <2>2, <2>3
<1>9. RowMade(merged, donor, row, new) /\ RowMeans(merged, donor, row, new)
  BY <1>5, <1>7, <1>8 DEF RowMade, RowMeans, FieldCopied
<1> QED
  BY <1>1, <1>4, <1>9 DEF row, new, to

\* A row of the base, with the fields that were chosen; without them it is as it was.
LEMMA KeptRowIs ==
  ASSUME NEW images, NEW carrier, NEW selections, TablesGiven(images, carrier, selections),
         NEW merged, NamesHeld(merged, images, carrier, Copied(images, carrier, selections)),
         NEW i \in DOMAIN images[carrier].table.rows
  PROVE  LET base == images[carrier]
             row == base.table.rows[i]
             new == KeptRow(images, carrier, selections, merged.header.names, row)
         IN /\ RowMade(merged, base, row, new)
            /\ (\A s \in selections.fields : s.row # NameOf(base.header, row.name)) => new = row
<1> DEFINE base == images[carrier]
           row == base.table.rows[i]
           r == NameOf(base.header, row.name)
           names == merged.header.names
           new == KeptRow(images, carrier, selections, names, row)
           chosen(f) == {s \in selections.fields : s.row = r /\ s.field = Text(base.header, f.name)}
           put(f) == IF chosen(f) = {} THEN f
                     ELSE LET s == CHOOSE x \in chosen(f) : TRUE
                          IN Retargeted(images[s.donor].header, base.header, names, FieldOf(images[s.donor], s.row, s.field))
           fields == [j \in DOMAIN row.fields |-> put(row.fields[j])]
<1>1. Readable(base) /\ r \in RowNames(base) /\ RowReads(base, row)
  <2>1. Readable(base)
    BY DEF TablesGiven
  <2>2. r \in RowNames(base) /\ RowOf(base, r) = row
    BY <2>1, RowAt
  <2> QED
    BY <2>1, <2>2, RowsOfImage
<1>2. row = [name |-> row.name, fields |-> row.fields]
  BY <1>1 DEF RowReads
<1>3. new = [row EXCEPT !.fields = fields]
  BY <1>2 DEF KeptRow
<1> HIDE DEF new, fields, row
<1>4. new = [name |-> row.name, fields |-> fields]
  BY <1>2, <1>3
<1>5. new.name = row.name /\ new.fields = fields
  BY <1>4
<1>6. Refers(merged.header, new.name) /\ NameOf(merged.header, new.name) = r
  <2>1. Refers(base.header, row.name) /\ Grown(base.header, merged.header)
    BY <1>1 DEF RowReads, NamesHeld
  <2> QED
    BY <1>5, <2>1, NameStays
<1>7. ASSUME NEW j \in DOMAIN row.fields
      PROVE  /\ FieldFits(merged.header, put(row.fields[j]))
             /\ Text(merged.header, put(row.fields[j]).name) = Text(base.header, row.fields[j].name)
  <2> DEFINE f == row.fields[j]
  <2>1. FieldFits(base.header, f) /\ Grown(base.header, merged.header)
    BY <1>1 DEF RowReads, FieldReads, NamesHeld
  <2>2. CASE chosen(f) = {}
    <3>1. put(f) = f
      BY <2>2
    <3> HIDE DEF put, f
    <3>2. FieldFits(merged.header, f) /\ Text(merged.header, f.name) = Text(base.header, f.name)
      BY <2>1, FieldStays
    <3> QED
      BY <3>1, <3>2 DEF f
  <2>3. CASE chosen(f) # {}
    <3> DEFINE s == CHOOSE x \in chosen(f) : TRUE
               g == FieldOf(images[s.donor], s.row, s.field)
               copy == CopiedField(images, s)
    <3>1. s \in selections.fields /\ s.row = r /\ s.field = Text(base.header, f.name)
      BY <2>3
    <3>2. put(f) = Retargeted(images[s.donor].header, base.header, names, g)
      BY <2>3
    <3> HIDE DEF put, s, chosen, f
    <3>3. /\ s.donor \in DOMAIN images /\ Readable(images[s.donor])
          /\ s.row \in RowNames(images[s.donor]) /\ HasField(images[s.donor], s.row, s.field)
      BY <3>1 DEF TablesGiven, SelectionsGiven, CanMergeTable, SelectionsFit
    <3>4. copy.donor = s.donor /\ 1 \in DOMAIN copy.fields /\ copy.fields[1] = g
      BY <3>3, FieldCopyReads
    <3>5. copy \in ToSet(Copied(images, carrier, selections))
      BY <1>1, <3>1, CopiedIs
    <3>6. Text(images[s.donor].header, g.name) = s.field
      BY <3>3, FieldIs
    <3> HIDE DEF copy, g
    <3>7. FieldCopied(images[copy.donor], merged, copy.fields[1],
                      Retargeted(images[copy.donor].header, images[carrier].header, merged.header.names, copy.fields[1]))
      BY <3>4, <3>5, CopyFits
    <3>8. FieldCopied(images[s.donor], merged, g, put(f))
      BY <3>2, <3>4, <3>7
    <3> QED
      BY <3>1, <3>6, <3>8 DEF FieldCopied, f
  <2> QED
    BY <2>2, <2>3
<1>8. RowMade(merged, base, row, new)
  <2>1. DOMAIN new.fields = DOMAIN row.fields /\ \A j \in DOMAIN row.fields : new.fields[j] = put(row.fields[j])
    BY <1>5 DEF fields
  <2> HIDE DEF put
  <2> QED
    BY <1>6, <1>7, <2>1 DEF RowMade
<1>9. ASSUME \A s \in selections.fields : s.row # r PROVE new = row
  <2>1. \A f : put(f) = f
    BY <1>9
  <2>2. fields = [j \in DOMAIN row.fields |-> row.fields[j]]
    <3> HIDE DEF put
    <3> QED
      BY <2>1 DEF fields
  <2>3. row.fields \in Seq(ToSet(row.fields))
    BY <1>1 DEF RowReads
  <2>4. fields = row.fields
    BY <2>2, <2>3
  <2> QED
    BY <1>2, <1>4, <2>4
<1> QED
  BY <1>8, <1>9 DEF row, new

\* Rows and fields are found by their names, where no two have one name.
OneRowEach(image) ==
  \A i, j \in DOMAIN image.table.rows :
    NameOf(image.header, image.table.rows[i].name) = NameOf(image.header, image.table.rows[j].name) => i = j

\* A row is found by its name.
LEMMA RowFound ==
  ASSUME NEW image, OneRowEach(image), NEW i \in DOMAIN image.table.rows
  PROVE  RowOf(image, NameOf(image.header, image.table.rows[i].name)) = image.table.rows[i]
<1> DEFINE rows == image.table.rows
           r == NameOf(image.header, rows[i].name)
           row == RowOf(image, r)
<1>1. rows[i] \in ToSet(rows)
  BY DEF ToSet
<1>2. row \in ToSet(rows) /\ NameOf(image.header, row.name) = r
  BY <1>1 DEF RowOf
<1>3. PICK j \in DOMAIN rows : row = rows[j]
  BY <1>2, Zenon DEF ToSet
<1>4. i = j
  BY <1>2, <1>3 DEF OneRowEach
<1> QED
  BY <1>3, <1>4

\* A field is found by its name.
LEMMA FieldFound ==
  ASSUME NEW image, NEW r,
         \A i, j \in DOMAIN RowOf(image, r).fields :
           Text(image.header, RowOf(image, r).fields[i].name) = Text(image.header, RowOf(image, r).fields[j].name) => i = j,
         NEW j \in DOMAIN RowOf(image, r).fields
  PROVE  FieldOf(image, r, Text(image.header, RowOf(image, r).fields[j].name)) = RowOf(image, r).fields[j]
<1> DEFINE fields == RowOf(image, r).fields
           f == Text(image.header, fields[j].name)
           field == FieldOf(image, r, f)
<1>1. fields[j] \in ToSet(fields)
  BY DEF ToSet
<1>2. field \in ToSet(fields) /\ Text(image.header, field.name) = f
  BY <1>1 DEF FieldOf
<1>3. PICK k \in DOMAIN fields : field = fields[k]
  BY <1>2, Zenon DEF ToSet
<1>4. j = k
  BY <1>2, <1>3
<1> QED
  BY <1>3, <1>4

\* A row that is copied whole is seen as it was.
LEMMA SameView ==
  ASSUME NEW merged, NEW image, Readable(image), NEW r \in RowNames(image), r \in RowNames(merged),
         RowMade(merged, image, RowOf(image, r), RowOf(merged, r)), RowMeans(merged, image, RowOf(image, r), RowOf(merged, r))
  PROVE  TableView(image)[r] = TableView(merged)[r]
<1> DEFINE row == RowOf(image, r)
           new == RowOf(merged, r)
           order == FieldNames(image, row)
           means(x) == [f \in ToSet(order) |-> Meaning(x, FieldOf(x, r, f))]
<1>1. RowReads(image, row)
  BY RowIs
<1>2. /\ DOMAIN new.fields = DOMAIN row.fields
      /\ \A j \in DOMAIN row.fields : Text(merged.header, new.fields[j].name) = Text(image.header, row.fields[j].name)
      /\ \A j \in DOMAIN row.fields : Meaning(merged, new.fields[j]) = Meaning(image, row.fields[j])
  BY DEF RowMade, RowMeans
<1>3. FieldNames(merged, new) = order
  <2> HIDE DEF new, row
  <2> QED
    BY <1>2 DEF FieldNames
<1>4. \A i, j \in DOMAIN row.fields :
        Text(image.header, row.fields[i].name) = Text(image.header, row.fields[j].name) => i = j
  BY <1>1 DEF RowReads
<1>5. \A i, j \in DOMAIN new.fields :
        Text(merged.header, new.fields[i].name) = Text(merged.header, new.fields[j].name) => i = j
  <2> HIDE DEF new, row
  <2> QED
    BY <1>2, <1>4
<1>6. ASSUME NEW f \in ToSet(order) PROVE Meaning(merged, FieldOf(merged, r, f)) = Meaning(image, FieldOf(image, r, f))
  <2>1. PICK j \in DOMAIN row.fields : f = Text(image.header, row.fields[j].name)
    BY DEF FieldNames, ToSet
  <2>2. FieldOf(image, r, f) = row.fields[j]
    BY <1>4, <2>1, FieldFound
  <2>3. j \in DOMAIN new.fields /\ f = Text(merged.header, new.fields[j].name)
    BY <1>2, <2>1
  <2>4. FieldOf(merged, r, f) = new.fields[j]
    BY <1>5, <2>3, FieldFound
  <2> HIDE DEF new, row, order
  <2> QED
    BY <1>2, <2>1, <2>2, <2>4
<1>7. means(merged) = means(image)
  <2> HIDE DEF order
  <2> QED
    BY <1>6
<1>8. TableView(image)[r] = [order |-> order, sem |-> means(image), raw |-> means(image)]
  BY DEF TableView
<1>9. TableView(merged)[r] = [order |-> order, sem |-> means(merged), raw |-> means(merged)]
  <2> DEFINE view(n) == [order |-> n, sem |-> [f \in ToSet(n) |-> Meaning(merged, FieldOf(merged, r, f))],
                         raw |-> [f \in ToSet(n) |-> Meaning(merged, FieldOf(merged, r, f))]]
  <2>1. TableView(merged)[r] = view(FieldNames(merged, new))
    BY DEF TableView
  <2> HIDE DEF new, order
  <2> QED
    BY <1>3, <2>1
<1> QED
  BY <1>7, <1>8, <1>9, Zenon

\* What a merged table is made of.
KeptRows(images, carrier, selections, names) ==
  [i \in DOMAIN images[carrier].table.rows |->
     KeptRow(images, carrier, selections, names, images[carrier].table.rows[i])]
AddedRows(images, carrier, selections, names) ==
  [i \in DOMAIN selections.rows |->
     LET donor == images[selections.rows[i].donor]
     IN AddedRow(donor.header, images[carrier].header, names, RowOf(donor, selections.rows[i].row))]

\* The header, the rows and the number of rows of a merged table.
LEMMA MergedParts ==
  ASSUME NEW images, NEW carrier, NEW selections, TableShape(images[carrier].table)
  PROVE  LET base == images[carrier]
             appended == AppendedNames(images, carrier, Copied(images, carrier, selections))
             names == base.header.names \o appended
             merged == MergedTable(images, carrier, selections)
         IN /\ merged.header = RewriteHeader(base.header, appended, BodySize(merged.table))
            /\ merged.table.block = base.table.block
            /\ merged.table.rows = KeptRows(images, carrier, selections, names) \o AddedRows(images, carrier, selections, names)
            /\ merged.table.count = base.table.count + Len(AddedRows(images, carrier, selections, names))
<1> DEFINE base == images[carrier]
           appended == AppendedNames(images, carrier, Copied(images, carrier, selections))
           names == base.header.names \o appended
           merged == MergedTable(images, carrier, selections)
           k == KeptRows(images, carrier, selections, names)
           a == AddedRows(images, carrier, selections, names)
           t == base.table
           kept == [t EXCEPT !.rows = k]
           table == WithRows(kept, a)
<1>1. t = [block |-> t.block, count |-> t.count, rows |-> t.rows]
  BY DEF TableShape
<1>2. merged = Rewritten(base.header, appended, table)
  <2>1. [t EXCEPT !.rows = [i \in DOMAIN @ |-> KeptRow(images, carrier, selections, names, @[i])]] = kept
    BY <1>1 DEF KeptRows
  <2> HIDE DEF kept
  <2> QED
    BY <2>1 DEF MergedTable, WithNames, AddedRows
<1> HIDE DEF t, k, a
<1>3. kept = [block |-> t.block, count |-> t.count, rows |-> k]
  BY <1>1
<1> HIDE DEF kept
<1>4. kept.rows = k /\ kept.count = t.count
  BY <1>3
<1>5. table = [kept EXCEPT !.rows = k \o a, !.count = t.count + Len(a)]
  BY <1>3, <1>4 DEF WithRows
<1> HIDE DEF table
<1> DEFINE rows == k \o a
           count == t.count + Len(a)
<1> HIDE DEF rows, count
<1>6. table = [block |-> t.block, count |-> count, rows |-> rows]
  BY <1>3, <1>5 DEF rows, count
<1>7. table.block = t.block /\ table.count = count /\ table.rows = rows
  BY <1>6
<1>8. merged.header = RewriteHeader(base.header, appended, BodySize(table)) /\ merged.table = table
  BY <1>2 DEF Rewritten
<1> QED
  BY <1>7, <1>8, Zenon DEF rows, count, k, a, t

\* The names are held, and the header fits.
LEMMA MergedHeader ==
  ASSUME NEW images, NEW carrier, NEW selections, TablesGiven(images, carrier, selections)
  PROVE  LET base == images[carrier]
             copies == Copied(images, carrier, selections)
             merged == MergedTable(images, carrier, selections)
         IN /\ merged.header.names = base.header.names \o AppendedNames(images, carrier, copies)
            /\ NamesHeld(merged, images, carrier, copies)
            /\ HeaderFits(merged.header) /\ merged.header.serial.size = BodySize(merged.table)
            /\ SectionsFound(merged.header, base.header, BodySize(merged.table))
<1> DEFINE base == images[carrier]
           copies == Copied(images, carrier, selections)
           appended == AppendedNames(images, carrier, copies)
           merged == MergedTable(images, carrier, selections)
           size == BodySize(merged.table)
<1>1. carrier \in DOMAIN images /\ (\A i \in DOMAIN images : HeaderShape(images[i].header))
      /\ HeaderShape(base.header) /\ HeaderFits(base.header) /\ TableShape(base.table)
  BY DEF TablesGiven, Readable, ImageFits
<1>2. merged.header = RewriteHeader(base.header, appended, size)
  BY <1>1, MergedParts
<1>3. CopiesRead(images, copies)
  BY CopiedIs
<1> HIDE DEF copies, merged, size
<1>4. Sized(appended)
      /\ \A copy \in ToSet(copies) : \A n \in CopySites(copy) :
           HasText(base.header.names \o appended, Text(images[copy.donor].header, n))
  BY <1>1, <1>3, NamesAppended
<1> HIDE DEF appended
<1> DEFINE g == RewriteHeader(base.header, appended, size)
<1>5. /\ g.names = base.header.names \o appended /\ IsList(g.names) /\ g.imports = base.header.imports
      /\ IsList(base.header.imports)
      /\ Grown(base.header, g) /\ HeaderFits(g) /\ g.serial.size = size /\ SectionsFound(g, base.header, size)
  <2> DEFINE h == base.header
  <2>1. HeaderShape(h) /\ HeaderFits(h)
    BY <1>1
  <2> HIDE DEF h
  <2> DEFINE k == RewriteHeader(h, appended, size)
  <2>2. /\ k.names = h.names \o appended /\ IsList(k.names) /\ k.imports = h.imports /\ IsList(h.imports)
        /\ Grown(h, k) /\ HeaderFits(k) /\ k.serial.size = size /\ SectionsFound(k, h, size)
    BY <1>4, <2>1, HeaderGrows
  <2> QED
    BY <2>2, Zenon DEF h
<1> HIDE DEF g
<1>6. merged.header = g
  BY <1>2 DEF g
<1>7. NamesHeld(merged, images, carrier, copies)
  BY <1>4, <1>5, <1>6 DEF NamesHeld
<1> QED
  BY <1>5, <1>6, <1>7 DEF merged, size, copies, appended

\* Where each row of a merged table comes from.
FromBase(images, carrier, selections, merged, k) ==
  LET base == images[carrier]
      row == base.table.rows[k]
  IN /\ k \in DOMAIN base.table.rows /\ RowMade(merged, base, row, merged.table.rows[k])
     /\ (\A s \in selections.fields : s.row # NameOf(base.header, row.name)) => merged.table.rows[k] = row
FromDonor(images, selections, merged, k, i) ==
  LET donor == images[selections.rows[i].donor]
      r == selections.rows[i].row
      row == RowOf(donor, r)
  IN /\ i \in DOMAIN selections.rows /\ r \in RowNames(donor) /\ NameOf(donor.header, row.name) = r
     /\ RowMade(merged, donor, row, merged.table.rows[k]) /\ RowMeans(merged, donor, row, merged.table.rows[k])
RowsCome(images, carrier, selections, merged) ==
  LET m == Len(images[carrier].table.rows) IN
  /\ m \in Nat /\ DOMAIN images[carrier].table.rows = 1..m /\ DOMAIN selections.rows = 1..Len(selections.rows)
  /\ DOMAIN merged.table.rows = 1..(m + Len(selections.rows))
  /\ merged.table.count = Len(merged.table.rows)
  /\ \A k \in DOMAIN merged.table.rows :
       \/ k \in 1..m /\ FromBase(images, carrier, selections, merged, k)
       \/ k - m \in 1..Len(selections.rows) /\ FromDonor(images, selections, merged, k, k - m)
  /\ \A k \in 1..m : k \in DOMAIN merged.table.rows /\ FromBase(images, carrier, selections, merged, k)

\* Each row of a merged table is a row of the base or of a donor, in its place.
LEMMA MergedRows ==
  ASSUME NEW images, NEW carrier, NEW selections, TablesGiven(images, carrier, selections)
  PROVE  RowsCome(images, carrier, selections, MergedTable(images, carrier, selections))
<1> DEFINE base == images[carrier]
           copies == Copied(images, carrier, selections)
           merged == MergedTable(images, carrier, selections)
           names == base.header.names \o AppendedNames(images, carrier, copies)
           K == KeptRows(images, carrier, selections, names)
           A == AddedRows(images, carrier, selections, names)
           m == Len(base.table.rows)
           n == Len(selections.rows)
           rows == merged.table.rows
<1>1. Readable(base) /\ TableShape(base.table) /\ base.table.count = Len(base.table.rows)
      /\ selections.rows \in Seq(ToSet(selections.rows))
      /\ \A i \in DOMAIN selections.rows : selections.rows[i].donor \in DOMAIN images
  BY DEF TablesGiven, SelectionsGiven, Readable, ImageFits
<1>2. rows = K \o A /\ merged.table.count = base.table.count + Len(A)
  BY <1>1, MergedParts
<1>3. merged.header.names = names /\ NamesHeld(merged, images, carrier, copies)
  BY MergedHeader
<1>4. /\ m \in Nat /\ DOMAIN base.table.rows = 1..m /\ n \in Nat /\ DOMAIN selections.rows = 1..n
  <2>1. base.table.rows \in Seq(ToSet(base.table.rows))
    BY <1>1, RowsOfImage
  <2> QED
    BY <1>1, <2>1
<1> HIDE DEF merged, names, m, n
<1>5. K = [i \in 1..m |-> KeptRow(images, carrier, selections, names, base.table.rows[i])]
  BY <1>4 DEF KeptRows
<1>6. A = [i \in 1..n |-> LET donor == images[selections.rows[i].donor]
                          IN AddedRow(donor.header, base.header, names, RowOf(donor, selections.rows[i].row))]
  BY <1>4 DEF AddedRows
<1> HIDE DEF K, A
<1>7. DOMAIN K = 1..m /\ Len(K) = m /\ DOMAIN A = 1..n /\ Len(A) = n
  BY <1>4, <1>5, <1>6
<1>8. /\ DOMAIN rows = 1..(m + n) /\ Len(rows) = m + n
      /\ \A k \in 1..m : rows[k] = K[k]
      /\ \A k \in 1..(m + n) : k \notin 1..m => k - m \in 1..n /\ rows[k] = A[k - m]
  <2> DEFINE all == {K[i] : i \in 1..m} \cup {A[i] : i \in 1..n}
  <2>1. K \in Seq(all) /\ A \in Seq(all)
    BY <1>4, <1>5, <1>6, <1>7
  <2>2. rows = K \o A
    BY <1>2
  <2> HIDE DEF rows, all
  <2> DEFINE both == K \o A
  <2>3. /\ Len(both) = Len(K) + Len(A) /\ DOMAIN both = 1..(Len(K) + Len(A))
        /\ \A i \in 1..Len(K) : both[i] = K[i]
        /\ \A i \in DOMAIN both : (i \in 1..Len(K) /\ both[i] = K[i]) \/ (i - Len(K) \in 1..Len(A) /\ both[i] = A[i - Len(K)])
    BY <2>1, Joined
  <2> HIDE DEF both
  <2>4. /\ Len(both) = m + n /\ DOMAIN both = 1..(m + n) /\ (\A i \in 1..m : both[i] = K[i])
        /\ \A i \in DOMAIN both : (i \in 1..m /\ both[i] = K[i]) \/ (i - m \in 1..n /\ both[i] = A[i - m])
    BY <1>7, <2>3
  <2>5. rows = both
    BY <2>2 DEF both
  <2> QED
    BY <2>4, <2>5
<1> HIDE DEF rows
<1>9. ASSUME NEW k \in 1..m PROVE FromBase(images, carrier, selections, merged, k)
  <2> DEFINE row == base.table.rows[k]
             new == KeptRow(images, carrier, selections, merged.header.names, row)
  <2>1. k \in DOMAIN base.table.rows
    BY <1>4
  <2>2. RowMade(merged, base, row, new) /\ ((\A s \in selections.fields : s.row # NameOf(base.header, row.name)) => new = row)
    BY <1>3, <2>1, KeptRowIs
  <2>3. rows[k] = new
    BY <1>3, <1>5, <1>8
  <2> HIDE DEF new, row
  <2> QED
    BY <2>1, <2>2, <2>3 DEF FromBase, rows, row
<1>10. ASSUME NEW k \in 1..(m + n), k \notin 1..m
       PROVE  k - m \in 1..n /\ FromDonor(images, selections, merged, k, k - m)
  <2> DEFINE i == k - m
             donor == images[selections.rows[i].donor]
             r == selections.rows[i].row
             row == RowOf(donor, r)
             new == AddedRow(donor.header, base.header, merged.header.names, row)
  <2>1. i \in 1..n /\ rows[k] = A[i]
    BY <1>8, <1>10
  <2> HIDE DEF i
  <2>2. rows[k] = new
    BY <1>3, <1>6, <2>1
  <2>3. i \in DOMAIN selections.rows
    BY <1>4, <2>1
  <2>4. /\ r \in RowNames(donor) /\ NameOf(donor.header, row.name) = r
        /\ RowMade(merged, donor, row, new) /\ RowMeans(merged, donor, row, new)
    BY <1>3, <2>3, AddedRowIs
  <2> HIDE DEF new, row, r
  <2>5. FromDonor(images, selections, merged, k, i)
    BY <2>2, <2>3, <2>4 DEF FromDonor, rows, row, r
  <2> QED
    BY <2>1, <2>5 DEF i
<1>11. \A k \in 1..m : k \in 1..(m + n)
  BY <1>4
<1>12. merged.table.count = Len(rows)
  BY <1>1, <1>2, <1>7, <1>8 DEF m
<1> QED
  BY <1>4, <1>8, <1>9, <1>10, <1>11, <1>12 DEF RowsCome, rows, m, n, merged

\* A merged table can be read again, the rows of the base are where they were, and
\* the others are a donor's.
TableMerged(images, carrier, selections, merged) ==
  LET base == images[carrier] IN
  /\ ImageFits(merged) /\ SectionsFound(merged.header, base.header, BodySize(merged.table))
  /\ \A r \in RowNames(base) : (\A s \in selections.fields : s.row # r) => RowOf(merged, r) = RowOf(base, r)
  /\ \A r \in RowNames(merged) \ RowNames(base) : \E i \in DOMAIN images :
       r \in RowNames(images[i]) /\ TableView(images[i])[r] = TableView(merged)[r]

\* That is so for whatever the build gives to the merge of the tables.
LEMMA MergedReads ==
  ASSUME NEW images, NEW carrier, NEW selections, TablesGiven(images, carrier, selections)
  PROVE  TableMerged(images, carrier, selections, MergedTable(images, carrier, selections))
<1> DEFINE base == images[carrier]
           merged == MergedTable(images, carrier, selections)
           g == merged.header
           rows == merged.table.rows
           m == Len(base.table.rows)
           n == Len(selections.rows)
           name(k) == NameOf(g, rows[k].name)
           FromB(k) == FromBase(images, carrier, selections, merged, k)
           FromD(k, i) == FromDonor(images, selections, merged, k, i)
<1>1. /\ carrier \in DOMAIN images /\ Readable(base) /\ \A i \in DOMAIN images : Readable(images[i])
      /\ \A i \in DOMAIN selections.rows :
           selections.rows[i].donor \in DOMAIN images /\ selections.rows[i].row \notin RowNames(base)
      /\ \A i, j \in DOMAIN selections.rows : selections.rows[i].row = selections.rows[j].row => i = j
  BY DEF TablesGiven, SelectionsGiven
<1>2. /\ HeaderFits(g) /\ g.serial.size = BodySize(merged.table)
      /\ Grown(base.header, g) /\ SectionsFound(g, base.header, BodySize(merged.table))
  BY MergedHeader DEF NamesHeld
<1>3. /\ m \in Nat /\ DOMAIN base.table.rows = 1..m /\ DOMAIN selections.rows = 1..n
      /\ DOMAIN rows = 1..(m + n) /\ merged.table.count = Len(rows)
      /\ \A k \in DOMAIN rows : (k \in 1..m /\ FromB(k)) \/ (k - m \in 1..n /\ FromD(k, k - m))
      /\ \A k \in 1..m : k \in DOMAIN rows /\ FromB(k)
  <2>1. RowsCome(images, carrier, selections, merged)
    BY MergedRows, Zenon
  <2> HIDE DEF merged
  <2> QED
    BY <2>1 DEF RowsCome
<1>4. merged.table.block = base.table.block /\ base.table.block.tags = <<"RowStruct">>
      /\ \E i \in DOMAIN base.header.names : base.header.names[i].text = "None"
  <2>1. TableShape(base.table)
    BY <1>1 DEF Readable
  <2>2. merged.table.block = base.table.block
    BY <2>1, MergedParts
  <2> QED
    BY <1>1, <2>2 DEF Readable, ImageFits
<1> HIDE DEF merged, m, n
<1>5. ASSUME NEW k, FromB(k)
      PROVE  /\ name(k) = NameOf(base.header, base.table.rows[k].name) /\ name(k) \in RowNames(base)
             /\ RowOf(base, name(k)) = base.table.rows[k]
             /\ RowReads(base, base.table.rows[k]) /\ RowMade(merged, base, base.table.rows[k], rows[k])
  <2>1. /\ k \in DOMAIN base.table.rows /\ RowMade(merged, base, base.table.rows[k], rows[k])
        /\ name(k) = NameOf(base.header, base.table.rows[k].name)
    BY <1>5 DEF FromBase, RowMade
  <2>2. RowReads(base, base.table.rows[k])
    BY <1>1, <2>1, RowsOfImage
  <2>3. /\ NameOf(base.header, base.table.rows[k].name) \in RowNames(base)
        /\ RowOf(base, NameOf(base.header, base.table.rows[k].name)) = base.table.rows[k]
    BY <1>1, <2>1, RowAt
  <2> QED
    BY <2>1, <2>2, <2>3
<1>6. ASSUME NEW k, NEW i \in 1..n, FromD(k, i)
      PROVE  LET donor == images[selections.rows[i].donor]
                 row == RowOf(donor, selections.rows[i].row)
             IN /\ name(k) = selections.rows[i].row /\ name(k) \notin RowNames(base)
                /\ selections.rows[i].donor \in DOMAIN images /\ name(k) \in RowNames(donor)
                /\ RowReads(donor, row) /\ RowMade(merged, donor, row, rows[k]) /\ RowMeans(merged, donor, row, rows[k])
  <2> DEFINE donor == images[selections.rows[i].donor]
             row == RowOf(donor, selections.rows[i].row)
  <2>1. /\ selections.rows[i].row \in RowNames(donor) /\ NameOf(donor.header, row.name) = selections.rows[i].row
        /\ RowMade(merged, donor, row, rows[k]) /\ RowMeans(merged, donor, row, rows[k])
    BY <1>6 DEF FromDonor
  <2>2. selections.rows[i].donor \in DOMAIN images /\ Readable(donor) /\ selections.rows[i].row \notin RowNames(base)
    BY <1>1, <1>3
  <2>3. RowReads(donor, row)
    BY <2>1, <2>2, RowIs
  <2>4. name(k) = NameOf(donor.header, row.name)
    BY <2>1 DEF RowMade
  <2> HIDE DEF donor, row
  <2> QED
    BY <2>1, <2>2, <2>3, <2>4 DEF donor, row
<1>7. ASSUME NEW k \in DOMAIN rows
      PROVE  \E image, row : RowReads(image, row) /\ RowMade(merged, image, row, rows[k])
  <2>1. CASE k \in 1..m /\ FromB(k)
    BY <1>5, <2>1
  <2>2. CASE k - m \in 1..n /\ FromD(k, k - m)
    BY <1>6, <2>2
  <2> QED
    BY <1>3, <2>1, <2>2
<1>8. OneRowEach(merged)
  <2> SUFFICES ASSUME NEW k \in DOMAIN rows, NEW l \in DOMAIN rows, name(k) = name(l)
               PROVE  k = l
    BY Zenon DEF OneRowEach
  <2> HIDE DEF name, FromB, FromD
  <2>1. CASE k \in 1..m /\ FromB(k) /\ l \in 1..m /\ FromB(l)
    <3>1. NameOf(base.header, base.table.rows[k].name) = NameOf(base.header, base.table.rows[l].name)
      BY <1>5, <2>1
    <3> QED
      BY <1>1, <1>3, <2>1, <3>1, RowsOfImage
  <2>2. CASE k - m \in 1..n /\ FromD(k, k - m) /\ l - m \in 1..n /\ FromD(l, l - m)
    <3>1. selections.rows[k - m].row = selections.rows[l - m].row
      BY <1>6, <2>2
    <3>2. k - m = l - m
      BY <1>1, <1>3, <2>2, <3>1
    <3> QED
      BY <1>3, <3>2
  <2>3. CASE k \in 1..m /\ FromB(k) /\ l - m \in 1..n /\ FromD(l, l - m)
    BY <1>5, <1>6, <2>3
  <2>4. CASE l \in 1..m /\ FromB(l) /\ k - m \in 1..n /\ FromD(k, k - m)
    BY <1>5, <1>6, <2>4
  <2> QED
    BY <1>3, <2>1, <2>2, <2>3, <2>4, Zenon
<1>9. ImageFits(merged)
  <2>1. \E i \in DOMAIN g.names : g.names[i].text = "None"
    <3>1. PICK i \in DOMAIN base.header.names : base.header.names[i].text = "None"
      BY <1>4
    <3>2. IsList(base.header.names) /\ IsList(g.names)
      <4>1. NamesHeld(merged, images, carrier, Copied(images, carrier, selections))
        BY MergedHeader DEF merged
      <4>2. \A s \in {base.header.names, base.header.tail} : s \in Seq(ToSet(s))
        BY <1>1 DEF Readable, HeaderShape
      <4> QED
        BY <4>1, <4>2 DEF NamesHeld, IsList
    <3>3. i \in DOMAIN g.names /\ g.names[i] = base.header.names[i]
      BY <1>2, <3>1, <3>2 DEF Grown, IsList
    <3> QED
      BY <3>1, <3>3
  <2>2. ASSUME NEW k \in DOMAIN rows
        PROVE  /\ Refers(g, rows[k].name)
               /\ \A j \in DOMAIN rows[k].fields : FieldFits(g, rows[k].fields[j])
               /\ IsInjective([j \in DOMAIN rows[k].fields |-> Text(g, rows[k].fields[j].name)])
    <3> DEFINE new == rows[k]
               texts == [j \in DOMAIN new.fields |-> Text(g, new.fields[j].name)]
    <3>1. PICK image, row : RowReads(image, row) /\ RowMade(merged, image, row, new)
      BY <1>7
    <3> HIDE DEF new
    <3>2. /\ Refers(g, new.name) /\ DOMAIN new.fields = DOMAIN row.fields
          /\ \A j \in DOMAIN row.fields : FieldFits(g, new.fields[j])
          /\ \A j \in DOMAIN row.fields : Text(g, new.fields[j].name) = Text(image.header, row.fields[j].name)
      BY <3>1 DEF RowMade
    <3>3. \A i, j \in DOMAIN row.fields :
            Text(image.header, row.fields[i].name) = Text(image.header, row.fields[j].name) => i = j
      BY <3>1 DEF RowReads
    <3>4. DOMAIN texts = DOMAIN row.fields /\ \A j \in DOMAIN row.fields : texts[j] = Text(image.header, row.fields[j].name)
      BY <3>2
    <3> HIDE DEF texts
    <3>5. IsInjective(texts)
      BY <3>3, <3>4 DEF IsInjective
    <3> QED
      BY <3>2, <3>5 DEF texts, new
  <2>3. IsInjective([k \in DOMAIN rows |-> NameOf(g, rows[k].name)])
    <3> DEFINE names == [k \in DOMAIN rows |-> NameOf(g, rows[k].name)]
    <3>1. DOMAIN names = DOMAIN rows /\ \A k \in DOMAIN rows : names[k] = NameOf(g, rows[k].name)
      OBVIOUS
    <3> HIDE DEF names
    <3>2. IsInjective(names)
      BY <1>8, <3>1 DEF OneRowEach, IsInjective
    <3> QED
      BY <3>2 DEF names
  <2> QED
    BY <1>2, <1>3, <1>4, <2>1, <2>2, <2>3, Zenon DEF ImageFits
<1>10. ASSUME NEW r \in RowNames(base), \A s \in selections.fields : s.row # r
       PROVE  RowOf(merged, r) = RowOf(base, r)
  <2>1. PICK k \in DOMAIN base.table.rows : RowOf(base, r) = base.table.rows[k]
    BY <1>1, RowIs
  <2>2. NameOf(base.header, base.table.rows[k].name) = r
    BY <1>1, <2>1, RowIs
  <2>3. k \in DOMAIN rows /\ FromB(k)
    BY <1>3, <2>1
  <2>4. rows[k] = base.table.rows[k]
    BY <1>10, <2>2, <2>3 DEF FromBase
  <2>5. name(k) = r
    BY <1>5, <2>2, <2>3
  <2>6. RowOf(merged, name(k)) = rows[k]
    BY <1>8, <2>3, RowFound
  <2> QED
    BY <2>1, <2>4, <2>5, <2>6
<1>11. ASSUME NEW r \in RowNames(merged) \ RowNames(base)
       PROVE  \E i \in DOMAIN images : r \in RowNames(images[i]) /\ TableView(images[i])[r] = TableView(merged)[r]
  <2>1. PICK k \in DOMAIN rows : r = name(k)
    BY DEF RowNames, ToSet
  <2>2. RowOf(merged, r) = rows[k]
    BY <1>8, <2>1, RowFound
  <2>3. k - m \in 1..n /\ FromD(k, k - m)
    BY <1>3, <1>5, <1>11, <2>1
  <2> DEFINE i == k - m
             d == selections.rows[i].donor
  <2>4. /\ d \in DOMAIN images /\ r \in RowNames(images[d]) /\ r = selections.rows[i].row
        /\ RowMade(merged, images[d], RowOf(images[d], r), RowOf(merged, r))
        /\ RowMeans(merged, images[d], RowOf(images[d], r), RowOf(merged, r))
    BY <1>6, <2>1, <2>2, <2>3
  <2> HIDE DEF d, i
  <2>5. Readable(images[d])
    BY <1>1, <2>4
  <2>6. TableView(images[d])[r] = TableView(merged)[r]
    BY <1>11, <2>4, <2>5, SameView
  <2> QED
    BY <2>4, <2>6
<1>12. TableMerged(images, carrier, selections, merged)
  BY <1>2, <1>9, <1>10, <1>11 DEF TableMerged
<1> QED
  BY <1>12 DEF merged

\* What the build of a data table gives to the merge of the tables: the images of
\* the Paks, and what the choices select of them.
ImagesOf(paks, u) == [i \in DOMAIN paks |-> Image(paks[i], u)]
RowsAsked(plan, u) == {c \in plan.conflicts : c.blocking /\ c.id.row # << >> /\ Folded(c.id.asset) = u.key}
DonorsOf(plan, choices, u, paks) ==
  [c \in RowsAsked(plan, u) |-> CHOOSE i \in DOMAIN paks : paks[i].id = choices[c.id]]
Wanted(plan, path, image, donor) ==
  {[row |-> c.id.row[1], donor |-> donor[c], fields |-> ConflictFields(plan, path, image, c)] :
     c \in {x \in DOMAIN donor : x.id.row[1] \in RowNames(image)}}
Selected(plan, path, images, base, donor) ==
  [fields |-> UNION {{[row |-> w.row, field |-> f, donor |-> w.donor] : f \in w.fields} :
                       w \in Wanted(plan, path, images[base], donor)},
   rows |-> RowSelections(images, base, donor)]
SelectedBy(plan, choices, u, paks, base) ==
  Selected(plan, SpelledAs(paks[base], u), ImagesOf(paks, u), base, DonorsOf(plan, choices, u, paks))

\* A data table that could be built is the merged table of what was selected.
LEMMA BuiltTableIs ==
  ASSUME NEW registry, NEW plan, NEW choices, NEW u, NEW paks, NEW base, IsTable(paks[base], u),
         BuiltDatabase(registry, plan, choices, u, paks, base).built
  PROVE  LET images == ImagesOf(paks, u)
             selections == SelectedBy(plan, choices, u, paks, base)
         IN /\ CanMergeTable(images, base, selections)
            /\ BuiltDatabase(registry, plan, choices, u, paks, base).files =
                 TableBlobs(paks[base], u, MergedTable(images, base, selections))
<1> DEFINE images == ImagesOf(paks, u)
           path == SpelledAs(paks[base], u)
           donor == DonorsOf(plan, choices, u, paks)
           selections == SelectedBy(plan, choices, u, paks, base)
           wanted == Wanted(plan, path, images[base], donor)
           known == \A w \in wanted : w.fields # {}
           b == BuiltDatabase(registry, plan, choices, u, paks, base)
<1>1. b = BuiltTable(plan, path, paks, u, base, donor)
  BY Zenon DEF BuiltDatabase, DonorsOf, RowsAsked
<1> HIDE DEF b, donor, path
<1>2. b = WithSelections(paks[base], u, images, base, wanted, RowSelections(images, base, donor))
  BY <1>1, Zenon DEF BuiltTable, ImagesOf, Wanted
<1>3. selections = Selected(plan, path, images, base, donor)
  BY Zenon DEF SelectedBy, path, donor
<1>4. b = TablesBuilt(paks[base], u, images, base, known, selections)
  BY <1>2, <1>3, Zenon DEF WithSelections, Selected
<1> HIDE DEF images, known, selections, wanted
<1> DEFINE merged == MergedTable(images, base, selections)
<1>5. \/ /\ CanMergeTable(images, base, selections)
         /\ b = [built |-> TRUE, audited |-> {}, files |-> TableBlobs(paks[base], u, merged)]
      \/ b = [built |-> FALSE, audited |-> {}, files |-> {}]
  BY <1>4, Zenon DEF TablesBuilt
<1> HIDE DEF merged
<1>6. b.built
  BY DEF b
<1>7. CanMergeTable(images, base, selections) /\ b.files = TableBlobs(paks[base], u, merged)
  BY <1>5, <1>6
<1> QED
  BY <1>7, Zenon DEF merged, b, images, selections

\* The names of the rows of a table that can be read, and those of its fields, are
\* finitely many.
LEMMA NamesFinite ==
  ASSUME NEW image, Readable(image)
  PROVE  /\ IsFiniteSet(RowNames(image))
         /\ IsFiniteSet(UNION {ToSet(FieldNames(image, RowOf(image, r))) : r \in RowNames(image)})
<1> DEFINE rows == image.table.rows
           name(i) == NameOf(image.header, rows[i].name)
           fields(r) == ToSet(FieldNames(image, RowOf(image, r)))
           g == [i \in DOMAIN rows |-> name(i)]
           h == [r \in RowNames(image) |-> fields(r)]
<1>1. IsFiniteSet(DOMAIN rows)
  <2>1. rows \in Seq(ToSet(rows))
    BY RowsOfImage
  <2>2. DOMAIN rows = 1..Len(rows) /\ Len(rows) \in Nat
    BY <2>1, LenProperties
  <2> QED
    BY <2>2, FS_Interval
<1>2. IsFiniteSet(RowNames(image))
  <2>1. DOMAIN g = DOMAIN rows /\ \A t \in RowNames(image) : \E i \in DOMAIN rows : t = g[i]
    BY DEF RowNames, ToSet
  <2> HIDE DEF g
  <2> QED
    BY <1>1, <2>1, ReachedIsFinite
<1>3. ASSUME NEW r \in RowNames(image) PROVE IsFiniteSet(fields(r))
  <2> DEFINE row == RowOf(image, r)
             f == [j \in DOMAIN row.fields |-> Text(image.header, row.fields[j].name)]
  <2>1. row.fields \in Seq(ToSet(row.fields))
    BY RowIs DEF RowReads
  <2>2. IsFiniteSet(DOMAIN row.fields)
    <3>1. DOMAIN row.fields = 1..Len(row.fields) /\ Len(row.fields) \in Nat
      BY <2>1, LenProperties
    <3> QED
      BY <3>1, FS_Interval
  <2>3. DOMAIN f = DOMAIN row.fields /\ \A t \in fields(r) : \E j \in DOMAIN row.fields : t = f[j]
    BY DEF FieldNames, ToSet
  <2> HIDE DEF f, row, fields
  <2> QED
    BY <2>2, <2>3, ReachedIsFinite
<1>4. IsFiniteSet({fields(r) : r \in RowNames(image)})
  <2>1. DOMAIN h = RowNames(image) /\ \A t \in {fields(r) : r \in RowNames(image)} : \E r \in RowNames(image) : t = h[r]
    OBVIOUS
  <2> HIDE DEF h, fields
  <2> QED
    BY <1>2, <2>1, ReachedIsFinite
<1>5. \A x \in {fields(r) : r \in RowNames(image)} : IsFiniteSet(x)
  BY <1>3
<1> HIDE DEF fields
<1>6. IsFiniteSet(UNION {fields(r) : r \in RowNames(image)})
  BY <1>4, <1>5, FS_UNION
<1> QED
  BY <1>2, <1>6, Zenon DEF fields

\* A field that is selected is of a row that some choice names, and of the donor
\* of that choice.
LEMMA FieldSelected ==
  ASSUME NEW plan, NEW path, NEW images, NEW base, NEW donor,
         NEW s \in Selected(plan, path, images, base, donor).fields
  PROVE  /\ s = [row |-> s.row, field |-> s.field, donor |-> s.donor] /\ s.row \in RowNames(images[base])
         /\ \E c \in DOMAIN donor : s.row = c.id.row[1] /\ s.donor = donor[c]
<1> DEFINE wanted == Wanted(plan, path, images[base], donor)
<1>1. s \in UNION {{[row |-> w.row, field |-> f, donor |-> w.donor] : f \in w.fields} : w \in wanted}
  BY DEF Selected
<1> HIDE DEF wanted
<1>2. PICK w \in wanted : \E f \in w.fields : s = [row |-> w.row, field |-> f, donor |-> w.donor]
  BY <1>1
<1>3. PICK f \in w.fields : s = [row |-> w.row, field |-> f, donor |-> w.donor]
  BY <1>2
<1>4. s.row = w.row /\ s.field = f /\ s.donor = w.donor
  BY <1>3
<1>5. PICK c \in DOMAIN donor : /\ c.id.row[1] \in RowNames(images[base])
                                /\ w = [row |-> c.id.row[1], donor |-> donor[c], fields |-> ConflictFields(plan, path, images[base], c)]
  BY <1>2 DEF wanted, Wanted
<1>6. w.row = c.id.row[1] /\ w.donor = donor[c]
  <2> DEFINE fields == ConflictFields(plan, path, images[base], c)
  <2>1. w = [row |-> c.id.row[1], donor |-> donor[c], fields |-> fields]
    BY <1>5
  <2> HIDE DEF fields
  <2> QED
    BY <2>1
<1> QED
  BY <1>3, <1>4, <1>5, <1>6

\* A row that the base does not have is taken once, from a Pak that has it or is
\* chosen for it.
LEMMA RowsSelected ==
  ASSUME NEW n \in Nat, NEW images, DOMAIN images = 1..n, \A i \in DOMAIN images : Readable(images[i]),
         NEW base, NEW donor, \A c \in DOMAIN donor : donor[c] \in DOMAIN images
  PROVE  LET rows == RowSelections(images, base, donor) IN
         /\ rows \in Seq(ToSet(rows))
         /\ \A i \in DOMAIN rows : rows[i].donor \in DOMAIN images /\ rows[i].row \notin RowNames(images[base])
         /\ \A i, j \in DOMAIN rows : rows[i].row = rows[j].row => i = j
<1> DEFINE chosen(r) == {donor[c] : c \in {x \in DOMAIN donor : x.id.row = <<r>>}}
           having(r) == {i \in DOMAIN images : r \in RowNames(images[i])}
           all == UNION {RowNames(images[i]) : i \in DOMAIN images}
           added == all \ RowNames(images[base])
           from(r) == Least(IF chosen(r) # {} THEN chosen(r) ELSE having(r))
           X == {[row |-> r, donor |-> from(r)] : r \in added}
           rows == RowSelections(images, base, donor)
<1>1. rows = SetToSeq(X)
  BY Zenon DEF RowSelections
<1>2. ASSUME NEW r \in added PROVE from(r) \in DOMAIN images
  <2>1. \A S \in SUBSET (DOMAIN images) : S # {} => Least(S) \in S
    <3> SUFFICES ASSUME NEW S \in SUBSET (DOMAIN images), S # {} PROVE Least(S) \in S
      OBVIOUS
    <3>1. S \in SUBSET Nat
      OBVIOUS
    <3> QED
      BY <3>1, LeastOf
  <2>2. chosen(r) \in SUBSET (DOMAIN images) /\ having(r) \in SUBSET (DOMAIN images) /\ having(r) # {}
    OBVIOUS
  <2> HIDE DEF chosen, having
  <2> QED
    BY <2>1, <2>2
<1>3. IsFiniteSet(all)
  <2> DEFINE h == [i \in DOMAIN images |-> RowNames(images[i])]
  <2>1. IsFiniteSet(DOMAIN images)
    BY FS_Interval
  <2>2. DOMAIN h = DOMAIN images /\ \A t \in {RowNames(images[i]) : i \in DOMAIN images} : \E i \in DOMAIN images : t = h[i]
    OBVIOUS
  <2> HIDE DEF h
  <2>3. IsFiniteSet({RowNames(images[i]) : i \in DOMAIN images})
    BY <2>1, <2>2, ReachedIsFinite
  <2>4. \A x \in {RowNames(images[i]) : i \in DOMAIN images} : IsFiniteSet(x)
    BY NamesFinite
  <2> QED
    BY <2>3, <2>4, FS_UNION
<1> HIDE DEF from, all, rows
<1>4. IsFiniteSet(added)
  <2>1. added \in SUBSET all
    OBVIOUS
  <2> QED
    BY <1>3, <2>1, FS_Subset
<1>5. \A r \in added : r \notin RowNames(images[base])
  OBVIOUS
<1> HIDE DEF added
<1>6. IsFiniteSet(X)
  <2> DEFINE g == [r \in added |-> [row |-> r, donor |-> from(r)]]
  <2>1. DOMAIN g = added /\ \A t \in X : \E r \in added : t = g[r]
    OBVIOUS
  <2> HIDE DEF g, X
  <2> QED
    BY <1>4, <2>1, ReachedIsFinite
<1>7. \A x \in X : x.row \in added /\ x.donor = from(x.row) /\ x = [row |-> x.row, donor |-> from(x.row)]
  OBVIOUS
<1> HIDE DEF X
<1>8. rows \in Seq(X) /\ \A i, j \in DOMAIN rows : rows[i] = rows[j] => i = j
  BY <1>1, <1>6, Listed
<1>9. rows \in Seq(ToSet(rows)) /\ \A i \in DOMAIN rows : rows[i] \in X
  BY <1>8, OwnMembers DEF ToSet
<1>10. \A i \in DOMAIN rows : rows[i].donor \in DOMAIN images /\ rows[i].row \notin RowNames(images[base])
  BY <1>2, <1>5, <1>7, <1>9
<1>11. \A i, j \in DOMAIN rows : rows[i].row = rows[j].row => i = j
  BY <1>7, <1>8, <1>9
<1> QED
  BY <1>9, <1>10, <1>11 DEF rows

\* What is selected is what the merge of the tables is proved for.
LEMMA SelectedIsGiven ==
  ASSUME NEW n \in Nat, NEW images, DOMAIN images = 1..n, \A i \in DOMAIN images : Readable(images[i]),
         NEW base \in DOMAIN images, NEW plan, NEW path, NEW donor, \A c \in DOMAIN donor : donor[c] \in DOMAIN images,
         CanMergeTable(images, base, Selected(plan, path, images, base, donor))
  PROVE  TablesGiven(images, base, Selected(plan, path, images, base, donor))
<1> DEFINE selections == Selected(plan, path, images, base, donor)
           names == UNION {ToSet(FieldNames(images[base], RowOf(images[base], r))) : r \in RowNames(images[base])}
<1>1. /\ IsFiniteSet(RowNames(images[base])) /\ IsFiniteSet(names) /\ IsFiniteSet(DOMAIN images)
  <2>1. IsFiniteSet(RowNames(images[base])) /\ IsFiniteSet(names)
    BY NamesFinite
  <2>2. IsFiniteSet(DOMAIN images)
    BY FS_Interval
  <2> QED
    BY <2>1, <2>2
<1>2. \A s \in selections.fields : HasField(images[base], s.row, s.field)
  BY DEF CanMergeTable, SelectionsFit
<1>3. \A s \in selections.fields :
        /\ s = [row |-> s.row, field |-> s.field, donor |-> s.donor] /\ s.row \in RowNames(images[base])
        /\ s.donor \in DOMAIN images
  BY FieldSelected
<1>4. selections.rows = RowSelections(images, base, donor)
  BY DEF Selected
<1>5. CanMergeTable(images, base, selections)
  OBVIOUS
<1> HIDE DEF selections
<1>6. \A s \in selections.fields : s.field \in names
  BY <1>2, <1>3 DEF HasField
<1> HIDE DEF names
<1>7. IsFiniteSet(selections.fields)
  <2> DEFINE P == RowNames(images[base]) \X (names \X DOMAIN images)
             g == [p \in P |-> [row |-> p[1], field |-> p[2][1], donor |-> p[2][2]]]
  <2>1. IsFiniteSet(names \X DOMAIN images)
    BY <1>1, FS_Product
  <2>2. IsFiniteSet(P)
    BY <1>1, <2>1, FS_Product
  <2>3. \A s \in selections.fields : \E p \in P : s = g[p]
    <3> TAKE s \in selections.fields
    <3> DEFINE p == <<s.row, <<s.field, s.donor>>>>
    <3>1. p \in P /\ p[1] = s.row /\ p[2][1] = s.field /\ p[2][2] = s.donor
      BY <1>3, <1>6
    <3> HIDE DEF P, p
    <3>2. g[p] = [row |-> s.row, field |-> s.field, donor |-> s.donor]
      BY <3>1
    <3> QED
      BY <1>3, <3>1, <3>2
  <2>4. DOMAIN g = P
    OBVIOUS
  <2> HIDE DEF P, g
  <2> QED
    BY <2>2, <2>3, <2>4, ReachedIsFinite
<1>8. /\ selections.rows \in Seq(ToSet(selections.rows))
      /\ \A i \in DOMAIN selections.rows :
           selections.rows[i].donor \in DOMAIN images /\ selections.rows[i].row \notin RowNames(images[base])
      /\ \A i, j \in DOMAIN selections.rows : selections.rows[i].row = selections.rows[j].row => i = j
  BY <1>4, RowsSelected
<1>9. TablesGiven(images, base, selections)
  BY <1>3, <1>5, <1>7, <1>8 DEF TablesGiven, SelectionsGiven
<1> QED
  BY <1>9 DEF selections

\* A conflict of rows is about one row, between Paks that are compared.
LEMMA RowOfConflict ==
  ASSUME NEW views, NEW base, NEW groups, NEW c \in RowConflicts(views, base, groups)
  PROVE  c.among \subseteq DOMAIN views /\ \E r : c.row = <<r>>
<1>1. PICK r : c \in (IF r \in DOMAIN views[base] THEN BaseRowConflicts(views, base, groups, r) ELSE AddedRowConflicts(views, r))
  BY DEF RowConflicts
<1>2. CASE c \in BaseRowConflicts(views, base, groups, r)
  <2> DEFINE have == Having(views, r)
  <2>1. \E group, blocking : c = [row |-> <<r>>, group |-> group, among |-> have, blocking |-> blocking]
    BY <1>2, Zenon DEF BaseRowConflicts
  <2>2. have \subseteq DOMAIN views
    BY DEF Having
  <2> HIDE DEF have
  <2> QED
    BY <2>1, <2>2
<1>3. CASE c \in AddedRowConflicts(views, r)
  <2> DEFINE have == Having(views, r)
             alike(S) == Cardinality(S) = 1
             sems == {<<views[i][r].order, views[i][r].sem>> : i \in have}
             raws == {<<views[i][r].order, views[i][r].raw>> : i \in have}
  <2>1. AddedRowConflicts(views, r) = IF alike(raws) THEN {}
                                      ELSE {[row |-> <<r>>, group |-> WholeRow, among |-> have, blocking |-> ~alike(sems)]}
    BY Zenon DEF AddedRowConflicts
  <2>2. have \subseteq DOMAIN views
    BY DEF Having
  <2> HIDE DEF have, alike, sems, raws
  <2>3. c = [row |-> <<r>>, group |-> WholeRow, among |-> have, blocking |-> ~alike(sems)]
    BY <1>3, <2>1
  <2>4. c.row = <<r>> /\ c.among = have
    BY <2>3
  <2> QED
    BY <2>2, <2>4
<1> QED
  BY <1>1, <1>2, <1>3

\* A choice about a row of a merged unit is of a conflict of that unit, and names
\* one of the Paks that have it.
LEMMA DonorChosen ==
  ASSUME NEW o, Follows(o), NEW u \in MergedThere(o),
         NEW c \in RowsAsked(PlanOf(o.registry, o.compared.request, o.compared.inputs), u)
  PROVE  LET paks == Providers(OpenedFor(o.compared.request, o.compared.inputs), u) IN
         /\ \E i \in DOMAIN paks : paks[i].id = o.choices[c.id]
         /\ c.id \in DOMAIN o.choices /\ About(o, c.id, SeenUnit(o.mount, u))
<1> DEFINE request == o.compared.request
           ids == o.compared.inputs
           n == o.registry
           opened == OpenedFor(request, ids)
           units == UnitsIn(opened)
           Of(v) == OutcomeOf(n, request, ids, v)
           plan == PlanOf(n, request, ids)
           paks == Providers(opened, u)
<1>1. Ready(request, ids) /\ CanWrite(n, request, ids, o.choices)
  BY DEF Follows
<1>2. c \in plan.conflicts /\ c.blocking /\ c.id.row # << >> /\ Folded(c.id.asset) = u.key
  BY DEF RowsAsked
<1>3. PICK v \in units : c \in Of(v).conflicts
  BY <1>2, PartsByUnit
<1>4. c.id.unit = v.kind /\ Folded(c.id.asset) = v.key /\ About(o, c.id, SeenUnit(o.mount, v))
  BY <1>3, ConflictsAbout
<1>5. OutcomeIs(Of(v), v, Providers(opened, v), BaseOf(opened, v))
  BY <1>1, UnitOutcome
<1>6. c.id \in DOMAIN o.choices /\ o.choices[c.id] \in c.id.inputs
  BY <1>1, <1>2 DEF CanWrite, ResolutionsFit
<1>7. v \in Units
  BY <1>1, UnitThere
<1>8. Of(v).asset.action = "MergeDatabase" => v \in MergedThere(o)
  BY <1>3 DEF MergedThere
<1>9. \A x \in MergedThere(o) : x \in Units /\ x.kind = "package"
  BY MergedAssets
<1> HIDE DEF request, ids, n, opened, units, Of, plan
<1> DEFINE ps == Providers(opened, v)
           path == SpelledAs(ps[BaseOf(opened, v)], v)
<1>10. Of(v).asset.action = "MergeDatabase" /\ ComparedRows(v, ps, BaseOf(opened, v), path, Of(v).conflicts)
  <2>1. Of(v).conflicts # {}
    BY <1>3
  <2>2. Of(v).conflicts # {MakeConflict(v, SpelledAs(ps[1], v), WholeFile(ps), ps)}
    <3> SUFFICES ASSUME c = MakeConflict(v, SpelledAs(ps[1], v), WholeFile(ps), ps) PROVE FALSE
      BY <1>3
    <3>1. c.id.row = << >>
      BY DEF MakeConflict, WholeFile
    <3> QED
      BY <1>2, <3>1
  <2> QED
    BY <1>5, <2>1, <2>2 DEF OutcomeIs
<1>11. v = u
  <2>1. u = [kind |-> u.kind, key |-> u.key] /\ v = [kind |-> v.kind, key |-> v.key]
    BY <1>7, <1>9, UnitForm DEF Units
  <2>2. u.kind = v.kind /\ u.key = v.key
    BY <1>2, <1>4, <1>8, <1>9, <1>10
  <2> QED
    BY <2>1, <2>2
<1>12. PICK groups, x : x \in RowConflicts(Views(ps, v), BaseOf(opened, v), groups) /\ c = MakeConflict(v, path, x, ps)
  BY <1>3, <1>10 DEF ComparedRows
<1>13. x.among \subseteq DOMAIN ps
  <2>1. DOMAIN Views(ps, v) = DOMAIN ps
    BY DEF Views
  <2> QED
    BY <1>12, <2>1, RowOfConflict
<1>14. c.id.inputs = {ps[i].id : i \in x.among}
  <2> HIDE DEF path, ps
  <2> QED
    BY <1>12 DEF MakeConflict
<1>15. PICK i \in x.among : o.choices[c.id] = ps[i].id
  BY <1>6, <1>14
<1> QED
  BY <1>4, <1>6, <1>11, <1>13, <1>15 DEF paks, opened, request, ids

\* A data table of a Pak that is open can be read.
LEMMA ImageReads ==
  ASSUME NEW request, NEW ids, Ready(request, ids), NEW u \in UnitsIn(OpenedFor(request, ids)),
         NEW k \in DOMAIN Providers(OpenedFor(request, ids), u),
         IsDatabaseCandidate(Providers(OpenedFor(request, ids), u)[k], u),
         IsTable(Providers(OpenedFor(request, ids), u)[k], u)
  PROVE  Readable(Image(Providers(OpenedFor(request, ids), u)[k], u))
<1> DEFINE opened == OpenedFor(request, ids)
           paks == Providers(opened, u)
           pak == paks[k]
<1>1. Component(pak, u, "uasset") \in FilesOf(pak, u) /\ Component(pak, u, "uexp") \in FilesOf(pak, u)
  BY Components
<1>2. IsTable(pak, u)
  OBVIOUS
<1>3. PICK i \in 1..Len(ids) : pak = opened.paks[i]
  <2>1. /\ HaveUnit(opened, u) \subseteq 1..Len(ids) /\ DOMAIN paks = 1..Cardinality(HaveUnit(opened, u))
        /\ \A j \in 1..Cardinality(HaveUnit(opened, u)) : \E i \in HaveUnit(opened, u) : paks[j] = opened.paks[i]
    BY ProvidersOf
  <2>2. k \in DOMAIN paks
    OBVIOUS
  <2> HIDE DEF opened, paks
  <2> QED
    BY <2>1, <2>2
<1>4. ASSUME NEW f \in FilesOf(pak, u)
      PROVE  /\ f.blob.kind = "header" => HeaderShape(f.blob.header)
             /\ f.blob.kind = "table" => TableShape(f.blob.table)
  <2> DEFINE files == Contents[ids[i]].files
             own == opened.paks[i].files
             rest == Rest(MountsOf(ids)[i], CommonLength(MountsOf(ids)))
  <2>1. /\ ids[i] \in DOMAIN Contents /\ DOMAIN own = 1..Len(files) /\ DOMAIN files = 1..Len(files)
        /\ \A j \in 1..Len(files) : own[j] = Rebased(rest, files[j])
    <3>1. /\ ids \in Seq(DOMAIN Contents) /\ DOMAIN own = 1..Len(files) /\ DOMAIN files = 1..Len(files)
          /\ \A j \in 1..Len(files) : own[j] = Rebased(rest, files[j])
      BY OpenedPaks
    <3> QED
      BY <3>1, ElementOfSeq
  <2>2. f \in ToSet(own)
    BY <1>3, <1>4 DEF FilesOf
  <2> HIDE DEF files, own, rest
  <2>3. PICK j \in 1..Len(files) : f = Rebased(rest, files[j])
    BY <2>1, <2>2 DEF ToSet
  <2>4. f.blob = files[j].blob /\ files[j] \in ToSet(files)
    BY <2>1, <2>3 DEF Rebased, ToSet
  <2> QED
    BY <2>1, <2>4, TablesAssumption DEF files
<1> HIDE DEF pak
<1>5. HeaderShape(Header(pak, u).header) /\ TableShape(Payload(pak, u).table)
  BY <1>1, <1>2, <1>4 DEF IsTable, Header, Payload
<1>6. Readable(Image(pak, u))
  <2> DEFINE h == Header(pak, u).header
             t == Payload(pak, u).table
             image == Image(pak, u)
  <2>1. image = [header |-> h, table |-> t] /\ ImageFits([header |-> h, table |-> t])
    BY <1>2 DEF Image, IsTable
  <2>2. HeaderShape(h) /\ TableShape(t)
    BY <1>5
  <2> HIDE DEF h, t, image
  <2>3. image.header = h /\ image.table = t /\ ImageFits(image)
    BY <2>1
  <2>4. Readable(image)
    BY <2>2, <2>3 DEF Readable
  <2> QED
    BY <2>4 DEF image
<1> QED
  BY <1>6 DEF pak

\* The image of a data table, as the game sees it, is that of the Pak.
LEMMA ImageSeen ==
  ASSUME NEW o, Follows(o), NEW u \in UnitsIn(OpenedFor(o.compared.request, o.compared.inputs)),
         NEW k \in DOMAIN Providers(OpenedFor(o.compared.request, o.compared.inputs), u),
         IsDatabaseCandidate(Providers(OpenedFor(o.compared.request, o.compared.inputs), u)[k], u)
  PROVE  LET pak == Providers(OpenedFor(o.compared.request, o.compared.inputs), u)[k] IN
         Image(GamePak(pak.id), SeenUnit(o.mount, u)) = Image(pak, u)
<1> DEFINE pak == Providers(OpenedFor(o.compared.request, o.compared.inputs), u)[k]
           U == SeenUnit(o.mount, u)
<1>1. Component(GamePak(pak.id), U, "uasset").blob = Component(pak, u, "uasset").blob
  BY ComponentSeen
<1>2. Component(GamePak(pak.id), U, "uexp").blob = Component(pak, u, "uexp").blob
  BY ComponentSeen
<1> HIDE DEF pak, U
<1>3. Image(GamePak(pak.id), U) = Image(pak, u)
  BY <1>1, <1>2 DEF Image, Header, Payload
<1> QED
  BY <1>3 DEF pak, U

\* A merged database in the merged Pak, as the game sees it, is what was built.
LEMMA BuiltSeen ==
  ASSUME NEW o, Follows(o), NEW u \in MergedThere(o), NEW header, NEW payload,
         MadeOf(o.registry, o.compared.request, o.compared.inputs, o.choices, u).files =
           DatabaseFiles(Providers(OpenedFor(o.compared.request, o.compared.inputs), u)
                           [BaseOf(OpenedFor(o.compared.request, o.compared.inputs), u)], u, header, payload)
  PROVE  LET U == SeenUnit(o.mount, u) IN Header(OutputPak(o), U) = header /\ Payload(OutputPak(o), U) = payload
<1> DEFINE request == o.compared.request
           ids == o.compared.inputs
           n == o.registry
           opened == OpenedFor(request, ids)
           entries == EntriesFor(n, request, ids, o.choices)
           paks == Providers(opened, u)
           base == BaseOf(opened, u)
           m == o.mount
           U == SeenUnit(m, u)
           S(f) == [path |-> Folded(m \o f.path), own |-> << >>, blob |-> f.blob]
           c(ext) == Component(paks[base], u, ext)
           made == MadeOf(n, request, ids, o.choices, u).files
           out == OutputPak(o)
<1>1. Ready(request, ids) /\ CanWrite(n, request, ids, o.choices)
  BY DEF Follows
<1>2. u \in UnitsIn(opened) /\ OutcomeOf(n, request, ids, u).asset.action = "MergeDatabase"
  BY DEF MergedThere
<1>3. base \in DOMAIN paks
  BY <1>1, <1>2, BaseIsThere
<1>4. IsDatabaseCandidate(paks[base], u)
  BY <1>1, <1>2, <1>3, MergedUnit
<1>5. \A ext \in {"uasset", "uexp"} : c(ext) \in FilesOf(paks[base], u) /\ Ext[Last(c(ext).path)] = ext
  BY <1>4, Components
<1>6. u \in Units /\ \A f \in FilesOf(paks[base], u) : f.path \in Paths
  BY <1>1, <1>2, <1>3, UnitThere
<1>7. m \in Seq(Name) /\ ToSet(out.files) = AsSeen(m, entries)
  BY OutputFiles
<1>8. (\A e \in entries : e.path \in Paths) /\ InUnit(entries, u) = made
  BY <1>1, <1>2, EntriesOfUnit
<1>9. made = DatabaseFiles(paks[base], u, header, payload)
  OBVIOUS
<1> HIDE DEF request, ids, n, opened, entries, paks, base, m, U, made, out
<1>10. FilesOf(out, U) = AsSeen(m, made)
  <2>1. FilesOf(out, U) = InUnit(AsSeen(m, entries), U)
    BY <1>7 DEF FilesOf, InUnit
  <2>2. InUnit(AsSeen(m, entries), SeenUnit(m, u)) = AsSeen(m, InUnit(entries, u))
    BY <1>6, <1>7, <1>8, SeenOfUnit
  <2> QED
    BY <1>8, <2>1, <2>2 DEF U
<1> DEFINE a == [path |-> c("uasset").path, from |-> << >>, blob |-> header]
           b == [path |-> c("uexp").path, from |-> << >>, blob |-> payload]
<1>11. made = {a, b}
  BY <1>9 DEF DatabaseFiles
<1>12. a.path \in Paths /\ b.path \in Paths /\ Ext[Last(a.path)] = "uasset" /\ Ext[Last(b.path)] = "uexp"
       /\ a.blob = header /\ b.blob = payload
  BY <1>5, <1>6
<1> HIDE DEF a, b, c
<1>13. FilesOf(out, U) = {S(a), S(b)}
  BY <1>10, <1>11 DEF AsSeen
<1>14. /\ Ext[Last(S(a).path)] = "uasset" /\ Ext[Last(S(b).path)] = "uexp" /\ S(a).blob = header /\ S(b).blob = payload
  <2>1. Ext[Last(Folded(m \o a.path))] = Ext[Last(a.path)] /\ Ext[Last(Folded(m \o b.path))] = Ext[Last(b.path)]
    BY <1>7, <1>12, SeenPath DEF Paths
  <2> QED
    BY <1>12, <2>1
<1> HIDE DEF S
<1>15. Component(out, U, "uasset") = S(a)
  <2>1. \A f \in FilesOf(out, U) : Ext[Last(f.path)] = "uasset" <=> f = S(a)
    BY <1>13, <1>14
  <2>2. S(a) \in FilesOf(out, U)
    BY <1>13
  <2> QED
    BY <2>1, <2>2 DEF Component
<1>16. Component(out, U, "uexp") = S(b)
  <2>1. \A f \in FilesOf(out, U) : Ext[Last(f.path)] = "uexp" <=> f = S(b)
    BY <1>13, <1>14
  <2>2. S(b) \in FilesOf(out, U)
    BY <1>13
  <2> QED
    BY <2>1, <2>2 DEF Component
<1>17. Header(out, U) = header /\ Payload(out, U) = payload
  BY <1>14, <1>15, <1>16 DEF Header, Payload
<1> QED
  BY <1>17 DEF out, U, m

\* The images of a data table that is merged can be read, and what is selected of
\* them is what the merge of the tables is proved for.
TableOf(o, u) ==
  MergedTable(ImagesOf(Providers(OpenedFor(o.compared.request, o.compared.inputs), u), u),
              BaseOf(OpenedFor(o.compared.request, o.compared.inputs), u),
              SelectedBy(PlanOf(o.registry, o.compared.request, o.compared.inputs), o.choices, u,
                         Providers(OpenedFor(o.compared.request, o.compared.inputs), u),
                         BaseOf(OpenedFor(o.compared.request, o.compared.inputs), u)))

\* A merged data table is written as that merge makes it.
LEMMA TableGiven ==
  ASSUME NEW o, Follows(o), NEW u \in TablesThere(o)
  PROVE  LET paks == Providers(OpenedFor(o.compared.request, o.compared.inputs), u)
             base == BaseOf(OpenedFor(o.compared.request, o.compared.inputs), u)
             plan == PlanOf(o.registry, o.compared.request, o.compared.inputs)
         IN /\ base \in DOMAIN paks /\ \A k \in DOMAIN paks : IsDatabaseCandidate(paks[k], u)
            /\ TablesGiven(ImagesOf(paks, u), base, SelectedBy(plan, o.choices, u, paks, base))
            /\ MadeOf(o.registry, o.compared.request, o.compared.inputs, o.choices, u).files =
                 TableBlobs(paks[base], u, TableOf(o, u))
<1> DEFINE request == o.compared.request
           ids == o.compared.inputs
           n == o.registry
           opened == OpenedFor(request, ids)
           paks == Providers(opened, u)
           base == BaseOf(opened, u)
           plan == PlanOf(n, request, ids)
           path == SpelledAs(paks[base], u)
           images == ImagesOf(paks, u)
           donor == DonorsOf(plan, o.choices, u, paks)
           selections == SelectedBy(plan, o.choices, u, paks, base)
           p == MadeOf(n, request, ids, o.choices, u)
           b == BuiltDatabase(Registry(n), plan, o.choices, u, paks, base)
           asset == OutcomeOf(n, request, ids, u).asset
<1>1. Ready(request, ids) /\ CanWrite(n, request, ids, o.choices)
  BY DEF Follows
<1>2. u \in MergedThere(o) /\ u \in UnitsIn(opened) /\ asset.action = "MergeDatabase" /\ IsTable(paks[base], u)
  BY DEF TablesThere, MergedThere
<1>3. /\ base \in DOMAIN paks /\ DOMAIN paks = 1..Len(paks) /\ Len(paks) \in Nat
  BY <1>1, <1>2, BaseIsThere
<1>4. /\ \A k \in DOMAIN paks : IsDatabaseCandidate(paks[k], u)
      /\ \/ \A k \in DOMAIN paks : IsTable(paks[k], u)
         \/ \A k \in DOMAIN paks : IsRows(paks[k], u)
  BY <1>1, <1>2, MergedUnit
<1>5. \A k \in DOMAIN paks : IsTable(paks[k], u)
  <2>1. Header(paks[base], u).kind = "header"
    BY <1>2 DEF IsTable
  <2>2. ~IsRows(paks[base], u)
    BY <2>1 DEF IsRows
  <2> QED
    BY <1>3, <1>4, <2>2
<1>6. \A k \in DOMAIN paks : Readable(Image(paks[k], u))
  BY <1>1, <1>2, <1>4, <1>5, ImageReads
<1>7. DOMAIN images = 1..Len(paks) /\ base \in DOMAIN images /\ \A k \in DOMAIN images : Readable(images[k])
  BY <1>3, <1>6 DEF ImagesOf
<1>8. \A c \in RowsAsked(plan, u) : \E i \in DOMAIN paks : paks[i].id = o.choices[c.id]
  BY <1>2, DonorChosen
<1>9. PreparedIs(p, asset, u, paks, base, Registry(n), plan, o.choices)
  BY <1>1, <1>2, PreparedCases DEF MadeOf, OutcomeOf
<1>10. p.built
  <2>1. p \in PreparedFor(n, request, ids, o.choices)
    BY <1>2, PartsByUnit
  <2> HIDE DEF p
  <2> QED
    BY <1>1, <2>1 DEF CanWrite
<1> HIDE DEF request, ids, n, opened, paks, base, plan, asset, p, images
<1>11. p = b
  BY <1>2, <1>9 DEF PreparedIs
<1>12. \A c \in DOMAIN donor : donor[c] \in DOMAIN images
  BY <1>3, <1>7, <1>8 DEF DonorsOf
<1>13. /\ CanMergeTable(images, base, selections)
       /\ b.files = TableBlobs(paks[base], u, MergedTable(images, base, selections))
  <2>1. b.built
    BY <1>10, <1>11
  <2>2. /\ CanMergeTable(ImagesOf(paks, u), base, SelectedBy(plan, o.choices, u, paks, base))
        /\ BuiltDatabase(Registry(n), plan, o.choices, u, paks, base).files =
             TableBlobs(paks[base], u, MergedTable(ImagesOf(paks, u), base, SelectedBy(plan, o.choices, u, paks, base)))
    <3>1. IsTable(paks[base], u) /\ BuiltDatabase(Registry(n), plan, o.choices, u, paks, base).built
      BY <1>2, <2>1
    <3> QED
      BY <3>1, BuiltTableIs
  <2> QED
    BY <2>2, Zenon DEF images
<1>14. selections = Selected(plan, path, images, base, donor)
  BY Zenon DEF SelectedBy, images
<1> HIDE DEF selections, donor, path, b
<1>15. TablesGiven(images, base, selections)
  <2>1. CanMergeTable(images, base, Selected(plan, path, images, base, donor))
    BY <1>13, <1>14, Zenon
  <2>2. TablesGiven(images, base, Selected(plan, path, images, base, donor))
    BY <1>3, <1>7, <1>12, <2>1, SelectedIsGiven
  <2> QED
    BY <1>14, <2>2, Zenon
<1>16. TableOf(o, u) = MergedTable(images, base, selections)
  BY Zenon DEF TableOf, images, base, selections, plan, paks, opened, request, ids, n
<1>17. p.files = TableBlobs(paks[base], u, TableOf(o, u))
  BY <1>11, <1>13, <1>16
<1> QED
  BY <1>3, <1>4, <1>15, <1>17, Zenon DEF images, base, selections, plan, paks, opened, request, ids, n, p

\* A merged data table in the merged Pak, as the game sees it, is that table.
LEMMA TableSeen ==
  ASSUME NEW o, Follows(o), NEW u \in TablesThere(o)
  PROVE  Image(OutputPak(o), SeenUnit(o.mount, u)) = TableOf(o, u)
<1> DEFINE paks == Providers(OpenedFor(o.compared.request, o.compared.inputs), u)
           base == BaseOf(OpenedFor(o.compared.request, o.compared.inputs), u)
           merged == TableOf(o, u)
           header == [kind |-> "header", header |-> merged.header]
           payload == [kind |-> "table", table |-> merged.table]
           files == MadeOf(o.registry, o.compared.request, o.compared.inputs, o.choices, u).files
           U == SeenUnit(o.mount, u)
<1>1. files = TableBlobs(paks[base], u, merged)
  BY TableGiven
<1>2. files = DatabaseFiles(paks[base], u, header, payload)
  BY <1>1, Zenon DEF TableBlobs
<1>3. u \in MergedThere(o)
  BY DEF TablesThere
<1>4. Header(OutputPak(o), U) = header /\ Payload(OutputPak(o), U) = payload
  BY <1>2, <1>3, BuiltSeen
<1>5. merged = [header |-> merged.header, table |-> merged.table]
  <2>1. \E h, t : merged = [header |-> h, table |-> t]
    <3>1. \E h, a, t : merged = Rewritten(h, a, t)
      BY Zenon DEF TableOf, MergedTable, WithNames
    <3> HIDE DEF merged
    <3>2. PICK h, a, t : merged = Rewritten(h, a, t)
      BY <3>1
    <3> QED
      BY <3>2, Zenon DEF Rewritten
  <2> HIDE DEF merged
  <2>2. PICK h, t : merged = [header |-> h, table |-> t]
    BY <2>1
  <2> QED
    BY <2>2
<1> HIDE DEF merged, U
<1>6. Image(OutputPak(o), U) = [header |-> header.header, table |-> payload.table]
  BY <1>4, Zenon DEF Image
<1> QED
  BY <1>5, <1>6 DEF merged, U

\* What is selected of a table is of rows that some choice about it names.
LEMMA SelectedRows ==
  ASSUME NEW o, Follows(o), NEW u \in TablesThere(o),
         NEW s \in SelectedBy(PlanOf(o.registry, o.compared.request, o.compared.inputs), o.choices, u,
                              Providers(OpenedFor(o.compared.request, o.compared.inputs), u),
                              BaseOf(OpenedFor(o.compared.request, o.compared.inputs), u)).fields
  PROVE  \E id \in DOMAIN o.choices : About(o, id, SeenUnit(o.mount, u)) /\ s.row = id.row[1]
<1> DEFINE paks == Providers(OpenedFor(o.compared.request, o.compared.inputs), u)
           base == BaseOf(OpenedFor(o.compared.request, o.compared.inputs), u)
           plan == PlanOf(o.registry, o.compared.request, o.compared.inputs)
           path == SpelledAs(paks[base], u)
           images == ImagesOf(paks, u)
           donor == DonorsOf(plan, o.choices, u, paks)
<1>1. s \in Selected(plan, path, images, base, donor).fields
  BY Zenon DEF SelectedBy
<1>2. DOMAIN donor = RowsAsked(plan, u)
  BY DEF DonorsOf
<1>3. \A c \in RowsAsked(plan, u) : c.id \in DOMAIN o.choices /\ About(o, c.id, SeenUnit(o.mount, u))
  BY DonorChosen DEF TablesThere
<1> HIDE DEF paks, base, plan, path, images, donor
<1>4. \E c \in DOMAIN donor : s.row = c.id.row[1]
  BY <1>1, FieldSelected
<1> QED
  BY <1>2, <1>3, <1>4

\* A merged data table can be read again, and its rows are those of the base where
\* nobody chose anything, and otherwise one Pak's.
LEMMA TableIsRead ==
  ASSUME NEW o, Follows(o), NEW u \in TablesThere(o)
  PROVE  LET U == SeenUnit(o.mount, u) IN TableReads(o, U, Image(OutputPak(o), U), HoldersSeen(o, U))
<1> DEFINE request == o.compared.request
           ids == o.compared.inputs
           opened == OpenedFor(request, ids)
           paks == Providers(opened, u)
           base == BaseOf(opened, u)
           plan == PlanOf(o.registry, request, ids)
           images == ImagesOf(paks, u)
           selections == SelectedBy(plan, o.choices, u, paks, base)
           merged == TableOf(o, u)
           U == SeenUnit(o.mount, u)
           holders == HoldersSeen(o, U)
           game(k) == GamePak(paks[k].id)
<1>1. Ready(request, ids) /\ o.compared = plan
  BY DEF Follows
<1>2. u \in UnitsIn(opened)
  BY DEF TablesThere, MergedThere
<1>3. /\ base \in DOMAIN paks /\ (\A k \in DOMAIN paks : IsDatabaseCandidate(paks[k], u))
      /\ TablesGiven(images, base, selections)
  BY TableGiven
<1>4. merged = MergedTable(images, base, selections)
  BY Zenon DEF TableOf
<1>5. Image(OutputPak(o), U) = merged
  BY TableSeen
<1>6. /\ \A pak : pak \in holders <=> \E k \in DOMAIN paks : pak = game(k)
      /\ \A k \in DOMAIN paks : game(k).id = paks[k].id
  BY <1>2, SeenHolders
<1>7. \A k \in DOMAIN paks : Image(game(k), U) = Image(paks[k], u)
  BY <1>2, <1>3, ImageSeen
<1>8. DOMAIN images = DOMAIN paks /\ \A k \in DOMAIN paks : images[k] = Image(paks[k], u)
  BY DEF ImagesOf
<1>9. o.compared.carrier = opened.paks[opened.carrier].id
  BY <1>1, PlanParts
<1>10. \A s \in selections.fields : \E id \in DOMAIN o.choices : About(o, id, U) /\ s.row = id.row[1]
  BY SelectedRows
<1>11. DOMAIN paks \in SUBSET Nat
  <2>1. DOMAIN paks = 1..Len(paks) /\ Len(paks) \in Nat
    BY <1>1, <1>2, BaseIsThere
  <2> QED
    BY <2>1
<1>12. (\E k \in DOMAIN paks : paks[k].id = o.compared.carrier) => paks[base].id = o.compared.carrier
  <2> DEFINE at == {k \in DOMAIN paks : paks[k].id = o.compared.carrier}
  <2>1. base = IF at = {} THEN 1 ELSE Least(at)
    BY <1>9 DEF BaseOf
  <2>2. at \in SUBSET Nat
    BY <1>11
  <2>3. at # {} => Least(at) \in at
    BY <2>2, LeastOf
  <2> HIDE DEF base, paks
  <2> QED
    BY <2>1, <2>3
<1> HIDE DEF request, ids, opened, paks, base, plan, images, selections, merged, U, holders, game
<1>13. TableMerged(images, base, selections, merged)
  BY <1>3, <1>4, MergedReads, Zenon
<1>14. game(base) \in holders /\ Image(game(base), U) = images[base]
  BY <1>3, <1>6, <1>7, <1>8
<1>15. (\E pak \in holders : pak.id = o.compared.carrier) => game(base).id = o.compared.carrier
  BY <1>3, <1>6, <1>12
<1>16. /\ ImageFits(merged) /\ SectionsFound(merged.header, images[base].header, BodySize(merged.table))
       /\ \A r \in RowNames(images[base]) : (\A s \in selections.fields : s.row # r) => RowOf(merged, r) = RowOf(images[base], r)
       /\ \A r \in RowNames(merged) \ RowNames(images[base]) : \E k \in DOMAIN images :
            r \in RowNames(images[k]) /\ TableView(images[k])[r] = TableView(merged)[r]
  BY <1>13, Zenon DEF TableMerged
<1>17. RowsKept(o, U, merged, images[base], holders)
  <2> DEFINE chosen == {id.row[1] : id \in {x \in DOMAIN o.choices : About(o, x, U)}}
  <2>1. \A r \in RowNames(images[base]) \ chosen : RowOf(merged, r) = RowOf(images[base], r)
    BY <1>10, <1>16
  <2>2. ASSUME NEW r \in RowNames(merged) \ RowNames(images[base])
        PROVE  \E pak \in holders : r \in RowNames(Image(pak, U)) /\ TableView(Image(pak, U))[r] = TableView(merged)[r]
    <3>1. PICK k \in DOMAIN images : r \in RowNames(images[k]) /\ TableView(images[k])[r] = TableView(merged)[r]
      BY <1>16
    <3>2. game(k) \in holders /\ Image(game(k), U) = images[k]
      BY <1>6, <1>7, <1>8
    <3> QED
      BY <3>1, <3>2
  <2> QED
    BY <2>1, <2>2 DEF RowsKept
<1>18. TableReads(o, U, merged, holders)
  BY <1>14, <1>15, <1>16, <1>17, Zenon DEF TableReads
<1> QED
  BY <1>5, <1>18 DEF U, holders

\* A merged data table can be read again: its rows and names are where and as many
\* as it says, the sections that the base's summary has found are found, each row
\* that was not in the base is one Pak's, and a row of the base that nobody chose
\* anything in has not changed.
THEOREM TablesRead == Spec => []MergedTablesRead
<1>1. ASSUME IInv PROVE MergedTablesRead
  <2> SUFFICES ASSUME NEW o \in ToSet(output), NEW V \in MergedTables(o)
               PROVE  TableReads(o, V, Image(OutputPak(o), V), HoldersSeen(o, V))
    BY DEF MergedTablesRead
  <2>1. Follows(o)
    BY <1>1, WrittenFollows
  <2>2. PICK asset \in {x \in o.compared.assets : x.action = "MergeDatabase"} :
          V = [kind |-> "package", key |-> Folded(o.mount \o asset.virtual_path)]
    BY DEF MergedTables, MergedUnits
  <2>3. PICK u \in MergedThere(o) : asset = OutcomeOf(o.registry, o.compared.request, o.compared.inputs, u).asset
    BY <2>1, <2>2, MergedAssets
  <2>4. u.kind = "package" /\ asset.virtual_path \in Seq(Name) /\ Folded(asset.virtual_path) = u.key
    BY <2>1, <2>3, MergedAssets
  <2>5. o.mount \in Seq(Name)
    BY <2>1, OutputFiles
  <2>6. Folded(o.mount \o asset.virtual_path) = Folded(o.mount) \o u.key
    BY <2>4, <2>5, FoldedBelow
  <2>7. V = SeenUnit(o.mount, u)
    BY <2>2, <2>4, <2>6 DEF SeenUnit
  <2>8. u \in TablesThere(o)
    BY <2>1, <2>7, TablesSeen DEF MergedTables
  <2> QED
    BY <2>1, <2>7, <2>8, TableIsRead
<1> QED
  BY <1>1, Inductive, PTL
=============================================================================
