----------------------- MODULE ModuleBoundariesProofs -----------------------
(***************************************************************************)
(* What rules about single imports mean for chains of them, for every code *)
(* base.  What a file uses is a least closed set, so a claim about all that *)
(* it uses is proved by naming a closed set that satisfies it; no induction *)
(* over the length of a chain is needed.                                   *)
(***************************************************************************)
EXTENDS ModuleBoundaries, FiniteSetTheorems, WellFoundedInduction, TLAPS

-----------------------------------------------------------------------------
(* Uses *)

\* A file uses what it imports.
LEMMA UsesImported ==
    ASSUME NEW E, NEW via, NEW f \in via, NEW g \in via, <<f, g>> \in E
    PROVE  <<f, g>> \in Uses(E, via)
<1> DEFINE imported == {p[2] : p \in E} \cap via
<1>1. g \in imported
  OBVIOUS
<1>2. ASSUME NEW S \in SUBSET imported, Closed(E, via, f, S)
      PROVE  g \in S
  BY <1>2 DEF Closed
<1>3. QED
  BY <1>1, <1>2 DEF Uses

\* A file uses whatever is used by a file that it imports.
LEMMA UsesNext ==
    ASSUME NEW E, NEW via, NEW f \in via, NEW g \in via, <<f, g>> \in E,
           NEW h, <<g, h>> \in Uses(E, via)
    PROVE  <<f, h>> \in Uses(E, via)
<1> DEFINE imported == {p[2] : p \in E} \cap via
<1>1. h \in imported
  BY DEF Uses
<1>2. ASSUME NEW S \in SUBSET imported, Closed(E, via, f, S)
      PROVE  h \in S
  <2>1. g \in S
    BY <1>2 DEF Closed
  <2>2. Closed(E, via, g, S)
    BY <1>2, <2>1 DEF Closed
  <2>3. QED
    BY <1>2, <2>2 DEF Uses
<1>3. QED
  BY <1>1, <1>2 DEF Uses

\* Uses is transitive.
LEMMA UsesTransitive ==
    ASSUME NEW E, NEW via, NEW f, NEW g, NEW h,
           <<f, g>> \in Uses(E, via), <<g, h>> \in Uses(E, via)
    PROVE  <<f, h>> \in Uses(E, via)
<1> DEFINE imported == {p[2] : p \in E} \cap via
<1>1. f \in via /\ h \in imported
  BY DEF Uses
<1>2. ASSUME NEW S \in SUBSET imported, Closed(E, via, f, S)
      PROVE  h \in S
  <2>1. g \in S
    BY <1>2 DEF Uses
  <2>2. Closed(E, via, g, S)
    BY <1>2, <2>1 DEF Closed
  <2>3. QED
    BY <1>2, <2>2 DEF Uses
<1>3. QED
  BY <1>1, <1>2 DEF Uses

\* The first step of a chain.
LEMMA UsesFirst ==
    ASSUME NEW Y, NEW E \in SUBSET (Y \X Y), NEW via,
           NEW f, NEW h, <<f, h>> \in Uses(E, via)
    PROVE  \E g \in via : <<f, g>> \in E /\ (g = h \/ <<g, h>> \in Uses(E, via))
<1> DEFINE imported == {p[2] : p \in E} \cap via
           Reached(y) == \E g \in via : <<f, g>> \in E /\ (g = y \/ <<g, y>> \in Uses(E, via))
           S == {y \in imported : Reached(y)}
<1>1. f \in via
  BY DEF Uses
<1>2. ASSUME NEW p \in E, p[1] = f \/ p[1] \in S, p[2] \in via
      PROVE  p[2] \in S
  <2>1. p[2] \in imported /\ p = <<p[1], p[2]>>
    BY <1>2
  <2>2. CASE p[1] = f
    BY <2>1, <2>2
  <2>3. CASE p[1] \in S
    <3>1. PICK g \in via : <<f, g>> \in E /\ (g = p[1] \/ <<g, p[1]>> \in Uses(E, via))
      BY <2>3
    <3>2. <<p[1], p[2]>> \in Uses(E, via)
      BY <2>1, <2>3, UsesImported
    <3>3. <<g, p[2]>> \in Uses(E, via)
      BY <3>1, <3>2, UsesTransitive
    <3>4. QED
      BY <2>1, <3>1, <3>3
  <2>4. QED
    BY <1>2, <2>2, <2>3
<1>3. Closed(E, via, f, S) /\ S \in SUBSET imported
  BY <1>2 DEF Closed
<1>4. h \in S
  <2> HIDE DEF S
  <2> QED
    BY <1>3 DEF Uses
<1>5. QED
  BY <1>4

-----------------------------------------------------------------------------
(* The code base *)

\* What every accepted change keeps: the imports are between files of the code
\* base, they are finitely many, and the linter reports none of them.
ImportInv ==
    /\ imports \subseteq Files \X Files
    /\ IsFiniteSet(imports)
    /\ Clean(imports)

LEMMA InitImports == Init => ImportInv
BY FS_EmptySet DEF Init, ImportInv, Clean

LEMMA NextImports == ImportInv /\ [Next]_imports => ImportInv'
<1> SUFFICES ASSUME ImportInv, [Next]_imports
             PROVE  ImportInv'
  OBVIOUS
<1>1. ASSUME NEW f \in Files, NEW g \in Files, AddImport(f, g)
      PROVE  ImportInv'
  <2>1. IsFiniteSet(imports \cup {<<f, g>>})
    BY FS_AddElement DEF ImportInv
  <2>2. QED
    BY <1>1, <2>1 DEF AddImport, ImportInv
<1>2. ASSUME NEW f \in Files, NEW g \in Files, RemoveImport(f, g)
      PROVE  ImportInv'
  <2>1. IsFiniteSet(imports \ {<<f, g>>})
    BY FS_RemoveElement DEF ImportInv
  <2>2. QED
    BY <1>2, <2>1 DEF RemoveImport, ImportInv
<1>3. CASE UNCHANGED imports
  BY <1>3 DEF ImportInv
<1>4. QED
  BY <1>1, <1>2, <1>3 DEF Next

\* The code base keeps what the linter checks, change by change.
LEMMA LinterInvariant == Spec => []ImportInv
BY InitImports, NextImports, PTL DEF Spec

-----------------------------------------------------------------------------
(* Chains *)

\* From outside a package, a closed set that stops before the file that it hides:
\* the last step of a chain to that file would break one of three rules.
LEMMA HiddenFromOutside == ImportInv => EntryPointsHideInternals
<1> SUFFICES ASSUME ImportInv, NEW g \in Files, Internal(g), ~ InTests(g),
                    NEW f \in {x \in Files : (Pkg[x] # Pkg[g] \/ InTests(x)) /\ ~ Stray(x)},
                    <<f, g>> \in Uses(imports, {x \in Files : (Pkg[x] # Pkg[g] \/ InTests(x)) /\ ~ Stray(x)} \cup {g})
             PROVE  FALSE
  BY DEF EntryPointsHideInternals
<1> DEFINE outside == {x \in Files : (Pkg[x] # Pkg[g] \/ InTests(x)) /\ ~ Stray(x)}
           via == outside \cup {g}
           imported == {p[2] : p \in imports} \cap via
           S == imported \ {g}
<1>1. ASSUME NEW p \in imports, p[1] \in outside
      PROVE  p[2] # g
  <2>1. p[1] \in Files /\ p[2] \in Files /\ <<p[1], p[2]>> \in imports
    BY <1>1 DEF ImportInv
  <2>2. /\ ~ EntrypointBoundaryFromApp(p[1], p[2])
        /\ ~ EntrypointBoundaryAcrossPackages(p[1], p[2])
        /\ ~ TestsThroughEntrypoints(p[1], p[2])
    BY <2>1 DEF ImportInv, Clean
  <2>3. QED
    BY <1>1, <2>2 DEF EntrypointBoundaryFromApp, EntrypointBoundaryAcrossPackages,
                      TestsThroughEntrypoints, Internal, InTests
<1>2. S \subseteq outside
  OBVIOUS
<1>3. ASSUME NEW p \in imports, p[1] = f \/ p[1] \in S, p[2] \in via
      PROVE  p[2] \in S
  BY <1>1, <1>2, <1>3
<1>4. Closed(imports, via, f, S) /\ S \in SUBSET imported
  BY <1>3 DEF Closed
<1>5. g \in S
  <2> HIDE DEF S
  <2> QED
    BY <1>4 DEF Uses
<1>6. QED
  BY <1>5

\* The tests among what a file uses are its own package's, and it is one of them.
LEMMA TestsUsedByTests == ImportInv => TestsStayHome
<1> SUFFICES ASSUME ImportInv, NEW f \in Files, NEW g \in Files,
                    <<f, g>> \in Uses(imports, Files), InTests(g)
             PROVE  InTests(f) /\ Pkg[f] = Pkg[g]
  BY DEF TestsStayHome
<1> DEFINE imported == {p[2] : p \in imports} \cap Files
           S == {x \in imported : InTests(x) => InTests(f) /\ Pkg[f] = Pkg[x]}
<1>1. ASSUME NEW p \in imports, InTests(p[2])
      PROVE  InTests(p[1]) /\ Pkg[p[1]] = Pkg[p[2]]
  <2>1. p[1] \in Files /\ p[2] \in Files /\ <<p[1], p[2]>> \in imports
    BY DEF ImportInv
  <2>2. /\ ~ TestsThroughEntrypoints(p[1], p[2])
        /\ ~ TestsFolderIsPrivate(p[1], p[2])
    BY <2>1 DEF ImportInv, Clean
  <2>3. Internal(p[2])
    BY <1>1 DEF InTests, Internal
  <2>4. QED
    BY <1>1, <2>2, <2>3 DEF TestsThroughEntrypoints, TestsFolderIsPrivate
<1>2. ASSUME NEW p \in imports, p[1] = f \/ p[1] \in S, p[2] \in Files
      PROVE  p[2] \in S
  BY <1>1, <1>2
<1>3. Closed(imports, Files, f, S) /\ S \in SUBSET imported
  BY <1>2 DEF Closed
<1>4. g \in S
  <2> HIDE DEF S
  <2> QED
    BY <1>3 DEF Uses
<1>5. QED
  BY <1>4

\* No file uses itself.
LEMMA NoFileUsesItself ==
    ASSUME ImportInv, NEW f \in Files
    PROVE  <<f, f>> \notin Uses(imports, Files)
<1> SUFFICES ASSUME <<f, f>> \in Uses(imports, Files)
             PROVE  FALSE
  OBVIOUS
<1>1. PICK g \in Files : <<f, g>> \in imports /\ (g = f \/ <<g, f>> \in Uses(imports, Files))
  BY UsesFirst DEF ImportInv
<1>2. ~ NoCircular(Uses(imports, Files), f, g)
  BY <1>1 DEF ImportInv, Clean
<1>3. QED
  BY <1>1, <1>2 DEF NoCircular

\* Of the files that remain, one that uses the fewest: whatever remains and is
\* imported by it would use fewer, because it does not use itself.
LEMMA SomeFileIsNext == ImportInv => BuildOrderExists
<1> SUFFICES ASSUME ImportInv, NEW S \in SUBSET Files, S # {},
                    \A f \in S : \E g \in S : <<f, g>> \in imports
             PROVE  FALSE
  BY DEF BuildOrderExists
<1> DEFINE used(f) == {h \in Files : <<f, h>> \in Uses(imports, Files)}
           T == {used(f) : f \in S}
<1>1. ASSUME NEW f \in S
      PROVE  used(f) \in FiniteSubsetsOf(Files)
  <2>1. IsFiniteSet({p[2] : p \in imports})
    <3> DEFINE end == [p \in imports |-> p[2]]
    <3>1. end \in Surjection(imports, {p[2] : p \in imports})
      BY DEF Surjection
    <3>2. QED
      BY <3>1, FS_Surjection DEF ImportInv
  <2>2. used(f) \subseteq {p[2] : p \in imports}
    BY DEF Uses
  <2>3. QED
    BY <2>1, <2>2, FS_Subset DEF FiniteSubsetsOf
<1>2. PICK f \in S : \A g \in S : <<used(g), used(f)>> \notin StrictSubsetOrdering(Files)
  <2>1. T \subseteq FiniteSubsetsOf(Files) /\ T # {}
    BY <1>1
  <2>2. IsWellFoundedOn(StrictSubsetOrdering(Files), FiniteSubsetsOf(Files))
    BY FS_StrictSubsetOrderingWellFounded
  <2>3. \E x \in T : \A y \in T : <<y, x>> \notin StrictSubsetOrdering(Files)
    <3> HIDE DEF T
    <3> QED
      BY <2>1, <2>2, WFMin
  <2>4. QED
    BY <2>3
<1>3. PICK g \in S : <<f, g>> \in imports
  OBVIOUS
<1>4. used(g) \subseteq used(f)
  BY <1>3, UsesNext
<1>5. g \in used(f) /\ g \notin used(g)
  BY <1>3, UsesImported, NoFileUsesItself
<1>6. <<used(g), used(f)>> \in StrictSubsetOrdering(Files)
  BY <1>4, <1>5 DEF StrictSubsetOrdering
<1>7. QED
  BY <1>2, <1>6

-----------------------------------------------------------------------------
\* Every chain of imports from outside a package to its implementation goes
\* through one of its entry points, unless it passes a file that lies directly in
\* the packages folder.
THEOREM ChainsUseEntryPoints == Spec => []EntryPointsHideInternals
BY LinterInvariant, HiddenFromOutside, PTL

\* Nothing but a package's own tests depends on them, however indirectly.
THEOREM ChainsLeaveTestsAlone == Spec => []TestsStayHome
BY LinterInvariant, TestsUsedByTests, PTL

\* The code base can be built in some order, however many files it has.
THEOREM ChainsEnd == Spec => []BuildOrderExists
BY LinterInvariant, SomeFileIsNext, PTL
=============================================================================
