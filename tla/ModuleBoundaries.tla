-------------------------- MODULE ModuleBoundaries --------------------------
(***************************************************************************)
(* The import rules that the repository ships for TypeScript packages:     *)
(* .agents/skills/setup-ts-deep-modules/dependency-cruiser.config.cjs.     *)
(* Each rule looks at one import; what a code base may rely on is said of  *)
(* chains of imports.  The code base changes one import at a time and a    *)
(* change is kept only if the linter reports nothing.                      *)
(***************************************************************************)
EXTENDS Naturals, FiniteSets

CONSTANTS
    Files,
    Pkg,            \* [Files -> packages], or NoPkg: in none
    Folder,         \* within the package, "root" or a subfolder such as "lib", "tests";
                    \* for a file in no package, "packages" if it lies directly in
                    \* src/packages, "root" elsewhere
    NoPkg,
    MaxImports      \* bound on the size of the import graph

ASSUME FolderAssumption ==
    \A f \in Files : Pkg[f] = NoPkg => Folder[f] \in {"root", "packages"}

VARIABLE imports    \* set of pairs <<importer, imported>>

\* PACKAGE_INTERNALS: anything below a subfolder of a package.
Internal(f) == Pkg[f] # NoPkg /\ Folder[f] # "root"
InTests(f)  == Pkg[f] # NoPkg /\ Folder[f] = "tests"

\* A file such as src/packages/index.ts: below the packages root, in no package.
Stray(f) == Pkg[f] = NoPkg /\ Folder[f] = "packages"

-----------------------------------------------------------------------------
(* The rules: what each of them reports *)

\* pathNot is the whole packages root: a stray file is not reported, here or below.
EntrypointBoundaryFromApp(f, g) == Pkg[f] = NoPkg /\ ~ Stray(f) /\ Internal(g)

\* Mutant: a package's entry points may reach into other packages.
AcrossPackagesFromLib(f, g) == Folder[f] = "lib" /\ Internal(g) /\ Pkg[g] # Pkg[f]
EntrypointBoundaryAcrossPackages(f, g) ==
    /\ Pkg[f] # NoPkg /\ ~ InTests(f)
    /\ Internal(g) /\ Pkg[g] # Pkg[f]

\* Mutant: $1 is dropped from pathNot, so that tests share their fixtures.
TestsShareFixtures(f, g) == InTests(f) /\ Internal(g) /\ ~ InTests(g)
TestsThroughEntrypoints(f, g) ==
    /\ InTests(f)
    /\ Internal(g) /\ ~ (Pkg[g] = Pkg[f] /\ InTests(g))

TestsFolderIsPrivate(f, g) == ~ InTests(f) /\ InTests(g)

\* S has whatever f imports and, with each of its files, whatever that one imports.
Closed(E, via, f, S) ==
    \A p \in E : (p[1] = f \/ p[1] \in S) /\ p[2] \in via => p[2] \in S

\* Which file uses which, directly or by way of the files in via: what f uses is
\* the least closed set.
Uses(E, via) ==
    LET imported == {p[2] : p \in E} \cap via IN
    {p \in via \X imported :
        \A S \in SUBSET imported : Closed(E, via, p[1], S) => p[2] \in S}

\* The import closes a cycle.  Mutant: a cycle is a file that imports itself.
SelfImport(uses, f, g) == f = g
NoCircular(uses, f, g) == f = g \/ <<g, f>> \in uses

Clean(E) ==
    LET uses == Uses(E, Files) IN
    \A f, g \in Files : <<f, g>> \in E =>
        /\ ~ EntrypointBoundaryFromApp(f, g)
        /\ ~ EntrypointBoundaryAcrossPackages(f, g)
        /\ ~ TestsThroughEntrypoints(f, g)
        /\ ~ TestsFolderIsPrivate(f, g)
        /\ ~ NoCircular(uses, f, g)

-----------------------------------------------------------------------------
Init == imports = {}

AddImport(f, g) ==
    /\ Cardinality(imports) < MaxImports
    /\ imports' = imports \cup {<<f, g>>}
    /\ Clean(imports')

RemoveImport(f, g) ==
    /\ <<f, g>> \in imports
    /\ imports' = imports \ {<<f, g>>}
    /\ Clean(imports')

Next == \E f, g \in Files : AddImport(f, g) \/ RemoveImport(f, g)

Spec == Init /\ [][Next]_imports

-----------------------------------------------------------------------------
(* Properties *)

\* "Implementation is private": every chain of imports from outside a package
\* to its implementation goes through one of its entry points, or through a stray
\* file, which the linter lets import anybody's implementation.
EntryPointsHideInternals ==
    \A g \in Files : Internal(g) /\ ~ InTests(g) =>
        LET outside == {f \in Files : (Pkg[f] # Pkg[g] \/ InTests(f)) /\ ~ Stray(f)}
            uses    == Uses(imports, outside \cup {g})
        IN  \A f \in outside : <<f, g>> \notin uses

\* Tests and fixtures can be deleted with their package's other tests: nothing
\* else depends on them, however indirectly.
TestsStayHome ==
    LET uses == Uses(imports, Files) IN
    \A f, g \in Files : <<f, g>> \in uses /\ InTests(g) => InTests(f) /\ Pkg[f] = Pkg[g]

\* The code base can be built in some order: whatever remains to be built, there
\* is a file of it that imports nothing of it.
BuildOrderExists ==
    \A S \in SUBSET Files : S # {} => \E f \in S : \A g \in S : <<f, g>> \notin imports
=============================================================================
