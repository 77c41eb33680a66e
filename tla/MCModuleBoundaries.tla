------------------------- MODULE MCModuleBoundaries -------------------------
(* Two packages with entry points, implementation and tests, the application, and a
   file beside the packages. *)
EXTENDS ModuleBoundaries

MCFiles == {"app", "stray", "a", "a_lib", "a_test", "b", "b_lib", "b_test", "b_fixture"}
MCPkg == [f \in MCFiles |->
    CASE f \in {"app", "stray"} -> NoPkg
      [] f \in {"a", "a_lib", "a_test"} -> "A"
      [] OTHER -> "B"]
MCFolder == [f \in MCFiles |->
    CASE f \in {"app", "a", "b"} -> "root"
      [] f = "stray" -> "packages"
      [] f \in {"a_lib", "b_lib"} -> "lib"
      [] OTHER -> "tests"]
=============================================================================
