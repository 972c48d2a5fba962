------------------------------ MODULE MCCompiler ------------------------------
(***************************************************************************)
(* The standard library as a plugin that defines modules, a plugin that    *)
(* inserts phases of its own, and a host that stops the pipeline early,    *)
(* pretty-prints, or dumps the backend program without saying when.        *)
(***************************************************************************)
EXTENDS Compiler

MCPlugin == {"stdlib", "lint"}
MCDefiner == {"stdlib"}
MCPluginPhases == [stdlib |-> << >>, lint |-> [Lint |-> Declares("Lint", {After("AST2BAST")})]]

MCHostPhases ==
    [PrettyPrint   |-> PrettyPrint,
     StopBefore    |-> StopRightBefore("PreTransform"),
     StopAfter     |-> StopRightAfter("TypeChecking"),
     DumpBackend   |-> Declares("DumpBackend", {After("PreTransform")})]

MCName == DOMAIN DefaultPhases \cup {"PrettyPrint", "_StopAfter_", "DumpBackend", "Lint"}
=============================================================================
