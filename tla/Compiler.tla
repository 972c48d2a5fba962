------------------------------- MODULE Compiler -------------------------------
(***************************************************************************)
(* The API object a host program drives: src/Interface/Compiler.cpp with   *)
(* the Pipeline it is given, the plugins it has loaded, the PhaseContext   *)
(* of a running compilation, and the output collectors.                    *)
(*                                                                         *)
(* The host calls in any order; a call runs to its end before the next.    *)
(* A phase does to this level only what its run function does to the       *)
(* reporter's error count and to the phase objects; a compilation error    *)
(* may appear in any of them.  sortPhases is taken by what it promises     *)
(* (PhaseOrder), not by how it sorts; it keeps that promise when every     *)
(* phase has a link (PhaseGraph shows what happens otherwise), which is    *)
(* assumed of the phases the host and the plugins add.                     *)
(***************************************************************************)
EXTENDS PhaseOrder, SequencesExt

CONSTANTS
    Plugin,        \* paths of plugins the host may load
    PluginPhases,  \* the phases each plugin's compilePass inserts
    Definer,       \* the plugins whose compilePass opens modules and fills them
    HostPhases,    \* phases the host may insert: what each declares
    MaxBuilders,   \* bound: programs parsed
    MaxCompiles,   \* bound: calls of compile
    MaxErrors      \* bound: errors are counted up to here

ASSUME CompilerAssumption ==
    /\ Definer \subseteq Plugin
    /\ PluginPhases \in [Plugin -> {PluginPhases[p] : p \in Plugin}]
    /\ \A p \in Plugin : IsDeclaration(PluginPhases[p])
    /\ IsDeclaration(HostPhases)
    /\ \A p \in DOMAIN HostPhases : HostPhases[p].links # {}
    /\ {MaxBuilders, MaxCompiles} \subseteq Nat /\ MaxErrors \in Nat \ {0}

VARIABLES
    plugins,     \* the loaded plugins, in the order compilePass calls them
    errorCount,  \* what the reporter has counted since the compiler was made
    builders,    \* the ProgramBuilders that parse has returned
    pipeline,    \* the host's Pipeline object
    compiles,    \* how many times compile was called
    call,        \* the compile call that is running
    outcome,     \* how the last call ended
    collected    \* the builder whose bytecode a ByteCodeCollector holds (or 0)

vars == <<plugins, errorCount, builders, pipeline, compiles, call, outcome, collected>>

----------------------------------------------------------------------------
(* The default pipeline (Pipeline.cpp) and the ready-made phases           *)
(* (Phase.cpp).                                                            *)

Declares(name, links) == [name |-> name, links |-> links]
After(name) == [kind |-> "after", name |-> name]

DefaultPhases ==
    [NameAnalysis  |-> Declares("NameAnalysis", {}),
     KindChecking  |-> Declares("KindChecking", {After("NameAnalysis")}),
     TypeChecking  |-> Declares("TypeChecking", {After("KindChecking")}),
     UsageAnalysis |-> Declares("UsageAnalysis", {After("TypeChecking"),
                                   [kind |-> "before", name |-> "PreTransform"]}),
     PreTransform  |-> Declares("PreTransform", {After("TypeChecking")}),
     AST2BAST      |-> Declares("AST2BAST", {After("PreTransform")}),
     CodeGen       |-> Declares("CodeGen", {After("AST2BAST")})]

\* Pipelines are finite, and the phases of a host (which may remove them
\* again, by their name) have names of their own.
ASSUME PhasesAssumption ==
    /\ \A p \in Plugin : IsFiniteSet(DOMAIN PluginPhases[p])
    /\ \A p \in DOMAIN HostPhases : HostPhases[p].name \notin DOMAIN DefaultPhases

PrettyPrint == Declares("PrettyPrint", {[kind |-> "rightBefore", name |-> "NameAnalysis"]})
StopRightBefore(name) == Declares("_StopAfter_", {[kind |-> "rightBefore", name |-> name]})
StopRightAfter(name) == Declares("_StopAfter_", {[kind |-> "rightAfter", name |-> name]})

\* Phase objects: what a compilation starts with, what a phase adds, and what
\* a phase requires (a custom phase may ask for the backend program).
InitialObjects == {"ctx", "prog", "namer", "res"}
Outputs(name) == CASE name = "AST2BAST" -> {"bprog"}
                   [] name = "CodeGen"  -> {"out"}
                   [] OTHER             -> {}
Requires(name) == CASE name = "TypeChecking" -> {"prog", "ctx", "namer", "res"}
                    [] name = "PreTransform" -> {"prog", "ctx", "namer", "res"}
                    [] name = "CodeGen"      -> {"ctx"}
                    [] name = "DumpBackend"  -> {"bprog"}
                    [] name = "_StopAfter_"  -> {}
                    [] OTHER                 -> {"prog", "ctx"}

----------------------------------------------------------------------------
NoCall == [stage |-> "idle"]

Init ==
    /\ plugins = << >>
    /\ errorCount = 0
    /\ builders = << >>
    /\ pipeline = DefaultPhases
    /\ compiles = 0
    /\ call = NoCall
    /\ outcome = "none"
    /\ collected = 0

Idle == call = NoCall
Reported(n) == IF errorCount + n > MaxErrors THEN MaxErrors ELSE errorCount + n

(* loadPlugin: the library cannot be opened, has no compilePass, or is     *)
(* appended.  unloadPlugin drops the first plugin loaded from that path.   *)
LoadPlugin(p) ==
    /\ Idle
    /\ Len(plugins) < Cardinality(Plugin)
    /\ \/ plugins' = Append(plugins, p) /\ outcome' = "returned"
       \/ outcome' = "threw" /\ UNCHANGED plugins
    /\ UNCHANGED <<errorCount, builders, pipeline, compiles, call, collected>>

UnloadPlugin(p) ==
    /\ Idle
    /\ outcome' = "returned"
    /\ plugins' = IF \E i \in 1..Len(plugins) : plugins[i] = p
                  THEN RemoveFirst(plugins, p) ELSE plugins
    /\ UNCHANGED <<errorCount, builders, pipeline, compiles, call, collected>>

(* parse: n errors are reported; a fatal one is rethrown as CompileError.  *)
(* The builder is valid if the reporter has never counted an error.        *)
Parse(n) ==
    /\ Idle
    /\ Len(builders) < MaxBuilders
    /\ errorCount' = Reported(n)
    /\ \/ /\ builders' = Append(builders, [valid  |-> errorCount' = 0,
                                           opened |-> [p \in Plugin |-> 0]])
          /\ outcome' = "returned"
       \/ n > 0 /\ outcome' = "threw" /\ UNCHANGED builders
    /\ UNCHANGED <<plugins, pipeline, compiles, call, collected>>

(* Pipeline::insert and Pipeline::remove on the host's pipeline.           *)
Inserted(ppl, phases) ==
    [p \in DOMAIN ppl \cup DOMAIN phases |-> IF p \in DOMAIN ppl THEN ppl[p] ELSE phases[p]]

InsertPhase(p) ==
    /\ Idle
    /\ p \notin DOMAIN pipeline
    /\ pipeline' = Inserted(pipeline, Restrict(HostPhases, {p}))
    /\ UNCHANGED <<plugins, errorCount, builders, compiles, call, outcome, collected>>

RemovePhase(name) ==
    /\ Idle
    /\ \E p \in DOMAIN pipeline :
          /\ pipeline[p].name = name
          /\ pipeline' = Restrict(pipeline, DOMAIN pipeline \ {p})
    /\ UNCHANGED <<plugins, errorCount, builders, compiles, call, outcome, collected>>

----------------------------------------------------------------------------
(* compile *)

\* compilePass: every plugin adds its phases to the copy of the pipeline.
WithPlugins(ppl) ==
    LET adding[i \in 0..Len(plugins)] ==
            IF i = 0 THEN ppl ELSE Inserted(adding[i - 1], PluginPhases[plugins[i]])
    IN  adding[Len(plugins)]

\* ... and opens its modules in the builder, whose state all copies share.
OpenedBy(p) == Cardinality({i \in 1..Len(plugins) : plugins[i] = p})
WithModules(b) ==
    [builders EXCEPT ![b].opened = [p \in Plugin |-> @[p] + OpenedBy(p)]]

\* The orders sortPhases may return; none if it throws.
SortPhases(ppl) ==
    IF \E p, q \in DOMAIN ppl : p # q /\ ppl[p].name = ppl[q].name THEN {} ELSE ValidOrders(ppl)

\* An invalid builder is ignored; otherwise the phases are sorted, which may
\* fail, and run.
Compile(b, collector) ==
    /\ Idle
    /\ compiles < MaxCompiles
    /\ compiles' = compiles + 1
    /\ IF ~ builders[b].valid
       THEN outcome' = "ignored" /\ UNCHANGED <<builders, call>>
       ELSE LET ppl    == WithPlugins(pipeline)
                orders == SortPhases(ppl)
            IN  /\ builders' = WithModules(b)
                /\ \/ /\ orders = {}
                      /\ outcome' = "threw"
                      /\ UNCHANGED call
                   \/ \E order \in orders :
                         /\ call' = [stage |-> "running", builder |-> b, collector |-> collector,
                                     phases |-> ppl, order |-> order, ran |-> 0,
                                     objects |-> InitialObjects]
                         /\ outcome' = "running"
    /\ UNCHANGED <<plugins, errorCount, pipeline, collected>>

\* The program of the running call defines one name twice.
DefinesTwice == \E p \in Definer : builders[call.builder].opened[p] > 1

NextName == call.phases[call.order[call.ran + 1]].name

\* What the phase returns, with the error count it leaves.
SucceedsAlways(name, count) ==  \* mutant: errors do not make a phase fail
    IF name = "_StopAfter_" THEN {FALSE} ELSE {TRUE}
Succeeds(name, count) ==
    CASE name \in DOMAIN DefaultPhases -> {count = 0}
      [] name = "_StopAfter_"          -> {FALSE}
      [] name = "PrettyPrint"          -> {TRUE}
      [] OTHER                         -> BOOLEAN

NextStageAnyhow(success) ==  \* mutant: the loop goes on after a failure
    IF call.ran + 1 < Len(call.order) THEN "running" ELSE "collecting"

\* The loop breaks at a failure and ends after the last phase.
NextStage(success) ==
    IF success /\ call.ran + 1 < Len(call.order) THEN "running" ELSE "collecting"

ThrowIgnored ==  \* mutant: the exception is swallowed
    /\ call' = call
    /\ UNCHANGED <<plugins, builders, pipeline, compiles, outcome, collected>>
Throw ==
    /\ call' = NoCall
    /\ outcome' = "threw"
    /\ UNCHANGED <<plugins, builders, pipeline, compiles, collected>>

(* One iteration of the loop over the sorted phases, n errors reported.    *)
RunPhase(n) ==
    /\ call.stage = "running"
    /\ Requires(NextName) \subseteq call.objects
    /\ NextName = "NameAnalysis" /\ DefinesTwice => n > 0
    /\ NextName \in {"_StopAfter_", "PrettyPrint"} => n = 0
    /\ errorCount' = Reported(n)
    /\ \E success \in Succeeds(NextName, errorCount') :
          call' = [call EXCEPT !.ran = @ + 1,
                               !.objects = @ \cup Outputs(NextName),
                               !.stage = NextStage(success)]
    /\ UNCHANGED <<plugins, builders, pipeline, compiles, outcome, collected>>

(* A required phase object is missing.                                     *)
MissingObject ==
    /\ call.stage = "running"
    /\ ~ Requires(NextName) \subseteq call.objects
    /\ Throw
    /\ UNCHANGED errorCount

(* A phase reports a fatal error, which is counted and thrown.             *)
FatalError ==
    /\ call.stage = "running"
    /\ Requires(NextName) \subseteq call.objects
    /\ NextName \notin {"_StopAfter_", "PrettyPrint"}
    /\ errorCount' = Reported(1)
    /\ Throw

\* What a ByteCodeCollector holds after collect.
Held ==
    CASE call.collector # "bytecode" -> collected
      [] "out" \in call.objects     -> call.builder
      [] OTHER                      -> 0

(* collector.collect: the bytecode collector forgets what it held and      *)
(* requires "out"; the others only read the context.                       *)
Collect ==
    /\ call.stage = "collecting"
    /\ collected' = Held
    /\ outcome' = IF call.collector = "bytecode" /\ "out" \notin call.objects
                  THEN "threw" ELSE "returned"
    /\ call' = NoCall
    /\ UNCHANGED <<plugins, errorCount, builders, pipeline, compiles>>

CompileStep == (\E n \in 0..1 : RunPhase(n)) \/ MissingObject \/ FatalError \/ Collect

Next ==
    \/ \E p \in Plugin : LoadPlugin(p) \/ UnloadPlugin(p)
    \/ \E n \in 0..1 : Parse(n)
    \/ \E p \in DOMAIN HostPhases : InsertPhase(p) \/ RemovePhase(HostPhases[p].name)
    \/ \E b \in 1..Len(builders), collector \in {"bytecode", "errorCount"} : Compile(b, collector)
    \/ CompileStep

Spec == Init /\ [][Next]_vars

\* Once called, compile keeps running on the caller's thread; the host need
\* not make any further call.
FairSpec == Spec /\ WF_vars(CompileStep)

----------------------------------------------------------------------------
(* Properties *)

Running == call.stage # "idle"
Ran == {call.phases[call.order[i]].name : i \in 1..call.ran}

(* Code comes out of CodeGen only for a program that went through all the  *)
(* other phases of the default pipeline, and while no error has been       *)
(* counted, in this compilation or in any call the compiler has served     *)
(* before: a phase that fails ends the loop, and no order lets CodeGen     *)
(* slip in front.  Only a phase the host or a plugin put right before      *)
(* CodeGen can report an error, claim success, and let code come out.      *)
CodeOnlyFromCleanProgram ==
    [][ Running /\ call'.stage # "idle" /\ "out" \in call'.objects \ call.objects =>
          /\ DOMAIN DefaultPhases \ {"CodeGen"} \subseteq Ran
          /\ errorCount = 0 \/ call.order[call.ran] \notin DOMAIN DefaultPhases ]_vars

(* The code that gets into a bytecode collector is that of a program which *)
(* was parsed without an error, went through every default phase, and has  *)
(* no name twice, though a builder can be compiled again and a plugin be   *)
(* loaded twice, and each time puts its modules into the program anew.     *)
(* What a compilation that throws leaves in the collector is the code it   *)
(* held before.                                                            *)
CollectedIsAnalysed ==
    [][ collected' # collected /\ collected' # 0 =>
          /\ builders[collected'].valid
          /\ collected' = call.builder /\ ~ DefinesTwice
          /\ DOMAIN DefaultPhases \subseteq Ran ]_vars

(* The inductive invariant behind these two.  The host and its plugins     *)
(* only ever add to the default pipeline.  A running call has an order of  *)
(* the phases it has sorted, whose names are all different, and is not     *)
(* past its end; if the last phase it ran is one of the default pipeline,  *)
(* that phase left no error; and it has no code, and no phase behind       *)
(* NameAnalysis, when its program defines a name twice.                    *)
KeepsDefaults(ppl) ==
    /\ ppl = [p \in DOMAIN ppl |-> ppl[p]] /\ IsFiniteSet(DOMAIN ppl)
    /\ \A p \in DOMAIN DefaultPhases : p \in DOMAIN ppl /\ ppl[p] = DefaultPhases[p]

NamedOnce(ppl) == \A p, q \in DOMAIN ppl : ppl[p].name = ppl[q].name => p = q

Builder == [valid : BOOLEAN, opened : [Plugin -> Nat]]

CallOK ==
    /\ call = [stage |-> call.stage, builder |-> call.builder, collector |-> call.collector,
               phases |-> call.phases, order |-> call.order, ran |-> call.ran,
               objects |-> call.objects]
    /\ call.stage \in {"running", "collecting"}
    /\ KeepsDefaults(call.phases)
    /\ NamedOnce(call.phases)
    /\ call.order \in ValidOrders(call.phases)
    /\ call.ran \in 0..Len(call.order)
    /\ call.stage = "running" =>
          /\ call.ran < Len(call.order)
          /\ call.ran > 0 /\ call.order[call.ran] \in DOMAIN DefaultPhases => errorCount = 0
          /\ DefinesTwice => "NameAnalysis" \notin Ran
    /\ call.builder \in 1..Len(builders) /\ builders[call.builder].valid
    /\ "out" \in call.objects => DOMAIN DefaultPhases \subseteq Ran /\ ~ DefinesTwice

CompilerInvariant ==
    /\ plugins \in Seq(Plugin)
    /\ errorCount \in Nat
    /\ builders \in Seq(Builder)
    /\ KeepsDefaults(pipeline)
    /\ call = NoCall \/ CallOK

(* Every call of compile returns or throws.                                *)
CompileEnds == Running ~> ~ Running
=============================================================================
