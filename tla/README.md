# A formal model of SFSL

SFSL is a compiler for a small statically typed language, packaged as a C++
library. A host program makes a `Compiler`, loads plugins into it, edits a
`Pipeline` of phases, parses sources and compiles them; the default pipeline
resolves names, checks kinds, types and the use of variables, turns captures into
explicit fields, translates to a backend tree and generates bytecode.

This directory holds TLA+ models of the parts of it that are hard to test, the
TLC configurations that check them, and TLAPS proofs of what matters most.
`PROJECT.json` maps every definition that models code to the lines it models.

## 1. Inventory

| Component | State it keeps | Operations | Interacts with | What makes it correct |
|---|---|---|---|---|
| Phase graph (`src/Interface/PhaseGraph.cpp`) | edges between phases, hard relations, nodes that hold a chain of phases, DFS marks | `sortPhases`: createEdges, findStrongRelations, createUniqueNodes, topologicalSort | called by `compile`; reads what phases declare | the order returned honours every declaration; only what has no order is rejected; it ends |
| Compiler driver (`src/Interface/Compiler.cpp`, `Pipeline.cpp`, `Phase.cpp`, `PhaseContext.cpp`, `OutputCollector.cpp`, `ModuleContainer.cpp`) | loaded plugins, error count, builders, pipeline, phase objects | loadPlugin, unloadPlugin, parse, compile, Pipeline insert and remove, collect | calls the phase graph, every phase, plugins, collectors | code only from a program every analysis accepted; nothing of an earlier call leaks into a later one; compile returns |
| Memory manager (`src/Compiler/Common/MemoryManager.cpp`) | chunks and their fill, the objects registered for destruction | New, alloc, the destructor | every component allocates its nodes there | objects never overlap, and none outlives its chunk |
| Lexer and input sources (`src/Compiler/Frontend/Lexer`) | the position, one character and one token read ahead | get, peek, produceNext | the parser pulls tokens | a buffered source hands out what the plain one does, at the same positions; every token ends |
| Parser (`src/Compiler/Frontend/Parser`) | the current token, the annotations not yet taken | one function per construct; errors are reported and parsing goes on | lexer, syntax tree | what is accepted is the language, with the structure the precedences give it; an error leaves no hole in an accepted tree |
| Scopes, symbols, name analysis (`src/Compiler/Frontend/Symbols`, `Analyser/NameAnalysis.cpp`) | a tree of scopes, symbols by name and definition range, usings, parents | scope generation, type dependencies, symbol assignation | parser's tree, resolver | a name means what it names at its place, whatever the order of modules and parents |
| Kinds and kind checking (`src/Compiler/Frontend/Kinds`, `Analyser/KindChecking.cpp`) | kinds of type expressions | KindChecking | types | arguments of type constructors keep to the bounds of their parameters |
| Types and type checking (`src/Compiler/Frontend/Types`, `Analyser/TypeChecking.cpp`, `AST/Visitors/ASTTypeCreator.cpp`) | types, environments, tables of super types, caches of created types, redefs still to resolve | subtyping, inference, members, overloads, redefs | symbols, kinds | what checks holds values of its types; a call runs the most derived method and finds its arguments |
| Usage analysis (`Analyser/UsageAnalysis.cpp`, `AST/Utils/UsageTrackable.cpp`) | flags of each variable, what branches have initialised, captures of each unit | one visit per kind of expression; inner units first | type checking ran before it, pre-transformation reads what it decides | a variable has a value on every path where it is read or captured; a variable changed after capture is captured by reference |
| Pre-transformation (`Backend/AST2BAST/PreTransform.cpp`) | captures of each class, patches of classes, locations | analysis, implementation, numbering | reads the usage flags | a closure computes what the source says |
| Backend tree (`Backend/AST2BAST`, `Backend/BAST`) | visible and hidden definitions, substitutions of aliases | translation, simplification | bytecode generator | the tree computes what the source says, and exported names keep their definitions |
| Bytecode generation (`Backend/BytecodeGenerator.cpp`, `Backend/CodeGen`) | a linked list of instructions, labels | one visit per node; no phase of the pipeline reaches it with a tree | output collector | - |
| Syntax tree, printers (`AST/Nodes`, `AST/Visitors/ASTPrinter.cpp`) | data | print | parser | what is printed is read back as the same tree |
| Standard library, tools, samples | clients of the API | - | - | - |

Nothing runs concurrently: a host calls from one thread and every call runs to
its end. What is hard here is different:

* **order**: phases, modules and parents are given in any order and have to mean
  the same thing; the phases of a pipeline are walked in the order of their
  *addresses*, which differs from one run of the program to the next;
* **sequences of calls**: a host may parse, compile, compile again, load a plugin
  twice, in any order, over state (an error count, builders that share their
  state) that outlives each call;
* **partial failure**: a phase fails half way, throws, or stops the pipeline;
* **flags left over**: the analyses mark shared symbols and take marks away again
  as branches and inner functions come and go;
* **storage**: pointers into vectors that grow.

`PROJECT.json` lists the hazards line by line with the properties that cover them.

## 2. The modules

| Module | Models | Uses |
|---|---|---|
| `PhaseOrder` | what phases declare, and which orders satisfy it: the abstract specification of `sortPhases`, after `checkExecutionOrder` of `tests/PhaseGraphTests.cpp` | |
| `TopologicalSort` | `topologicalSort` and `topologicalSortDFSvisit`, one action per step of the recursion | |
| `PhaseGraph` | `sortPhases` as a whole | `PhaseOrder`, `TopologicalSort` |
| `Compiler` | host, plugins, builders, pipeline and a running compilation; takes `sortPhases` by its promise | `PhaseOrder` |
| `InputSource` | a source that hands out one character at a time: the abstract specification | |
| `BufferedInputSource` | the source with a buffer, over strings and over streams, whose end is looked for in a `char`; `Plain` is the refinement | `InputSource` |
| `MemoryManager` | `ChunkedMemoryManager` | |
| `Tokens`, `Lexer` | the kinds of tokens; the token loop, over the buffered source, with tokens made by the manager | `BufferedInputSource`, `MemoryManager` |
| `Tokenization` | what the lexer promises, stated on the text | `Lexer` |
| `Parser` | the nodes of the tree; every parsing function, with `ASTExpr2TypeExpr` | `Tokens` |
| `Parsing` | the printer of the source language; the language as a grammar, the structure of expressions, and what the parser promises | `Parser` |
| `Scope`, `NameAnalysis` | symbols, lookup and usings; `ScopeGeneration` and `SymbolAssignation` with what `ASTTypeCreator` decides about aliases | |
| `NameResolution` | what the name analysis promises, stated on the program as written | `NameAnalysis` |
| `Types` | types, environments, substitution and the table of super types as the visitors fill it; subtyping, kinds, bounds and inference | |
| `Typing` | the types of expressions and what they are checked against; a program through name analysis, kind and type checking and its redefs, with what values its expressions may have | `Types` |
| `Methods` | the choice among overloads, the redefs; and how methods get their locations | |
| `Dispatch` | calls, from what is chosen to what runs | `Methods` |
| `UsageAnalysis` | the usage analysis over the items of a program in the order the visitors meet them | |
| `DefiniteAssignment` | the executions of the same program, next to the analysis | `UsageAnalysis` |
| `BackendTree`, `AST2BAST` | the backend nodes; captures, patches, boxes and numbering, then translation and simplifier | |
| `Execution` | what a program means before and after, and what the backend promises | `AST2BAST` |
| `Induction` | induction over numbers and sequences, stated on sets: what the proofs share | |
| `PhaseOrder_proofs`, `PhaseGraph_proofs` | theorems about valid orders, and about the sort and the phase graph | the module each is named for |
| `Lexer_proofs` | theorems about the sources, the memory manager and the lexer over them | `Lexer` |
| `Compiler_proofs`, `NameResolution_proofs`, `DefiniteAssignment_proofs`, `Dispatch_proofs` | theorems about compilations, the name and usage analyses, and methods | the module each is named for |
| `MC...` | the programs, texts and pipelines that TLC tries | one each |

## 3. How the models correspond to the code

**PhaseGraph.** Phases are numbered by their address (the pipeline is a
`std::set` of pointers), so that trying every assignment of names and links to
numbers tries every placement in memory. A node that merges phases and a node of
a lone phase `p` (numbered `N + p`) stand for the elements of the vector `uniqs`,
in its order. `createEdges`, `findStrongRelations`, `createUniqueNodes` are one
action each, since nothing interferes with them; the depth-first sort is one
action per loop iteration, call and return. Edges of nodes are addresses into
`uniqs`: when the vector grows after they were taken, `VisitStale` chooses among
what reading freed storage can do. `Capacity` is the doubling of `std::vector`.

**Compiler.** The host may make any call that the interface offers at any time no
compilation runs; a compilation is one action per phase, and a phase may succeed,
fail, throw, or lack an object that an earlier phase should have left. Error
counts, builders that share their state with copies, and the objects that plugins
open survive from call to call as they do in the code. `sortPhases` is taken by
its promise (`PhaseOrder`), for pipelines whose phases have links; the phase graph
model shows where the code keeps that promise.

**BufferedInputSource, MemoryManager, Lexer.** A source has handed out some
characters of a text and may hold one more (a stream reads ahead, a string does
not). A stream keeps what `get` returns in a `char` before it compares it with the
end: where `char` is signed, the character `EofChar` (0xFF) is the end of the text
(kind `stream`); where it is unsigned, nothing is, and behind the text the stream
gives `EofChar` for ever (`unsignedStream`). `readable` is what can be read of a text
then. The program itself only reads strings (`Compiler.cpp:432`, `536`). The buffer has
the characters it was filled with and an index. The lexer is
one action per turn of its loops: what it skips, the start of a token, each
character that makes the token longer, its end, each character of a string or a
comment. Making a token asks the manager for an object; `Grow` and `Alloc` are
the loop and the placement of `alloc`, and the manager destroys objects and
chunks one by one after the parse. `PlainSpec` is `InputSource`'s specification
under the mapping that forgets the buffer.

**Parser, Parsing.** One operator per function of `Parser.cpp`, from a state
(the place in the source, errors, annotations, the node returned) to the next;
`parse` and `print` are the two actions. Names are words, spaces are where a
parenthesis may not follow (`loose`, for annotations). A null pointer that is
dereferenced ends the parse as `crash`, an endless loop as `loop`, `fatal` as an
exception.

**Scope, NameAnalysis.** A program is the sequence of items, in the order
in which the visitors meet them; an item that opens a scope gives the scope its
number. `open`, `this`, `depth` and `invalidFrom` are the members the visitors
save and restore. `visiting` is the stack of running calls of `visitParent`, one
action per call, resolution of the parent, and copy. What a type expression
stands for is computed where the code computes it and kept in `typeOf`, as
`HasCacheableCreatedType` and `TypeSymbol::setType` keep it.

**Types to Typing.** A type is a class, a type constructor, or a call of one,
with the environment it was made under; `apply` and `substitute` are the methods
of `Types.cpp`. `supers` and `subTypes` are the table that `CanSubtype` keeps,
filled in one action per declaration, in the order the program gives.
`CheckItem` checks a method, `Conclude` compares its body with its result,
`ResolveRedef` takes the next of `_redefs`. The properties compare all this with
`Declared`, `Fits` and `Holds`, which know classes and values, no environments.

**Methods, Dispatch.** Definitions are numbered in the order of the
program. `CallMember` is `tryGetFieldInfo` with the choice among overloads, step
by step; a scope is kept as the sequence that a multimap would iterate over. The
visits that give locations are one action each, and a table or a location read
before it is set ends in the stage `undefined`.

**UsageAnalysis, DefiniteAssignment.** A program is the sequence of items the
visitors meet. One module is the visitor, flag by flag; the other runs beside it
and follows the set of all ways in which execution can get to the same item,
which is what the flags are meant to summarise. The one flag that no constructor
sets (`ASSIGNED`) starts with any value.

**AST2BAST, Execution.** A program is a set of classes (a function
is one), definitions and the code of methods as trees. The stages are those of
the phases: each class is analysed by one action, in the order its visit ends;
`Implement` rewrites the code; the numbering, the translation and the three
passes of the simplifier follow. `Execution` runs the source with nested frames
and the backend tree with numbered variables and fields; a variable, field or
method that is not there gives `Broken`. In the source, `this` is the object that
`TypeChecking` gives it the type of (`_currentThis`): in a function, that of the method
around it (`MethodFrame`), whatever the backend makes of it. Nothing is generated for an
`extern` definition; using one gives a value of its own (`Linked`) on both sides, and a
name that is neither defined nor extern gives `Broken`.

**Compared with the compiler.** The models were compared with the compiler, built from
the same sources, on: all 2,104 programs of `MCDefiniteAssignment` with at most 6
items (7 for the core constructs) and all 3,430 of `MCNameResolution`, where errors are
of the same kind and at the same place; 18,000 sources of `MCParsing`, with the
same verdict and printed tree; about 5,400 sources written from
the programs of `MCTyping` and their methods; and 2,347 distinct sources of
`MCClosures`, of which 2,334 have the backend tree of the model up to
the names of definitions, while the other 13 differ only because two printed names coincide.
These are without the programs with an explicit `this` or an extern definition, of which
only those that section 8 tells of were compared.

## 4. What the runs show

| Run | Bounds | Shows |
|---|---|---|
| `phase_graph` | 4 phases, up to 3 links of any kind; pipelines with a missing name, a name used twice, links of a phase to itself | the order returned satisfies every declaration (`OrderIsValid`), what is rejected has no order (`RejectsOnlyImpossible`, but for links within one chain), the sort returns a topological order or holds a cycle, and it ends |
| `phase_graph_moved` (violated) | 3 phases, 1 soft link | edges into storage that has moved |
| `compiler` | one builder, two compilations, one error at a time, two plugins, four host phases | code only comes from a program every analysis accepted (`CodeOnlyFromCleanProgram`), and so does what gets into a collector, which is the code of the program that was compiled for it (`CollectedIsAnalysed`); a compilation ends |
| `lexer` | every text of 2 characters, of 5 over four that make strings, comments, numbers, operators or words; strings, and streams of signed characters, one of which is taken for the end; buffers of 2; objects of three sizes | reading through the buffer is reading what is readable of the text (`PlainSpec`), up to its end (`EndsWithReadable`); tokens are the longest there are (`LongestMatch`); lexing gives up exactly on what does not end (`FatalIffUnfinished`); objects lie apart in chunks that are there (`ObjectsIntact`); everything ends and is released (`ParseEnds`) |
| `parser` | every source of up to 3 of the phrases of five places in a program, and expressions of three operators | the parser accepts the language (`AcceptedIffGrammatical`) with the structure the precedences give (`PrecedenceRespected`), an accepted tree has no hole (`NoHoles`), and a printed tree is read back (`ReadsBack`) |
| `name_resolution` | 3,430 programs of up to 31 items | see below |
| `typing` | generic classes that inherit in any order; bounds above, below, on each other; bodies of methods over three generic classes; redefs of generic methods | subtyping is what is declared (`SubtypingAgrees`); kind checking keeps every bound (`BoundsKept`); what is accepted holds values of its types (`TypesHold`); redefs may stand for what they redefine (`RedefsKept`) |
| `dispatch` | two or three classes in any order, also declared in a method or a class of one another; up to four definitions, abstract ones, redefs and both at once; two argument types | the most derived body runs (`MostDerivedRuns`), what is called takes its arguments and returns what was promised (`CallsKept`), the chosen overload is the most specific (`MostSpecificChosen`), nothing is read before it is set (`LocationsKnown`) |
| `abstract` (violated) | an abstract class and one that extends it | a class without a body for a method is accepted |
| `definite_assignment` | one variable and one class; every program of 6 items, of 8 for the core constructs | flags agree with the executions on every path, errors with their faults, mutability with what closures must see |
| `closures` | up to two nested functions or classes, of five kinds, over one variable, with and without an explicit `this`; aliases and exports between three definitions, any of them extern | a class captures exactly what is free in it (`CapturesAreFree`); the backend tree computes the value of the source (`ClosuresShareVariables`), also when simplified (`SimplifiedAlike`); exported names stay, and what is named is defined or extern (`NamesDefined`) |
| `by_closure` (violated) | a class instantiated by a function next to it | the function is taken for the object around the class |

`name_resolution` checks six invariants. `SupersAcyclic`: what `visitParent`
records is never cyclic. `InheritsAll`: a class has everything its super class
has, transitively, except constructors. `ThisReaches`: a name never means a
variable or method that the frame it is used in cannot reach, which rests on
`_currentThis` being saved and restored around every nesting of classes, methods
and definitions. `AbsoluteIffGlobal`: absolute names belong to what no definition
encloses. `InnermostWins`: inner scopes hide outer ones and the usings of a scope
hide what is around it. `BodiesSettled`: what a name meant when it was resolved is
what it means in the final tables.

*Why the bounds are enough.* Four phases is the least number with two merged
chains and a link between them, and three links close every cycle over three
nodes and compete for every place; the theorems of section 6 cover the sort for
every size. Two compilations show whatever one leaves to the next: a builder that is
compiled again, with its error count and the modules its plugins opened. They are of
the same builder (with `MaxBuilders = 2` every property holds too, in five minutes,
too long for a routine run). Texts of five characters hold every token with what comes
before and after it across at least two refills of the buffer. Three phrases are
an operator between operands, or an error with something to recover at; the
functions call each other through one phrase at a time. Two generic classes give
every combination of variances along an inheritance; one parameter more between
them repeats a step. Three classes are a redef of a redef, a class between a method and the
one that runs, and a class whose visit starts inside that of another. The flags of the
usage analysis are per variable and are combined by branches and by units; two nested
branches, or a branch in a function in a class, take no more than 8 items. The families
of names have three classes, since a cycle that the first class is not on needs two
more, three modules, and four levels of nesting with the name declared on two of them.
Two levels of closures are a capture that passes through a class that does not use it.

*What the properties leave out.* Each exclusion is a definition of its own and is
needed: without it the run fails, for the reasons section 8 gives.
`OrderIsValid` leaves aside two hard links for one place (`AmbiguousHard`);
`RejectsOnlyImpossible` names and hard links that are declared twice (`Redundant`), and
soft links between two phases of one chain of hard links (`LinkInChain`), which
the code takes for a cycle although an order may exist; both leave aside moved storage
(`moved`). `PlainSpec` and `EndsWithReadable` speak of what is readable: what a stream
has behind the first byte 0xFF is lost to them as to the code, and streams of
unsigned characters, which never end, are not among the sources of the run.
`LongestMatch` and `FatalIffUnfinished` leave aside strings with an odd first character
(`OddString`);
`AcceptedIffGrammatical` an annotation of a statement `this;`, which is kept for what
comes next (`AnnotatedThis`); `ReadsBack` what the printer cannot write (`Printable`);
`ErrorsAreFaults` captures ahead of a declaration (`CapturesTooEarly`);
`ReassignedIsMutable` variables that only some ways have assigned (`mixed`);
`LocationsKnown` redefs of a later definition of their class and classes visited while
the visit of their parent waits for what they are declared in (`ForwardOverride`,
`InsideItsParent`); `SubtypingAgrees` and `BoundsKept` bounds declared too late
(`ForwardBound`); `RedefsKept` methods of several type parameters (`SaysNoMore` and
the condition next to it); the closures' properties a shared parent-most class
(`SharesThis`), instantiations of `by_closure`'s kind (`Available`), an explicit `this`
in a function (`ThisInFunction`), two exports of
one definition (`ExportedTwice`) and an exported alias of an extern one
(`ExportedExtern`); `InheritsAll` asks nothing of what is inherited in a program with a
reported conflict, where copying stops half way.
`BodiesSettled` and `InnermostWins` speak of
names in bodies and aliases, not of the parents of classes: a parent is resolved
when its class is first reached, perhaps ahead of the usings of its own module
(`module m1 { class A : m2.B {} } module m2 { using m3 class B : C {} }` fails
with `m1` first and compiles with `m2` first), and they leave out modules
declared in parts of which a later one adds usings.

Some properties say less than their name suggests. `NoHoles` speaks of accepted
programs; a parse that dereferences null or never ends after an error (`crash`,
`loop`) accepts nothing and does not violate it. `MostDerivedRuns` follows the links
between redefs as the code made them, so it is about tables and locations;
`CallsKept` compares, as the code does, with the root of the redefinitions only.

*Configurations that fail.* Each of these five adds to a module of the table above a
property that an exclusion takes the case out of; TLC finds the violation within a
minute (`tlc -config <file> <module>`). They are kept beside the runs for what they
show; section 8 describes it.

| Configuration | Module | Property that fails | Counterexample |
|---|---|---|---|
| `MCPhaseGraphChain.cfg` | `MCPhaseGraph` | `CyclicIsImpossible` | C right before B, B right before A, C before A: refused as cyclic |
| `MCPhaseGraphHard.cfg` | `MCPhaseGraph` | `ExecutionOrder` | B right before A, C right before A: sorted as C, A, B |
| `MCStream.cfg` | `MCLexer` | `FillsBuffer` | a stream whose text has a byte 0xFF is over there; one of unsigned characters never is |
| `MCThis.cfg` | `MCClosures` | `ThisIsTheMethods` | a function in a method returns a field of `this` |
| `MCExtern.cfg` | `MCClosures` | `ExternsResolved` | an exported alias of an extern definition |

## 5. Fairness

`sortPhases`, `compile` and the lexer are calls on the caller's thread: once
called they keep running, which is weak fairness of `Next` in `PhaseGraph` and in
`Lexer` (whose client asks for one token after another, as the parser does) and of
`CompileStep` in `Compiler`. Nothing obliges a host to call, so no other action of
`Compiler` is fair. The specification of `NameAnalysis` states the same of its
visitors, as one call. The other specifications state safety only: their programs
are finite and every action consumes a part of one, so that they end by
construction.

## 6. What is proved

TLAPS checks the following for every value of the constants, that is for
pipelines, texts and programs of every size. Each result needs an invariant that
is inductive. The invariants are defined in the models, so that TLC can check them: it
finds each of them true on the programs of its `MC` module, with less of them for
`DispatchInvariant` (classes of every shape, up to three definitions, at most two
where the arguments vary) and `CompilerInvariant` (one compilation). They are too slow
to evaluate for the routine runs to include them.

**The phase graph** (`PhaseGraph_proofs`).

* `SortCorrect`: from any graph, the depth-first sort returns an order in which
  every node comes once and before the nodes its edges lead to, or stops with
  `Cyclic` over a real cycle. `SortInvariant`: the marks say which nodes are on the
  stack and which are in the result; each call on the stack was made over an edge
  from the one below, so a marked neighbour closes a cycle; the result is closed
  under edges, and of two nodes joined by an edge the target entered it first.
* `SortPhasesCorrect`, `CyclesAreThere`, `TypeCorrect`: the same for the sort as
  `sortPhases` uses it. `GraphInvariant` adds that nothing has been sorted before
  the nodes exist, and exempts the sorts that read moved storage; `TypeOK` is
  inductive only together with it.
* `OrderValid`: the order returned is valid (`OrderIsValid`). `PassesInvariant`
  says what every pass leaves for the next: edges say what the links say
  (`EdgesFromLinks`), relations and parents follow the hard edges
  (`RelationsFromEdges`, `ParentsFromRelations`), places are distances to the root
  (`PlacesFromParents`), and the merged nodes are the chains, each phase in one,
  with the soft edges of their phases (`ChainsFromPlaces`). An order of the nodes
  then unfolds into an order of the phases, at the offsets `Blocks` gives.
* `RejectedIsImpossible`: what is refused has no valid order
  (`RejectsOnlyImpossible`). A node is as long as the phases it merges, so that
  a valid order keeps its phases together and a cycle of nodes would be one of
  positions; parents that never end (`ParentsOnACycle`) and names that are
  missing are refused by the definition of a valid order. `LinkInChain` is the case in
  which a cycle of one node has no cycle of positions under it.

**Sources, allocator, lexer** (`Lexer_proofs`).

* `BufferedImplementsPlain`, `EndCorrect`: `BufferedInputSource` implements
  `InputSource` under the mapping of `Plain`, and has a next character exactly while
  one is left of what is readable. Both, and the theorems about the lexer that rest on
  them, have the hypothesis that `Kinds` has no `unsignedStream`: they are about strings
  and about streams where `char` is signed, and false where it is not. `SourceTypeOK`
  says what the buffer holds: the characters of the text between what was handed out and
  what was read, never more than what is readable.
* `ClientObjectsIntact`: whatever a client allocates, in chunks of any size, objects
  in use lie in their chunk and apart. `MemoryInvariant`: a chunk is filled from its
  start up to its offset, and chunks are only freed when every object is destroyed.
* `LexerReadsPlain`, `LexerSeesEnd`, `TokensIntact`: the three properties for the
  lexer, whose every step is shown to use its source and its allocator as a client
  may (`Reads` and `Allocates`, which the proofs' module defines).

**Compilations** (`Compiler_proofs`).

* `CleanProgramOnly` (`CodeOnlyFromCleanProgram`): code comes out of `CodeGen` only
  after every other default phase has run, with no error counted unless a foreign
  phase hid it. `CompilerInvariant`: no pipeline loses or replaces a default phase, a
  running one follows a valid order, and after a default phase has run with errors
  nothing runs. That a valid order has the analyses ahead of `CodeGen` follows from
  their links.
* `CollectorHoldsAnalysed` (`CollectedIsAnalysed`): code that gets into a bytecode
  collector is that of the program that is being compiled for it, which was parsed without
  an error, has no name twice and went through every default phase. From the same
  invariant: what `CodeGen` leaves is there only if all of them ran, and a name that two
  loads of a plugin define is an error of `NameAnalysis`. It says nothing of a
  compilation that throws, which leaves the code the collector held before.

**Name analysis** (`NameResolution_proofs`).

* `SupersNeverCycle` (`SupersAcyclic`): following the super classes that
  `visitParent` recorded never comes back to a class. `CallsInvariant`: the running calls
  are for different classes, none of them visited; a class is given its super class when
  its call ends, and that super class was visited before. Nothing is assumed of what
  `ASTTypeCreator` answers: that the class it returns is marked is always noticed.
* `InheritedForGood` (`InheritsAll`): a class that was visited has what its super class
  has, unless a conflict was reported, and keeps it. `TablesInvariant`: every
  class that was met has a scope, the symbols of a name are one or definitions only, and
  a declaration has one symbol, so that the entry `copySymbolsFrom` meets in the
  place of another one is a conflict or the same. What is above a class was visited before
  it, and no scope of a visited class changes but for its usings.
* `GlobalsNamed` (`AbsoluteIffGlobal`): the declarations that have an absolute name are
  those that no definition encloses. The analysis keeps a path and the length it had
  when a definition invalidated it; `DepthInvariant` says that the path is as
  long as there are declarations open around the item, and invalid from the outermost
  open definition on. That what is open are the items around (`PendingEncloses`
  and what follows it) is found by counting openings and ends. `NamesInvariant` says that
  it is the declarations met outside of definitions that were named, in both passes.
* `NamesReach` (`ThisReaches`): a name never means a declaration that is made in every
  object or call when a definition lies between that declaration's frame and the use.
  `ReachInvariant` has, besides the inheritance: the open scopes are those of the items
  around, with the `this` each one saved (`StackInvariant`); every item that opens a scope
  has it under that of the item around, a scope hides `this` exactly at a `Barrier`, and the
  scopes that are used are those of modules, where nothing belongs to a frame
  (`PlacesInvariant`); what names mean is within reach (`FoundInvariant`). A lookup is
  followed by induction over the parents of a scope (`LooksUp`, `LookupReaches`), and that
  scopes only grow while names are assigned (`GoesOn`) keeps what was found.
* `ClosestFound` (`InnermostWins`): what a name in a body means is declared by, or used by,
  the innermost scope around it that has anything of that name. In `InnerInvariant`
  symbols are under the names of their declarations (`WellNamed`), so that a scope with
  nothing under a name has nothing of it; a lookup goes on only from those
  (`LookupIsClosest`). It stays the closest (`ClosestStays`) because of the order of the
  visits (`OrderInvariant`): the classes around what was resolved were
  visited, and only a class that was not inherits (`InheritStays`); usings go to the
  scope that is entered, which is around nothing that was resolved but when a
  module is continued (`UseStays`).

**Usage analysis** (`DefiniteAssignment_proofs`).

* `FlagIffAssigned` (`InitializedOnEveryPath`): at every item, a variable of the unit
  has the flag `INITIALIZED` exactly when every way in which execution can get there
  has assigned it. `AssignmentInvariant`: the open conditionals are the frames of the
  visitor (`PositionInvariant`); the flags are split over the scopes, each
  variable in one (`ScopesInvariant`); the flags saved in a frame are what the ways
  into its conditional have assigned, and with those of the first branch what
  the ways through it have (`WaysInvariant`). The depth of items, which finds the
  end of a unit, is handled by counting what is opened and closed.
* `FaultsAreReported` (`ErrorsAreFaults`), `ReassignedIsMarked`
  (`ReassignedIsMutable`): the errors are at the faults of the executions, and a
  variable that changes after it was captured is marked. Both relate a unit to the
  place that creates its object, so `ReportsInvariant` speaks of all units that are
  over, with the part of the current one that was visited: what they declare, and
  what is free in them, is what the visitor kept (`NamesInvariant`); a way has
  declared what reaches it and assigned all that the units around declare
  (`DeclarationsInvariant`); what has changed after a capture is marked, or
  is declared further out (`BoxesInvariant`); every item visited has its error if it
  has its fault, or is a use that waits for its declaration
  (`ErrorsInvariant`). The hard steps are the end of a branch, where what it declared
  has to be out of reach of what follows, and the end of a unit, where the items of
  the next one are those around it.

**Methods and calls** (`Dispatch_proofs`), from `DispatchInvariant` (`InvariantHolds`).

* `LocationsAssigned` (`LocationsKnown`): of an accepted program no location and no
  table is read before it is set, but for the two exceptions that are named. The
  classes on the stack wait for one another (`StackInvariant`), every redef
  has found what it overrides (`OverridesInvariant`), and a class that was visited is
  on the stack or has its table and its members' (`VisitsInvariant`). Without
  `StackLinked` the exception `InsideItsParent` could not be told from any other read.
* `NearestDefinitionRuns` (`MostDerivedRuns`): a table, even half built, has at the
  location of a method the nearest of the definitions that override it
  (`TablesInvariant`), and the backend has those tables (`MethodsInvariant`).
* `OverloadsResolved` (`MostSpecificChosen`): the choice among any number of
  overloads. Candidates that no other overrides have a representative for each
  definition that no redef hides, discarding arguments one by one loses none that
  takes them all, and a more specific one has the higher score: what it counts
  includes, by transitivity, all that the other counts, and the other itself.
* `AcceptedCallsKept` (`CallsKept`): what runs overrides the same method as what was
  chosen, and takes its arguments.

*Assumptions.* Those the modules state, which TLC evaluates: `N` is a natural
number and the declarations are those of `N` phases (`PhaseGraph`); texts are
sequences of characters and the buffer holds at least one (`BufferedInputSource`);
objects have a size (`MemoryManager`); pipelines are finite and the host's phases
do not take the names of default ones (`PhasesAssumption` of `Compiler`); programs
nest well and each name in them has one declaration, whose block is around every item
that has the name (`WellFormed` and `Resolved` of `UsageAnalysis`: the parser and
the name analysis ran before); programs are sequences of items over a finite list of names
(`Scope`, `NameAnalysis`), which end what they open and nothing else
(`NestingAssumption`: what is analysed is a tree), with modules in modules only,
variables not at the top of a module and no block right inside a class
(`ShapeAssumption`: what the parser builds); no class extends itself,
which name analysis has refused, inner classes come after outer ones, and subtypes are
a partial order (`Methods`).

*Induction.* `Induction` states it on sets of numbers: the least element
(`LeastElement`), induction (`NumberInduction`), functions defined step by step
(`Iteration`) or from parent to child (`ParentInduction`), what sequences
put one after the other have where, and how the items of a range are counted.

*Only model-checked.* Liveness (`Terminates`, `CompileEnds`, `ParseEnds`), which is
out of the prover's reach; `LongestMatch` and `FatalIffUnfinished`, which compare
words put together character by character, and the provers compute nothing
about strings.
`BodiesSettled`, as what the errors are depends on the recursion of `ASTTypeCreator`.
`Parser`, `Types` and `Execution` and what uses them have recursive operators, which the
prover does not take, and stay with TLC: the properties of `Parsing`, `Typing` and of
the closures.

## 7. What is not modelled

* Builders of modules, classes and types (`ModuleBuilder`, `ClassBuilder`, ...):
  they put nodes together for the parser's and the plugins' use.
* In the name analysis: `TypeDependencyFixation`, function types, the
  checks of `extern`, and the rewriting of calls into instantiations.
* In types and kinds: type constructors as values, literals other than unit and
  bool, annotations that assert captures, and the paths of `SymbolResolver`.
* In the usage analysis: inheritance of captures, fields, tuples and names
  that start with `unused_`.
* In the backend: the bodies of extern definitions, which are the linker's; ifs, tuples,
  literals other than integers, type constructors, and the errors about the signatures of exported definitions. A definition that is an
  alias of itself (`def a = b; def b = a`) keeps `findSubstitution` in its loop;
  programs of the model have none.
* Bytecode generation: `CodeGenPhase` outputs an empty list, and nothing calls the
  generator, which was written for another tree.
* The printer of the backend tree, layout, the standard library and the tools.

## 8. Findings and known deviations

`PROJECT.json` quotes the lines of the three findings that runs show: edges
between phases point into a vector that grows (`phase_graph_moved`); a class that
redefines a concrete method may leave an abstract one without a body
(`abstract`); a class instantiated by a function takes the function for the
object around it (`by_closure`).

The models also keep what follows; the properties leave it out, by the
definitions section 4 names or by the programs that are tried.

*Phases and compiler.* Two hard links for one place are accepted, and one of them is
not kept (`PhaseGraph.cpp:115-117` compares those of one phase;
`MCPhaseGraphHard.cfg`), though `checkExecutionOrder` of
`tests/PhaseGraphTests.cpp:179-187` asks for both. A soft link between two phases
of one chain becomes an edge of the merged node to itself (216-222), so that
"A cyclic dependency was found" (246) is said of declarations that agree with each
other (`MCPhaseGraphChain.cfg`). A `ProgramBuilder` can be compiled
twice: `compile` makes its copy invalid (`Compiler.cpp:468`). A compilation that throws
does not reach `collect` (501-507), so that a `ByteCodeCollector` used again still has
the code of the program before.

*Sources and memory.* `IStreamSource` keeps what `get` returns in a `char` and then
compares it with EOF (`InputSource.cpp:60-64`): where `char` is signed, a byte 0xFF
ends the stream; where it is unsigned, the stream never ends. Against `InputSource.h:32-37`,
`getNexts` then gives fewer or more characters than there are (`MCStream.cfg`). No
source of the compiler is a stream. A host that sets `InitialChunkSize` to 0 makes the
allocator double 0 for ever (`MemoryManager.cpp:42-44`).

*Lexer.* `?` is no operator and its precedence is read out of bounds
(`Tokens.cpp:252`). The first character of a string is taken as it is
(`Lexer.cpp:138`), and a lone `"` at the end of the input is an empty string.

*Parser and printer.* A token after the last declaration is dropped
(`Parser.cpp:146`), the end of the input closes what is open (171, 533, 1223),
flags ahead of a `}` are dropped (190-192), and an expression that is no type ends
the parse (`ASTExpr2TypeExpr.cpp:68-78`). After an error the parser may dereference
a null node (`Parser.cpp:344`) or try a member that consumes nothing for ever (1223). The
printer leaves out `abstract`
(`ASTPrinter.cpp:75`), the last element of a tuple of types, the parentheses of an
`if`, annotations, `static`, the usings of blocks, and prints anonymous classes,
constructors and inferred types as nothing that can be read; `ReadsBack` speaks
of the trees without them (`Printable`), while `ASTPrinter.h:20-21` says of every tree that
parsing the output should give it again.

*Names.* The type of an alias that is asked for ahead of the resolution of its
names stays null, and a class loses the parent it names so
(`ASTTypeCreator.cpp:366`).

*Types.* A class whose parent is applied to itself, growing, is substituted for
ever (`Types.cpp:88-90`, `604-615`); a parent `A[Box[T]]` is substituted no deeper
than its first level (217), and not all at once; a bound that is declared too late is
refused (`CanSubtype.h:65`, `105`); methods of several type parameters share one cached
type, whose bounds are those of the first one that was asked for
(`Types.cpp:131-155`); kinds of constructors are compared as covariant, a lower
bound is not compared with the upper one, a lower bound that is an application is
not recorded (`NameAnalysis.cpp:657-658`), variances are not checked where they are
declared.

*Usage.* A variable assigned in one branch, captured there and reassigned after it
is captured by value (`UsageAnalysis.cpp:84`); a function created ahead of the
declaration of a variable it captures is accepted (207).

*Backend.* An explicit `this` in a function has the type of the class around the function
(`TypeChecking.cpp:187`, `639-645`); the pre-transformation captures nothing for it, and
`AST2BAST.cpp:263-265` makes it variable 0, which is the function's own object
(`MCThis.cfg`; the compiler gives `$0` for the `this` of a closure as the model does).
Nothing is generated for an extern definition (52-57, 94-97), so `isHiddenName` (484-486)
takes it for a hidden one: an exported alias of it is deleted and its uses are
renamed to the alias, which nothing defines (601-605; `MCExtern.cfg`; the compiler does
the same), while `README.md:58` says that extern symbols are resolved at link time.
Classes that share their parent-most class share one `this`
(`PreTransform.cpp:316-326`). Two exported names of one definition, or an exported
alias ahead of the exported definition, leave only one (`AST2BAST.cpp:448-470`,
`560-600`).

## 9. What is left

* `LongestMatch` and `FatalIffUnfinished` as theorems: they need the words of
  `Tokens` as sequences of characters.
* The parser, the types and the backend as recursive functions, so that the
  invariants of `Parsing`, `Typing` and `Execution` can be stated to the prover.
* `InheritsAll` class by class, for programs in which another class has a conflict.
* Function types and literals in `Typing`; ifs in `AST2BAST`.
