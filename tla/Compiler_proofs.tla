--------------------------- MODULE Compiler_proofs ---------------------------
(***************************************************************************)
(* For every set of plugins and every phases they and the host insert:     *)
(* code comes only out of a program that went through the whole default    *)
(* pipeline without an error, and no other code gets into a collector.     *)
(***************************************************************************)
EXTENDS Compiler, PhaseOrder_proofs

-----------------------------------------------------------------------------
(* Pipelines *)

\* The default phases have their own names.
LEMMA DefaultNames == \A p \in DOMAIN DefaultPhases : DefaultPhases[p].name = p
  BY DEF DefaultPhases, Declares

\* The default pipeline has the default phases, once each.
LEMMA DefaultsKept == KeepsDefaults(DefaultPhases)
<1> DEFINE With(S, x) == S \cup {x}
           Upto1 == With(With({}, "NameAnalysis"), "KindChecking")
           Upto2 == With(With(Upto1, "TypeChecking"), "UsageAnalysis")
           Upto3 == With(With(Upto2, "PreTransform"), "AST2BAST")
<1>1. /\ DefaultPhases = [p \in DOMAIN DefaultPhases |-> DefaultPhases[p]]
      /\ DOMAIN DefaultPhases = With(Upto3, "CodeGen")
  BY DEF DefaultPhases
<1>2. \A S, x : IsFiniteSet(S) => IsFiniteSet(With(S, x))
  BY FS_AddElement
<1>3. IsFiniteSet({})
  BY FS_EmptySet
<1>4. IsFiniteSet(With(Upto3, "CodeGen"))
  <2> HIDE DEF With
  <2> QED
    BY <1>2, <1>3
<1> QED
  BY <1>1, <1>4 DEF KeepsDefaults

(* Inserting further phases keeps those that are there.                    *)
LEMMA InsertedKeeps ==
    ASSUME NEW ppl, KeepsDefaults(ppl), NEW phases, IsFiniteSet(DOMAIN phases)
    PROVE  KeepsDefaults(Inserted(ppl, phases))
<1>1. DOMAIN Inserted(ppl, phases) = DOMAIN ppl \cup DOMAIN phases
  BY DEF Inserted
<1>2. IsFiniteSet(DOMAIN ppl \cup DOMAIN phases)
  BY FS_Union DEF KeepsDefaults
<1>3. \A p \in DOMAIN ppl : Inserted(ppl, phases)[p] = ppl[p]
  BY DEF Inserted
<1>4. Inserted(ppl, phases) =
        [p \in DOMAIN Inserted(ppl, phases) |-> Inserted(ppl, phases)[p]]
  BY DEF Inserted
<1> QED
  BY <1>1, <1>2, <1>3, <1>4 DEF KeepsDefaults

(* So does compilePass, whatever plugins are loaded.                       *)
LEMMA WithPluginsKeeps ==
    ASSUME plugins \in Seq(Plugin), NEW ppl, KeepsDefaults(ppl)
    PROVE  KeepsDefaults(WithPlugins(ppl))
<1> DEFINE n == Len(plugins)
           Dom == DOMAIN ppl \cup UNION {DOMAIN PluginPhases[p] : p \in Plugin}
           Val == {ppl[q] : q \in DOMAIN ppl}
                    \cup UNION {{PluginPhases[p][q] : q \in DOMAIN PluginPhases[p]} : p \in Plugin}
           Pipelines == UNION {[D -> Val] : D \in SUBSET Dom}
           X == {q \in Pipelines : KeepsDefaults(q)}
           e(k, q) == Inserted(q, PluginPhases[plugins[k]])
           F == [kq \in (1..n) \X X |-> e(kq[1], kq[2])]
           adding[k \in 0..n] == IF k = 0 THEN ppl ELSE e(k, adding[k - 1])
<1>1. n \in Nat /\ \A k \in 1..n : plugins[k] \in Plugin
  OBVIOUS
<1>2. ASSUME NEW k \in 1..n, NEW q \in X PROVE e(k, q) \in X
  <2>1. PICK D \in SUBSET Dom : q \in [D -> Val]
    OBVIOUS
  <2> DEFINE pl == plugins[k]
             D2 == D \cup DOMAIN PluginPhases[pl]
  <2>2. pl \in Plugin
    BY <1>1
  <2>3. D2 \in SUBSET Dom
    BY <2>2
  <2>4. \A p \in DOMAIN PluginPhases[pl] : PluginPhases[pl][p] \in Val
    BY <2>2
  <2>5. Inserted(q, PluginPhases[pl]) \in [D2 -> Val]
    <3> HIDE DEF Dom, Val, pl
    <3> QED
      BY <2>1, <2>4 DEF Inserted
  <2>6. KeepsDefaults(Inserted(q, PluginPhases[pl]))
    BY <2>2, InsertedKeeps, PhasesAssumption
  <2> HIDE DEF Dom, Val, D2, pl
  <2> QED
    BY <2>3, <2>5, <2>6 DEF pl
<1>3. ppl \in X
  <2>1. ppl \in [DOMAIN ppl -> Val]
    BY DEF KeepsDefaults
  <2> HIDE DEF Val
  <2> QED
    BY <2>1
<1>4. F \in Steps(n, X)
  <2> HIDE DEF X, e
  <2> QED
    BY <1>2 DEF Steps
<1>5. PICK g : Iterates(n, X, F, ppl, g)
  <2> HIDE DEF X, F, n
  <2> QED
    BY <1>1, <1>3, <1>4, Iteration
<1>6. g = [k \in 0..n |-> IF k = 0 THEN ppl ELSE e(k, g[k - 1])]
  <2>1. g \in [0..n -> X] /\ g[0] = ppl
    BY <1>5 DEF Iterates
  <2>2. ASSUME NEW k \in 1..n PROVE g[k] = e(k, g[k - 1])
    <3>1. <<k, g[k - 1]>> \in (1..n) \X X
      <4> HIDE DEF X, n
      <4> QED
        BY <1>1, <2>1
    <3>2. g[k] = F[<<k, g[k - 1]>>]
      BY <1>5 DEF Iterates
    <3> HIDE DEF X, e
    <3> QED
      BY <3>1, <3>2
  <2> HIDE DEF X, e, n
  <2> QED
    BY <1>1, <2>1, <2>2
<1>7. adding = [k \in 0..n |-> IF k = 0 THEN ppl ELSE e(k, adding[k - 1])]
  <2> HIDE DEF e, n
  <2> QED
    BY <1>6
<1>8. ASSUME NEW h, h = [k \in 0..n |-> IF k = 0 THEN ppl ELSE e(k, h[k - 1])]
      PROVE  h[n] \in X
  <2> DEFINE T == {k \in Nat : k <= n => h[k] \in X}
  <2>1. 0 \in T
    <3>1. h[0] = ppl
      BY <1>1, <1>8
    <3> HIDE DEF X
    <3> QED
      BY <1>3, <3>1
  <2>2. ASSUME NEW k \in Nat, k \in T PROVE k + 1 \in T
    <3>1. ASSUME NEW m \in 0..n, m # 0 PROVE h[m] = e(m, h[m - 1])
      <4> HIDE DEF e, n
      <4>1. h[m] = IF m = 0 THEN ppl ELSE e(m, h[m - 1])
        BY <1>8, Zenon
      <4> QED
        BY <3>1, <4>1
    <3>2. ASSUME k + 1 <= n PROVE k + 1 \in 1..n /\ k + 1 \in 0..n /\ k + 1 # 0 /\ k + 1 - 1 = k
      BY <1>1, <3>2
    <3> HIDE DEF X, e, n
    <3>3. ASSUME k + 1 <= n PROVE h[k + 1] = e(k + 1, h[k]) /\ h[k] \in X
      BY <1>1, <2>2, <3>1, <3>2, <3>3
    <3> QED
      BY <1>1, <1>2, <3>2, <3>3
  <2>3. \A k \in Nat : k \in T
    <3> HIDE DEF T
    <3> QED
      BY <2>1, <2>2, NumberInduction
  <2> QED
    BY <1>1, <2>3
<1>9. adding[n] \in X
  <2> HIDE DEF adding, X, n
  <2> QED
    BY <1>7, <1>8
<1>10. WithPlugins(ppl) = adding[n]
  BY DEF WithPlugins
<1> QED
  BY <1>9, <1>10
-----------------------------------------------------------------------------
(* Orders *)

(* A phase that bears the name of a default phase is that phase.           *)
LEMMA PhaseOfName ==
    ASSUME NEW d, KeepsDefaults(d), NamedOnce(d),
           NEW p \in DOMAIN d, d[p].name \in DOMAIN DefaultPhases
    PROVE  d[p].name = p
<1>1. d[p].name \in DOMAIN d /\ d[d[p].name] = DefaultPhases[d[p].name]
  BY DEF KeepsDefaults
<1>2. d[d[p].name].name = d[p].name
  BY <1>1, DefaultNames
<1> QED
  BY <1>1, <1>2 DEF NamedOnce

(* What a default phase declares to run after comes before it.             *)
LEMMA RunsAfter ==
    ASSUME NEW d, KeepsDefaults(d), NamedOnce(d), NEW s \in ValidOrders(d),
           NEW p \in DOMAIN DefaultPhases, NEW q \in DOMAIN DefaultPhases,
           After(q) \in DefaultPhases[p].links,
           NEW i \in 1..Len(s), s[i] = p
    PROVE  \E j \in 1..(i - 1) : s[j] = q
<1>1. s \in Seq(DOMAIN d) /\ ValidOrder(d, s)
  BY OrdersRunEachOnce DEF KeepsDefaults
<1>2. d[s[i]] = DefaultPhases[p]
  BY DEF KeepsDefaults
<1>3. LinkHolds(d, s, i, After(q))
  BY <1>1, <1>2 DEF ValidOrder
<1>4. After(q).kind = "after" /\ After(q).name = q
  BY DEF After
<1>5. RunsAt(d, s, q, 1..(i - 1))
  BY <1>3, <1>4 DEF LinkHolds
<1>6. PICK j \in (1..(i - 1)) \cap 1..Len(s) : d[s[j]].name = q
  BY <1>5 DEF RunsAt
<1>7. s[j] \in DOMAIN d
  BY <1>1
<1>8. s[j] = q
  BY <1>6, <1>7, PhaseOfName
<1> QED
  BY <1>6, <1>8

(* The same for UsageAnalysis, which declares to run before PreTransform.  *)
LEMMA UsageAnalysisBefore ==
    ASSUME NEW d, KeepsDefaults(d), NamedOnce(d), NEW s \in ValidOrders(d),
           NEW i \in 1..Len(s), s[i] = "PreTransform"
    PROVE  \E j \in 1..(i - 1) : s[j] = "UsageAnalysis"
<1>1. s \in Seq(DOMAIN d) /\ ValidOrder(d, s) /\ RunsNoneTwice(s) /\ RunsAll(d, s)
  BY OrdersRunEachOnce DEF KeepsDefaults
<1>2. /\ "UsageAnalysis" \in DOMAIN DefaultPhases /\ "PreTransform" \in DOMAIN DefaultPhases
      /\ [kind |-> "before", name |-> "PreTransform"] \in DefaultPhases["UsageAnalysis"].links
  BY DEF DefaultPhases, Declares
<1>3. PICK j \in 1..Len(s) : s[j] = "UsageAnalysis"
  BY <1>1, <1>2 DEF RunsAll, KeepsDefaults
<1>4. d[s[j]] = DefaultPhases["UsageAnalysis"]
  BY <1>2, <1>3 DEF KeepsDefaults
<1>5. LinkHolds(d, s, j, [kind |-> "before", name |-> "PreTransform"])
  BY <1>1, <1>2, <1>4 DEF ValidOrder
<1>6. RunsAt(d, s, "PreTransform", (j + 1)..Len(s))
  BY <1>5 DEF LinkHolds
<1>7. PICK k \in ((j + 1)..Len(s)) \cap 1..Len(s) : d[s[k]].name = "PreTransform"
  BY <1>6 DEF RunsAt
<1>8. s[k] \in DOMAIN d
  BY <1>1
<1>9. s[k] = "PreTransform"
  BY <1>2, <1>7, <1>8, PhaseOfName
<1>10. k = i
  BY <1>1, <1>9 DEF RunsNoneTwice
<1> QED
  BY <1>3, <1>7, <1>10

(* In every order of a pipeline that keeps the default phases, CodeGen     *)
(* runs after all the others.                                              *)
LEMMA CodeGenRunsLast ==
    ASSUME NEW d, KeepsDefaults(d), NamedOnce(d), NEW s \in ValidOrders(d),
           NEW i \in 1..Len(s), d[s[i]].name = "CodeGen",
           NEW p \in DOMAIN DefaultPhases \ {"CodeGen"}
    PROVE  \E j \in 1..(i - 1) : d[s[j]].name = p
<1>1. s \in Seq(DOMAIN d)
  BY OrdersRunEachOnce DEF KeepsDefaults
<1>2. s[i] \in DOMAIN d /\ "CodeGen" \in DOMAIN DefaultPhases
  BY <1>1 DEF DefaultPhases
<1>3. s[i] = "CodeGen"
  BY <1>2, PhaseOfName
<1> DEFINE Earlier(q) == \E j \in 1..(i - 1) : s[j] = q
<1>4. ASSUME NEW q \in DOMAIN DefaultPhases, NEW r \in DOMAIN DefaultPhases,
             After(r) \in DefaultPhases[q].links, Earlier(q)
      PROVE  Earlier(r)
  <2>1. PICK j \in 1..(i - 1) : s[j] = q
    BY <1>4
  <2>2. j \in 1..Len(s) /\ i \in Nat /\ j \in Nat /\ j < i
    BY <1>1
  <2>3. PICK k \in 1..(j - 1) : s[k] = r
    BY <1>4, <2>1, <2>2, RunsAfter
  <2> QED
    BY <2>2, <2>3
<1>5. /\ DOMAIN DefaultPhases = {"NameAnalysis", "KindChecking", "TypeChecking", "UsageAnalysis",
                                 "PreTransform", "AST2BAST", "CodeGen"}
      /\ After("AST2BAST") \in DefaultPhases["CodeGen"].links
      /\ After("PreTransform") \in DefaultPhases["AST2BAST"].links
      /\ After("TypeChecking") \in DefaultPhases["PreTransform"].links
      /\ After("KindChecking") \in DefaultPhases["TypeChecking"].links
      /\ After("NameAnalysis") \in DefaultPhases["KindChecking"].links
  BY DEF DefaultPhases, Declares
<1>6. Earlier("AST2BAST")
  BY <1>3, <1>5, RunsAfter
<1>7. Earlier("PreTransform")
  BY <1>4, <1>5, <1>6
<1>8. Earlier("TypeChecking")
  BY <1>4, <1>5, <1>7
<1>9. Earlier("KindChecking")
  BY <1>4, <1>5, <1>8
<1>10. Earlier("NameAnalysis")
  BY <1>4, <1>5, <1>9
<1>11. Earlier("UsageAnalysis")
  <2>1. PICK j \in 1..(i - 1) : s[j] = "PreTransform"
    BY <1>7
  <2>2. j \in 1..Len(s) /\ i \in Nat /\ j \in Nat /\ j < i
    BY <1>1
  <2>3. PICK k \in 1..(j - 1) : s[k] = "UsageAnalysis"
    BY <2>1, <2>2, UsageAnalysisBefore
  <2> QED
    BY <2>2, <2>3
<1>12. Earlier(p)
  <2> HIDE DEF Earlier
  <2> QED
    BY <1>5, <1>6, <1>7, <1>8, <1>9, <1>10, <1>11
<1>13. PICK j \in 1..(i - 1) : s[j] = p
  BY <1>12
<1>14. d[p] = DefaultPhases[p]
  BY DEF KeepsDefaults
<1> QED
  BY <1>13, <1>14, DefaultNames
-----------------------------------------------------------------------------
(* The invariant *)

\* Removing an element of a sequence leaves elements of the same set.
LEMMA RemoveFirstTyped ==
    ASSUME NEW S, NEW s \in Seq(S), NEW x, \E i \in 1..Len(s) : s[i] = x
    PROVE  RemoveFirst(s, x) \in Seq(S)
<1> DEFINE I == {i \in 1..Len(s) : s[i] = x}
           i == Min(I)
<1>1. RemoveFirst(s, x) = SubSeq(s, 1, i - 1) \o SubSeq(s, i + 1, Len(s))
  BY DEF RemoveFirst, RemoveAt, SelectInSeq
<1>2. i \in 1..Len(s)
  <2>1. I \in SUBSET Nat /\ I # {}
    OBVIOUS
  <2>2. \E y \in I : \A z \in I : y <= z
    <3> HIDE DEF I
    <3> QED
      BY <2>1, LeastElement
  <2>3. i \in I
    <3> HIDE DEF I
    <3> QED
      BY <2>2 DEF Min
  <2> QED
    BY <2>3
<1> HIDE DEF i
<1>3. SubSeq(s, 1, i - 1) \in Seq(S)
  <2>1. \A k \in 1..(i - 1) : s[k] \in S
    BY <1>2
  <2> QED
    BY <1>2, <2>1, SubSeqProperties
<1>4. SubSeq(s, i + 1, Len(s)) \in Seq(S)
  <2>1. \A k \in (i + 1)..Len(s) : s[k] \in S
    BY <1>2
  <2> QED
    BY <1>2, <2>1, SubSeqProperties
<1> QED
  BY <1>1, <1>3, <1>4

(* Every order of a pipeline that keeps the default phases has a phase.    *)
LEMMA OrdersRunSomething ==
    ASSUME NEW d, KeepsDefaults(d), NEW s \in ValidOrders(d)
    PROVE  Len(s) \in Nat /\ 0 < Len(s)
<1>1. s \in Seq(DOMAIN d) /\ RunsAll(d, s)
  BY OrdersRunEachOnce DEF KeepsDefaults
<1>2. "CodeGen" \in DOMAIN d
  BY DEF KeepsDefaults, DefaultPhases
<1>3. PICK i \in 1..Len(s) : s[i] = "CodeGen"
  BY <1>1, <1>2 DEF RunsAll
<1> QED
  BY <1>1, <1>3

\* The invariant holds at first.
LEMMA InitInvariant == Init => CompilerInvariant
<1> SUFFICES ASSUME Init PROVE CompilerInvariant
  OBVIOUS
<1>1. plugins \in Seq(Plugin) /\ builders \in Seq(Builder) /\ errorCount \in Nat
  BY DEF Init
<1> QED
  BY <1>1, DefaultsKept DEF Init, CompilerInvariant

\* Errors are counted up to a bound that is at least one.
LEMMA ReportedCounts ==
    ASSUME errorCount \in Nat, NEW n \in 0..1
    PROVE  Reported(n) \in Nat /\ (n > 0 => Reported(n) > 0)
  BY CompilerAssumption DEF Reported

\* Opening modules in a builder leaves the builders what they are.
LEMMA OpeningKeeps ==
    ASSUME CompilerInvariant, NEW b \in 1..Len(builders)
    PROVE  /\ WithModules(b) \in Seq(Builder) /\ Len(WithModules(b)) = Len(builders)
           /\ WithModules(b)[b].valid = builders[b].valid
<1>1. builders \in Seq(Builder) /\ plugins \in Seq(Plugin) /\ builders[b] \in Builder
  BY DEF CompilerInvariant
<1>2. ASSUME NEW p \in Plugin PROVE OpenedBy(p) \in Nat
  <2> DEFINE I == {i \in 1..Len(plugins) : plugins[i] = p}
  <2>1. IsFiniteSet(1..Len(plugins))
    <3>1. Len(plugins) \in Int /\ 1 \in Int
      BY <1>1
    <3> QED
      BY <3>1, FS_Interval
  <2>2. IsFiniteSet(I)
    <3>1. I \in SUBSET (1..Len(plugins))
      OBVIOUS
    <3> HIDE DEF I
    <3> QED
      BY <2>1, <3>1, FS_Subset
  <2>3. Cardinality(I) \in Nat
    <3> HIDE DEF I
    <3> QED
      BY <2>2, FS_CardinalityType
  <2> QED
    BY <2>3 DEF OpenedBy
<1> DEFINE old == builders[b].opened
           new == [p \in Plugin |-> old[p] + OpenedBy(p)]
<1>3. old \in [Plugin -> Nat] /\ builders[b].valid \in BOOLEAN
      /\ builders[b] = [valid |-> builders[b].valid, opened |-> old]
  BY <1>1 DEF Builder
<1>4. new \in [Plugin -> Nat]
  BY <1>2, <1>3
<1>5. WithModules(b) = [builders EXCEPT ![b].opened = new]
  BY DEF WithModules
<1> HIDE DEF old, new
<1>6. [builders[b] EXCEPT !.opened = new] = [valid |-> builders[b].valid, opened |-> new]
  BY <1>3
<1>7. WithModules(b) = [builders EXCEPT ![b] = [valid |-> builders[b].valid, opened |-> new]]
  BY <1>5, <1>6
<1>8. [valid |-> builders[b].valid, opened |-> new] \in Builder
  BY <1>3, <1>4 DEF Builder
<1> QED
  BY <1>1, <1>7, <1>8

(* A call starts with an order of the phases it has sorted.                *)
LEMMA CompileKeeps ==
    ASSUME CompilerInvariant, NEW b \in 1..Len(builders), NEW collector, Compile(b, collector)
    PROVE  CompilerInvariant'
<1>1. UNCHANGED <<plugins, pipeline, errorCount>> /\ call = NoCall
  BY DEF Compile, Idle
<1>2. builders' = builders \/ builders' = WithModules(b)
  BY DEF Compile
<1>3. /\ plugins' \in Seq(Plugin) /\ KeepsDefaults(pipeline)' /\ errorCount' \in Nat
      /\ builders' \in Seq(Builder)
  BY <1>1, <1>2, OpeningKeeps DEF CompilerInvariant, KeepsDefaults
<1>4. CASE UNCHANGED call
  BY <1>1, <1>3, <1>4 DEF CompilerInvariant, NoCall
<1>5. CASE ~ UNCHANGED call
  <2> DEFINE ppl == WithPlugins(pipeline)
  <2>1. /\ builders[b].valid /\ builders' = WithModules(b)
        /\ \E order \in SortPhases(ppl) :
              call' = [stage |-> "running", builder |-> b, collector |-> collector,
                       phases |-> ppl, order |-> order, ran |-> 0, objects |-> InitialObjects]
    BY <1>5 DEF Compile
  <2>2. PICK order \in SortPhases(ppl) :
           call' = [stage |-> "running", builder |-> b, collector |-> collector,
                    phases |-> ppl, order |-> order, ran |-> 0, objects |-> InitialObjects]
    BY <2>1
  <2>3. KeepsDefaults(ppl)
    BY WithPluginsKeeps DEF CompilerInvariant
  <2> HIDE DEF ppl
  <2>4. NamedOnce(ppl) /\ order \in ValidOrders(ppl)
    BY DEF SortPhases, NamedOnce
  <2>5. Len(order) \in Nat /\ 0 < Len(order)
    BY <2>3, <2>4, OrdersRunSomething
  <2>6. /\ call'.stage = "running" /\ call'.phases = ppl /\ call'.order = order /\ call'.ran = 0
        /\ call'.builder = b /\ call'.objects = InitialObjects
        /\ call' = [stage |-> call'.stage, builder |-> call'.builder,
                    collector |-> call'.collector, phases |-> call'.phases,
                    order |-> call'.order, ran |-> call'.ran, objects |-> call'.objects]
    BY <2>2
  <2>7. 0 \in 0..Len(order) /\ ~ (0 > 0)
    BY <2>5
  <2>8. call'.builder \in 1..Len(builders') /\ builders'[call'.builder].valid
    BY <2>1, <2>6, OpeningKeeps
  <2>9. Ran' = {}
    BY <2>6 DEF Ran
  <2>10. "out" \notin call'.objects
    BY <2>6 DEF InitialObjects
  <2>11. CallOK'
    BY <2>3, <2>4, <2>5, <2>6, <2>7, <2>8, <2>9, <2>10 DEF CallOK
  <2> QED
    BY <1>3, <2>11 DEF CompilerInvariant
<1> QED
  BY <1>4, <1>5

(* When CodeGen is next, every other phase of the default pipeline has run. *)
LEMMA RanBeforeCodeGen ==
    ASSUME CallOK, call.stage = "running", NextName = "CodeGen"
    PROVE  DOMAIN DefaultPhases \ {"CodeGen"} \subseteq Ran /\ call.ran > 0
<1> DEFINE d == call.phases
           s == call.order
           i == call.ran + 1
<1>1. /\ KeepsDefaults(d) /\ NamedOnce(d) /\ s \in ValidOrders(d)
      /\ Len(s) \in Nat /\ call.ran \in Nat /\ call.ran < Len(s)
  BY OrdersRunSomething DEF CallOK
<1>2. d[s[i]].name = "CodeGen"
  BY DEF NextName
<1>3. i \in 1..Len(s) /\ i - 1 = call.ran
  BY <1>1
<1>4. ASSUME NEW p \in DOMAIN DefaultPhases \ {"CodeGen"}
      PROVE  \E j \in 1..call.ran : d[s[j]].name = p
  <2> HIDE DEF d, s, i
  <2> QED
    BY <1>1, <1>2, <1>3, CodeGenRunsLast
<1>5. DOMAIN DefaultPhases \ {"CodeGen"} \subseteq Ran
  BY <1>4 DEF Ran
<1>6. "AST2BAST" \in DOMAIN DefaultPhases \ {"CodeGen"}
  BY DEF DefaultPhases
<1>7. PICK j \in 1..call.ran : d[s[j]].name = "AST2BAST"
  BY <1>4, <1>6
<1> QED
  BY <1>1, <1>5, <1>7

(* A phase that lets the loop go on, and is a default one, left no error.  *)
LEMMA RunPhaseKeeps ==
    ASSUME CompilerInvariant, NEW n \in 0..1, RunPhase(n)
    PROVE  CompilerInvariant'
<1>1. UNCHANGED <<plugins, pipeline, builders>> /\ call.stage = "running"
  BY DEF RunPhase
<1>2. CallOK
  BY <1>1 DEF CompilerInvariant, NoCall
<1>3. PICK success \in Succeeds(NextName, errorCount') :
         call' = [call EXCEPT !.ran = @ + 1, !.objects = @ \cup Outputs(NextName),
                              !.stage = NextStage(success)]
  BY DEF RunPhase
<1>4. call' = [stage |-> NextStage(success), builder |-> call.builder,
               collector |-> call.collector, phases |-> call.phases, order |-> call.order,
               ran |-> call.ran + 1, objects |-> call.objects \cup Outputs(NextName)]
  <2> DEFINE o == call.objects \cup Outputs(NextName)
             st == NextStage(success)
  <2>1. call' = [call EXCEPT !.ran = @ + 1, !.objects = o, !.stage = st]
    BY <1>3
  <2> HIDE DEF o, st
  <2>2. call' = [stage |-> st, builder |-> call.builder, collector |-> call.collector,
                 phases |-> call.phases, order |-> call.order, ran |-> call.ran + 1,
                 objects |-> o]
    BY <1>2, <2>1 DEF CallOK
  <2> QED
    BY <2>2 DEF o, st
<1>5. /\ call'.stage = NextStage(success) /\ call'.phases = call.phases
      /\ call'.order = call.order /\ call'.ran = call.ran + 1
      /\ call'.builder = call.builder /\ call'.objects = call.objects \cup Outputs(NextName)
      /\ call' = [stage |-> call'.stage, builder |-> call'.builder,
                  collector |-> call'.collector, phases |-> call'.phases,
                  order |-> call'.order, ran |-> call'.ran, objects |-> call'.objects]
  BY <1>4
<1>6. Len(call.order) \in Nat /\ call.ran \in Nat /\ call.ran < Len(call.order)
  BY <1>1, <1>2, OrdersRunSomething DEF CallOK
<1>7. call.ran + 1 \in 0..Len(call.order)
  BY <1>6
<1>8. NextStage(success) \in {"running", "collecting"}
  BY DEF NextStage
<1>9. ASSUME NextStage(success) = "running" PROVE success /\ call.ran + 1 < Len(call.order)
  BY <1>9 DEF NextStage
<1>10. ASSUME success, call.order[call.ran + 1] \in DOMAIN DefaultPhases
       PROVE  errorCount' = 0
  <2> DEFINE p == call.order[call.ran + 1]
  <2>1. call.phases[p] = DefaultPhases[p]
    BY <1>2, <1>10 DEF CallOK, KeepsDefaults
  <2>2. NextName \in DOMAIN DefaultPhases
    BY <1>10, <2>1, DefaultNames DEF NextName
  <2>3. success \in {errorCount' = 0}
    <3>1. NextName # "_StopAfter_" /\ NextName # "PrettyPrint"
      BY <2>2 DEF DefaultPhases
    <3>2. Succeeds(NextName, errorCount') = {errorCount' = 0}
      BY <2>2, <3>1, Zenon DEF Succeeds
    <3> QED
      BY <3>2, Zenon
  <2>4. success = (errorCount' = 0)
    BY <2>3, Zenon
  <2> QED
    BY <1>10, <2>4, Zenon
<1>11. KeepsDefaults(call'.phases) /\ NamedOnce(call'.phases) /\ call'.order \in ValidOrders(call'.phases)
  BY <1>2, <1>5 DEF CallOK
<1>12. errorCount' = Reported(n) /\ errorCount' \in Nat /\ (n > 0 => errorCount' > 0)
  BY ReportedCounts DEF RunPhase, CompilerInvariant
<1>13. /\ call'.builder \in 1..Len(builders') /\ builders'[call'.builder].valid
       /\ DefinesTwice' = DefinesTwice
  BY <1>1, <1>2, <1>5 DEF CallOK, DefinesTwice
<1>14. Ran' = Ran \cup {NextName}
  <2>1. \A i : i \in 1..(call.ran + 1) <=> i \in 1..call.ran \/ i = call.ran + 1
    BY <1>6
  <2> QED
    BY <1>5, <2>1 DEF Ran, NextName
<1>15. ASSUME call'.stage = "running", DefinesTwice PROVE "NameAnalysis" \notin Ran'
  <2>1. "NameAnalysis" \notin Ran
    BY <1>1, <1>2, <1>15 DEF CallOK
  <2>2. ASSUME NextName = "NameAnalysis" PROVE FALSE
    <3>1. n > 0
      BY <1>15, <2>2 DEF RunPhase
    <3>2. errorCount' # 0
      BY <1>12, <3>1
    <3>3. success \in {errorCount' = 0}
      <4>1. NextName \in DOMAIN DefaultPhases
        BY <2>2 DEF DefaultPhases
      <4>2. NextName # "_StopAfter_" /\ NextName # "PrettyPrint"
        BY <2>2
      <4>3. Succeeds(NextName, errorCount') = {errorCount' = 0}
        BY <4>1, <4>2, Zenon DEF Succeeds
      <4> QED
        BY <4>3, Zenon
    <3>4. ~ success
      BY <3>2, <3>3, Zenon
    <3> QED
      BY <1>5, <1>9, <1>15, <3>4
  <2> QED
    BY <1>14, <2>1, <2>2
<1>16. ASSUME "out" \in call'.objects
       PROVE  DOMAIN DefaultPhases \subseteq Ran' /\ ~ DefinesTwice
  <2>1. CASE "out" \in call.objects
    BY <1>2, <1>14, <2>1 DEF CallOK
  <2>2. CASE "out" \notin call.objects
    <3>1. NextName = "CodeGen"
      BY <1>5, <1>16, <2>2 DEF Outputs
    <3>2. DOMAIN DefaultPhases \ {"CodeGen"} \subseteq Ran
      BY <1>1, <1>2, <3>1, RanBeforeCodeGen
    <3>3. "NameAnalysis" \in Ran
      BY <3>2 DEF DefaultPhases
    <3>4. ~ DefinesTwice
      BY <1>1, <1>2, <3>3 DEF CallOK
    <3> QED
      BY <1>14, <3>1, <3>2, <3>4
  <2> QED
    BY <2>1, <2>2
<1>17. CallOK'
  <2>1. call'.ran \in 0..Len(call'.order)
    BY <1>5, <1>7
  <2>2. ASSUME call'.stage = "running"
        PROVE  /\ call'.ran < Len(call'.order)
               /\ call'.order[call'.ran] \in DOMAIN DefaultPhases => errorCount' = 0
    BY <1>5, <1>9, <1>10, <2>2
  <2> QED
    BY <1>5, <1>8, <1>11, <1>13, <1>15, <1>16, <2>1, <2>2 DEF CallOK
<1> QED
  BY <1>1, <1>12, <1>17 DEF CompilerInvariant

\* Every step keeps the invariant.
LEMMA NextInvariant == CompilerInvariant /\ [Next]_vars => CompilerInvariant'
<1> SUFFICES ASSUME CompilerInvariant, [Next]_vars PROVE CompilerInvariant'
  OBVIOUS
<1>1. ASSUME NEW p \in Plugin, LoadPlugin(p) PROVE CompilerInvariant'
  <2>1. UNCHANGED <<pipeline, errorCount, builders, call>> /\ call = NoCall
    BY <1>1 DEF LoadPlugin, Idle
  <2>2. plugins' \in Seq(Plugin)
    BY <1>1 DEF LoadPlugin, CompilerInvariant
  <2> QED
    BY <2>1, <2>2 DEF CompilerInvariant, NoCall
<1>2. ASSUME NEW p \in Plugin, UnloadPlugin(p) PROVE CompilerInvariant'
  <2>1. UNCHANGED <<pipeline, errorCount, builders, call>> /\ call = NoCall
    BY <1>2 DEF UnloadPlugin, Idle
  <2>2. plugins' \in Seq(Plugin)
    BY <1>2, RemoveFirstTyped DEF UnloadPlugin, CompilerInvariant
  <2> QED
    BY <2>1, <2>2 DEF CompilerInvariant, NoCall
<1>3. ASSUME NEW n \in 0..1, Parse(n) PROVE CompilerInvariant'
  <2>1. UNCHANGED <<plugins, pipeline, call>> /\ call = NoCall
    BY <1>3 DEF Parse, Idle
  <2>2. errorCount' \in Nat
    BY <1>3, ReportedCounts DEF Parse, CompilerInvariant
  <2>3. builders' \in Seq(Builder)
    <3> DEFINE new == [valid |-> errorCount' = 0, opened |-> [p \in Plugin |-> 0]]
    <3>1. builders' = Append(builders, new) \/ builders' = builders
      BY <1>3 DEF Parse
    <3>2. new \in Builder
      BY DEF Builder
    <3> HIDE DEF new
    <3> QED
      BY <3>1, <3>2 DEF CompilerInvariant
  <2> QED
    BY <2>1, <2>2, <2>3 DEF CompilerInvariant, NoCall
<1>4. ASSUME NEW p \in DOMAIN HostPhases, InsertPhase(p) PROVE CompilerInvariant'
  <2>1. UNCHANGED <<plugins, errorCount, builders, call>> /\ call = NoCall
    BY <1>4 DEF InsertPhase, Idle
  <2>2. IsFiniteSet({p}) /\ DOMAIN Restrict(HostPhases, {p}) = {p}
    BY FS_Singleton DEF Restrict
  <2>3. KeepsDefaults(Inserted(pipeline, Restrict(HostPhases, {p})))
    BY <2>2, InsertedKeeps DEF CompilerInvariant
  <2>4. KeepsDefaults(pipeline')
    BY <1>4, <2>3 DEF InsertPhase
  <2> QED
    BY <2>1, <2>4 DEF CompilerInvariant, NoCall
<1>5. ASSUME NEW h \in DOMAIN HostPhases, RemovePhase(HostPhases[h].name)
      PROVE  CompilerInvariant'
  <2>1. UNCHANGED <<plugins, errorCount, builders, call>> /\ call = NoCall
    BY <1>5 DEF RemovePhase, Idle
  <2>2. PICK p \in DOMAIN pipeline : /\ pipeline[p].name = HostPhases[h].name
                                     /\ pipeline' = Restrict(pipeline, DOMAIN pipeline \ {p})
    BY <1>5 DEF RemovePhase
  <2>3. p \notin DOMAIN DefaultPhases
    BY <2>2, PhasesAssumption, DefaultNames DEF CompilerInvariant, KeepsDefaults
  <2>4. /\ DOMAIN pipeline' = DOMAIN pipeline \ {p}
        /\ \A q \in DOMAIN pipeline' : pipeline'[q] = pipeline[q]
        /\ pipeline' = [q \in DOMAIN pipeline' |-> pipeline'[q]]
    BY <2>2 DEF Restrict
  <2>5. IsFiniteSet(DOMAIN pipeline \ {p})
    BY FS_RemoveElement DEF CompilerInvariant, KeepsDefaults
  <2>6. KeepsDefaults(pipeline')
    BY <2>3, <2>4, <2>5 DEF CompilerInvariant, KeepsDefaults
  <2> QED
    BY <2>1, <2>6 DEF CompilerInvariant, NoCall
<1>6. ASSUME NEW b \in 1..Len(builders), NEW collector \in {"bytecode", "errorCount"},
             Compile(b, collector)
      PROVE  CompilerInvariant'
  BY <1>6, CompileKeeps
<1>7. CASE CompileStep
  <2>1. ASSUME NEW n \in 0..1, RunPhase(n) PROVE CompilerInvariant'
    BY <2>1, RunPhaseKeeps
  <2>2. CASE MissingObject \/ FatalError \/ Collect
    <3>1. UNCHANGED <<plugins, pipeline, builders>> /\ call' = NoCall
      BY <2>2 DEF MissingObject, FatalError, Collect, Throw
    <3>2. errorCount' = errorCount \/ errorCount' = Reported(1)
      BY <2>2 DEF MissingObject, FatalError, Collect
    <3>3. errorCount' \in Nat
      BY <3>2, ReportedCounts DEF CompilerInvariant
    <3> QED
      BY <3>1, <3>3 DEF CompilerInvariant, NoCall
  <2> QED
    BY <1>7, <2>1, <2>2 DEF CompileStep
<1>8. CASE UNCHANGED vars
  BY <1>8 DEF vars, CompilerInvariant, CallOK, NoCall, Ran, DefinesTwice
<1> QED
  BY <1>1, <1>2, <1>3, <1>4, <1>5, <1>6, <1>7, <1>8 DEF Next
-----------------------------------------------------------------------------
(* The running call moves only by its own steps.                           *)
LEMMA OnlyCompileSteps ==
    ASSUME CompilerInvariant, [Next]_vars, Running
    PROVE  CallOK /\ (CompileStep \/ UNCHANGED vars)
<1>1. call # NoCall
  BY DEF Running, NoCall
<1>2. ~ Idle
  BY <1>1 DEF Idle
<1> QED
  BY <1>1, <1>2 DEF CompilerInvariant, Next, LoadPlugin, UnloadPlugin, Parse, InsertPhase,
                    RemovePhase, Compile

(* Whatever phases the host and the plugins insert, in whatever order the  *)
(* host calls, and whatever errors are reported: code comes out of CodeGen *)
(* only after every other default phase has run, and with no error counted *)
(* unless a foreign phase hid it.                                          *)
THEOREM CleanProgramOnly == Spec => CodeOnlyFromCleanProgram
<1> DEFINE Comes == Running /\ call'.stage # "idle" /\ "out" \in call'.objects \ call.objects
           Clean == /\ DOMAIN DefaultPhases \ {"CodeGen"} \subseteq Ran
                    /\ errorCount = 0 \/ call.order[call.ran] \notin DOMAIN DefaultPhases
<1>1. ASSUME CompilerInvariant, [Next]_vars, Comes PROVE Clean
  <2>1. CallOK /\ (CompileStep \/ UNCHANGED vars)
    BY <1>1, OnlyCompileSteps
  <2>2. ~ UNCHANGED vars
    BY <1>1 DEF vars
  <2>3. ~ (MissingObject \/ FatalError \/ Collect)
    <3>1. NoCall.stage = "idle"
      BY DEF NoCall
    <3>2. call' # NoCall
      BY <1>1, <3>1
    <3> QED
      BY <3>2 DEF MissingObject, FatalError, Collect, Throw
  <2>4. PICK n \in 0..1 : RunPhase(n)
    BY <2>1, <2>2, <2>3 DEF CompileStep
  <2>5. PICK success \in Succeeds(NextName, errorCount') :
           call' = [call EXCEPT !.ran = @ + 1, !.objects = @ \cup Outputs(NextName),
                                !.stage = NextStage(success)]
    BY <2>4 DEF RunPhase
  <2>6. call'.objects = call.objects \cup Outputs(NextName)
    <3> DEFINE o == call.objects \cup Outputs(NextName)
               st == NextStage(success)
    <3>1. call' = [call EXCEPT !.ran = @ + 1, !.objects = o, !.stage = st]
      BY <2>5
    <3> HIDE DEF o, st
    <3>2. call'.objects = o
      BY <2>1, <3>1 DEF CallOK
    <3> QED
      BY <3>2 DEF o
  <2>7. NextName = "CodeGen"
    BY <1>1, <2>6 DEF Outputs
  <2>8. DOMAIN DefaultPhases \ {"CodeGen"} \subseteq Ran /\ call.ran > 0
    BY <2>1, <2>4, <2>7, RanBeforeCodeGen DEF RunPhase
  <2>9. errorCount = 0 \/ call.order[call.ran] \notin DOMAIN DefaultPhases
    BY <2>1, <2>4, <2>8 DEF CallOK, RunPhase
  <2> QED
    BY <2>8, <2>9
<1>2. CompilerInvariant /\ [Next]_vars => [Comes => Clean]_vars
  BY <1>1
<1>3. Spec => [][Comes => Clean]_vars
  <2> HIDE DEF Comes, Clean
  <2> QED
    BY <1>2, InitInvariant, NextInvariant, PTL DEF Spec
<1> QED
  BY <1>3 DEF CodeOnlyFromCleanProgram

(* Whatever the host calls, in whatever order, and whatever plugins it     *)
(* loads, as often as it likes: code that gets into a collector is that of *)
(* a program parsed without an error, which went through every default     *)
(* phase and defines no name twice.                                        *)
THEOREM CollectorHoldsAnalysed == Spec => CollectedIsAnalysed
<1> DEFINE Comes == collected' # collected /\ collected' # 0
           Analysed == /\ builders[collected'].valid
                       /\ collected' = call.builder /\ ~ DefinesTwice
                       /\ DOMAIN DefaultPhases \subseteq Ran
<1>1. ASSUME CompilerInvariant, [Next]_vars, Comes PROVE Analysed
  <2>1. Collect
    BY <1>1 DEF Next, CompileStep, LoadPlugin, UnloadPlugin, Parse, InsertPhase, RemovePhase,
                Compile, RunPhase, MissingObject, FatalError, Throw, vars
  <2>2. Running
    BY <2>1 DEF Collect, Running
  <2>3. CallOK
    BY <1>1, <2>2, OnlyCompileSteps
  <2>4. collected' = call.builder /\ "out" \in call.objects
    BY <1>1, <2>1 DEF Collect, Held
  <2> QED
    BY <2>3, <2>4 DEF CallOK
<1>2. CompilerInvariant /\ [Next]_vars => [Comes => Analysed]_vars
  BY <1>1
<1>3. Spec => [][Comes => Analysed]_vars
  <2> HIDE DEF Comes, Analysed
  <2> QED
    BY <1>2, InitInvariant, NextInvariant, PTL DEF Spec
<1> QED
  BY <1>3 DEF CollectedIsAnalysed
=============================================================================
