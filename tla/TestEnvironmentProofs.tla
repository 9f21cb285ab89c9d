----------------------- MODULE TestEnvironmentProofs -----------------------
(***************************************************************************)
(* Proofs about the build and the test environment, for every set of       *)
(* contracts, every tree of suites and initializers that keep the          *)
(* conventions of SuitesAssumption, and any number of tests.               *)
(***************************************************************************)
EXTENDS TestEnvironment, WellFoundedInduction, SequenceTheorems, FiniteSetTheorems,
        TLAPS

(* The build. *)

gasAbi == addGasToAbiMethods(plainAbi)

Task == {"clean", "compile", "index:compile:all", "index:compile:one", "typechain"}

Command == [task : Task, skip : BOOLEAN, network : Networks \cup {"hardhat"}]

\* The command that a script ends with leaves factories of every artifact.
EndsWithTypes(commands) ==
    /\ Len(commands) > 0
    /\ commands[Len(commands)].task \in {"index:compile:one", "typechain"}

ProcessTypeOK ==
    /\ process \in [commands : Seq(Command),
                    stage : {"none", "completed", "failed", "start", "compile", "rewrite", "restore"},
                    todo : SUBSET (Contracts \cup External), compiled : SUBSET Contracts]
    /\ running => EndsWithTypes(process.commands)

\* What the two loops of TASK_TYPECHAIN_GENERATE_TYPES have done so far.
LoopsSound ==
    /\ external \in [External -> {plainAbi, gasAbi}]
    /\ process.stage = "rewrite" => \A f \in External \ process.todo : external[f] = gasAbi
    /\ process.stage = "restore" =>
        /\ \A f \in External : types[f] = gasAbi
        /\ \A f \in External \ process.todo : external[f] = plainAbi
        /\ current.task # "compile" => \A c \in Contracts : types[c] = artifacts[c]

BuildInv == ProcessTypeOK /\ LoopsSound /\ CompletedBuildIsConsistent

Abi == [function : BOOLEAN, event : BOOLEAN]

\* The two ABIs an external artifact alternates between.
LEMMA AbiFacts ==
    /\ gasAbi = [function |-> TRUE, event |-> FALSE]
    /\ addGasToAbiMethods(plainAbi) = gasAbi /\ addGasToAbiMethods(gasAbi) = gasAbi
    /\ removeGasFromAbiMethods(plainAbi) = plainAbi /\ removeGasFromAbiMethods(gasAbi) = plainAbi
<1>1. ASSUME NEW abi \in Abi, abi.event = FALSE
      PROVE  /\ addGasToAbiMethods(abi) = [function |-> TRUE, event |-> FALSE]
             /\ removeGasFromAbiMethods(abi) = [function |-> FALSE, event |-> FALSE]
  <2>. DEFINE added == addGasToAbiMethods(abi)
              removed == removeGasFromAbiMethods(abi)
  <2>1. /\ added \in Abi /\ added.function = TRUE /\ added.event = FALSE
        /\ removed \in Abi /\ removed.function = FALSE /\ removed.event = FALSE
    BY <1>1 DEF Abi, addGasToAbiMethods, removeGasFromAbiMethods
  <2>. HIDE DEF added, removed
  <2>2. /\ added = [function |-> TRUE, event |-> FALSE]
        /\ removed = [function |-> FALSE, event |-> FALSE]
    BY <2>1 DEF Abi
  <2>. QED  BY <2>2 DEF added, removed
<1>2. plainAbi \in Abi /\ plainAbi.event = FALSE
  BY DEF Abi, plainAbi
<1>3. gasAbi = [function |-> TRUE, event |-> FALSE]
  BY <1>1, <1>2 DEF gasAbi
<1>4. gasAbi \in Abi /\ gasAbi.event = FALSE
  BY <1>3 DEF Abi
<1>. QED  BY <1>1, <1>2, <1>3, <1>4 DEF plainAbi

\* The scripts of package.json and the commands run by hand end with types.
LEMMA ScriptsEndWithTypes ==
    ASSUME NEW script \in single \cup {build, buildNpmLatest}
    PROVE  script \in Seq(Command) /\ EndsWithTypes(script)
<1>1. ASSUME NEW task \in Task, NEW network \in Networks \cup {"hardhat"}
      PROVE  /\ byHand(task, network) \in Command /\ byHand(task, network).task = task
             /\ command(task, FALSE, network) = byHand(task, network)
             /\ command(task, TRUE, network) \in Command
  BY DEF command, Command, byHand
<1>2. CASE script \in single
  <2>1. PICK task \in {"index:compile:one", "typechain"}, network \in Networks :
             script = <<byHand(task, network)>>
    BY <1>2 DEF single
  <2>. DEFINE one == byHand(task, network)
  <2>2. one \in Command /\ one.task \in {"index:compile:one", "typechain"}
    BY <1>1 DEF Task
  <2>. HIDE DEF one
  <2>3. <<one>> \in Seq(Command) /\ Len(<<one>>) = 1 /\ <<one>>[1] = one
    BY <2>2
  <2>4. script = <<one>>
    BY <2>1 DEF one
  <2>. QED  BY <2>2, <2>3, <2>4 DEF EndsWithTypes
<1>3. ASSUME NEW a \in Command, NEW b \in Command, NEW c \in Command, NEW d \in Command,
             d.task = "typechain"
      PROVE  <<a, b, c, d>> \in Seq(Command) /\ EndsWithTypes(<<a, b, c, d>>)
  BY <1>3 DEF EndsWithTypes
<1>4. build \in Seq(Command) /\ EndsWithTypes(build)
  BY <1>1, <1>3 DEF build, Task
<1>5. buildNpmLatest \in Seq(Command) /\ EndsWithTypes(buildNpmLatest)
  BY <1>1, <1>3 DEF buildNpmLatest, Task
<1>. QED  BY <1>2, <1>4, <1>5

\* A script goes on with the rest of its commands, which ends the same way.
LEMMA NextCommandSound ==
    ASSUME ProcessTypeOK, running, nextCommand
    PROVE  /\ ProcessTypeOK'
           /\ process'.stage \in {"completed", "start"}
           /\ process'.stage = "completed" => current.task \in {"index:compile:one", "typechain"}
<1>. DEFINE cs == process.commands
<1>1. cs \in Seq(Command) /\ Len(cs) > 0
      /\ cs[Len(cs)].task \in {"index:compile:one", "typechain"}
  BY DEF ProcessTypeOK, EndsWithTypes
<1>. HIDE DEF cs
<1>2. CASE Len(cs) = 1
  <2>1. process' = idle("completed")
    BY <1>2 DEF nextCommand, cs
  <2>2. process' \in [commands : Seq(Command),
                    stage : {"none", "completed", "failed", "start", "compile", "rewrite", "restore"},
                    todo : SUBSET (Contracts \cup External), compiled : SUBSET Contracts]
        /\ process'.stage = "completed"
    BY <2>1 DEF idle
  <2>3. current = cs[1]
    BY <1>1 DEF current, cs
  <2>. QED  BY <1>1, <1>2, <2>2, <2>3 DEF ProcessTypeOK, running
<1>3. CASE Len(cs) # 1
  <2>. DEFINE rest == Tail(cs)
  <2>1. process' = [commands |-> rest, stage |-> "start", todo |-> {}, compiled |-> {}]
    BY <1>3 DEF nextCommand, cs
  <2>2. cs # <<>>
    BY <1>1
  <2>3. rest \in Seq(Command) /\ Len(rest) = Len(cs) - 1
        /\ \A i \in 1 .. Len(rest) : rest[i] = cs[i + 1]
    BY <1>1, <2>2, HeadTailProperties
  <2>. HIDE DEF rest
  <2>4. Len(rest) > 0 /\ rest[Len(rest)] = cs[Len(cs)]
    BY <1>1, <1>3, <2>3
  <2>5. process'.commands = rest /\ process'.stage = "start"
    BY <2>1
  <2>. QED  BY <1>1, <2>1, <2>3, <2>4, <2>5 DEF ProcessTypeOK, EndsWithTypes
<1>. QED  BY <1>2, <1>3

\* A script that fails leaves a process that does nothing.
LEMMA FailSound ==
    ASSUME fail
    PROVE  ProcessTypeOK' /\ process'.stage = "failed"
BY DEF fail, idle, ProcessTypeOK, running

\* Going to another part of the command, or on to its next file, keeps the commands.
LEMMA EnterSound ==
    ASSUME ProcessTypeOK, running, NEW stage \in {"compile", "rewrite", "restore"},
           NEW todo \in SUBSET (Contracts \cup External), enter(stage, todo)
    PROVE  ProcessTypeOK' /\ process'.stage = stage /\ process'.todo = todo
           /\ process'.commands = process.commands
BY DEF enter, ProcessTypeOK, running, EndsWithTypes

\* One file done: the process keeps its place in the script.
LEMMA FileDone ==
    ASSUME ProcessTypeOK, running, NEW x, NEW compiled \in SUBSET Contracts,
           process' = [process EXCEPT !.todo = @ \ {x}, !.compiled = compiled]
    PROVE  /\ ProcessTypeOK' /\ process'.stage = process.stage
           /\ process'.todo = process.todo \ {x} /\ process'.commands = process.commands
BY DEF ProcessTypeOK, running, EndsWithTypes

\* What a stage that works on the external artifacts does not look at.
LEMMA OtherStage ==
    ASSUME LoopsSound, UNCHANGED external, ProcessTypeOK',
           process'.stage \notin {"rewrite", "restore", "completed"}
    PROVE  LoopsSound' /\ CompletedBuildIsConsistent'
BY DEF LoopsSound, CompletedBuildIsConsistent

\* No step of a process breaks what the loops rely on, the death of the process included.
LEMMA BuildStep == BuildInv /\ [BuildNext]_buildVars => BuildInv'
<1>. SUFFICES ASSUME BuildInv, [BuildNext]_buildVars PROVE BuildInv'
  OBVIOUS
<1>0. ProcessTypeOK /\ LoopsSound /\ CompletedBuildIsConsistent
  BY DEF BuildInv
<1>1. ASSUME NEW script \in single \cup {build, buildNpmLatest}, StartScript(script)
      PROVE  BuildInv'
  <2>1. process' = [commands |-> script, stage |-> "start", todo |-> {}, compiled |-> {}]
        /\ UNCHANGED external
    BY <1>1 DEF StartScript
  <2>2. script \in Seq(Command) /\ EndsWithTypes(script)
    BY ScriptsEndWithTypes
  <2>3. process'.stage = "start" /\ process'.commands = script
    BY <2>1
  <2>4. ProcessTypeOK'
    BY <2>1, <2>2, <2>3 DEF ProcessTypeOK
  <2>. QED  BY <1>0, <2>1, <2>3, <2>4, OtherStage DEF BuildInv
<1>2. CASE Clean
  <2>1. running /\ nextCommand /\ UNCHANGED external /\ current.task = "clean"
    BY <1>2 DEF Clean, running
  <2>2. ProcessTypeOK' /\ process'.stage = "start"
    BY <1>0, <2>1, NextCommandSound
  <2>. QED  BY <1>0, <2>1, <2>2, OtherStage DEF BuildInv
<1>3. ASSUME NEW todo \in SUBSET Contracts, running, enter("compile", todo), UNCHANGED external
      PROVE  BuildInv'
  <2>1. ProcessTypeOK' /\ process'.stage = "compile"
    BY <1>0, <1>3, EnterSound
  <2>. QED  BY <1>0, <1>3, <2>1, OtherStage DEF BuildInv
<1>4. ASSUME fail, UNCHANGED external PROVE BuildInv'
  BY <1>0, <1>4, FailSound, OtherStage DEF BuildInv
<1>5. CASE StartCompile
  BY <1>3, <1>5 DEF StartCompile, running
<1>6. ASSUME NEW c \in Contracts, StartCompileOne(c) PROVE BuildInv'
  <2>1. CASE artifacts[c] = NoFile
    BY <1>4, <1>6, <2>1 DEF StartCompileOne
  <2>2. CASE artifacts[c] # NoFile
    BY <1>3, <1>6, <2>2 DEF StartCompileOne, running
  <2>. QED  BY <2>1, <2>2
<1>7. CASE StartCompileAll
  BY <1>3, <1>7 DEF StartCompileAll, running
<1>8. ASSUME running, enter("rewrite", External), UNCHANGED external PROVE BuildInv'
  <2>1. ProcessTypeOK' /\ process'.stage = "rewrite" /\ process'.todo = External
    BY <1>0, <1>8, EnterSound
  <2>. QED  BY <1>0, <1>8, <2>1 DEF BuildInv, LoopsSound, CompletedBuildIsConsistent
<1>9. CASE StartTypechain
  BY <1>8, <1>9 DEF StartTypechain, running
<1>10. ASSUME NEW c \in Contracts, EmitArtifact(c) PROVE BuildInv'
  <2>1. CASE ~current.skip /\ ~gasConfigured(current.network)
    BY <1>4, <1>10, <2>1 DEF EmitArtifact
  <2>2. CASE ~(~current.skip /\ ~gasConfigured(current.network))
    <3>1. process' = [process EXCEPT !.todo = @ \ {c}, !.compiled = process.compiled \cup {c}]
          /\ UNCHANGED external /\ process.stage = "compile"
      BY <1>10, <2>2 DEF EmitArtifact
    <3>2. running /\ process.compiled \cup {c} \in SUBSET Contracts
      BY <1>0, <3>1 DEF running, ProcessTypeOK
    <3>3. ProcessTypeOK' /\ process'.stage = "compile"
      BY <1>0, <3>1, <3>2, FileDone
    <3>. QED  BY <1>0, <3>1, <3>3, OtherStage DEF BuildInv
  <2>. QED  BY <2>1, <2>2
<1>11. CASE FinishCompile
  <2>1. running /\ UNCHANGED external
    BY <1>11 DEF FinishCompile, running
  <2>2. CASE current.task = "index:compile:all"
    <3>1. nextCommand
      BY <1>11, <2>2 DEF FinishCompile
    <3>2. ProcessTypeOK' /\ process'.stage = "start"
      BY <1>0, <2>1, <2>2, <3>1, NextCommandSound
    <3>. QED  BY <1>0, <2>1, <3>2, OtherStage DEF BuildInv
  <2>3. CASE current.task # "index:compile:all"
    BY <1>8, <1>11, <2>1, <2>3 DEF FinishCompile
  <2>. QED  BY <2>2, <2>3
<1>12. ASSUME NEW f \in External, RewriteArtifact(f) PROVE BuildInv'
  <2>1. CASE ~gasConfigured(current.network)
    BY <1>4, <1>12, <2>1 DEF RewriteArtifact
  <2>2. CASE gasConfigured(current.network)
    <3>1. /\ process.stage = "rewrite"
          /\ external' = [external EXCEPT ![f] = addGasToAbiMethods(external[f])]
          /\ process' = [process EXCEPT !.todo = @ \ {f}]
      BY <1>12, <2>2 DEF RewriteArtifact
    <3>2. /\ ProcessTypeOK' /\ process'.stage = "rewrite" /\ process'.todo = process.todo \ {f}
      BY <1>0, <3>1 DEF ProcessTypeOK, running, EndsWithTypes
    <3>3. external \in [External -> {plainAbi, gasAbi}]
          /\ \A g \in External \ process.todo : external[g] = gasAbi
      BY <1>0, <3>1 DEF LoopsSound
    <3>4. addGasToAbiMethods(external[f]) = gasAbi
      BY <3>3, AbiFacts
    <3>5. external' \in [External -> {plainAbi, gasAbi}]
          /\ \A g \in External \ process'.todo : external'[g] = gasAbi
      BY <3>1, <3>2, <3>3, <3>4
    <3>. QED  BY <3>2, <3>5 DEF BuildInv, LoopsSound, CompletedBuildIsConsistent
  <2>. QED  BY <2>1, <2>2
<1>13. CASE GenerateTypes
  <2>1. process.stage = "rewrite" /\ process.todo = {} /\ enter("restore", External)
        /\ UNCHANGED <<artifacts, external>>
    BY <1>13 DEF GenerateTypes
  <2>2. running
    BY <2>1 DEF running
  <2>3. ProcessTypeOK' /\ process'.stage = "restore" /\ process'.todo = External
        /\ process'.commands = process.commands
    BY <1>0, <2>1, <2>2, EnterSound
  <2>4. current' = current
    BY <2>3 DEF current
  <2>5. \A f \in External : types'[f] = external[f]
    BY <1>13 DEF GenerateTypes
  <2>6. current.task # "compile" => \A c \in Contracts : types'[c] = artifacts[c]
    BY <1>13, BuildAssumption DEF GenerateTypes
  <2>7. \A f \in External : external[f] = gasAbi
    BY <1>0, <2>1 DEF LoopsSound
  <2>8. external \in [External -> {plainAbi, gasAbi}]
    BY <1>0 DEF LoopsSound
  <2>9. LoopsSound'
    BY <2>1, <2>3, <2>4, <2>5, <2>6, <2>7, <2>8 DEF LoopsSound
  <2>. QED  BY <2>3, <2>9 DEF BuildInv, CompletedBuildIsConsistent
<1>14. ASSUME NEW f \in External, RestoreArtifact(f) PROVE BuildInv'
  <2>1. /\ process.stage = "restore"
        /\ external' = [external EXCEPT ![f] = removeGasFromAbiMethods(external[f])]
        /\ process' = [process EXCEPT !.todo = @ \ {f}]
        /\ UNCHANGED <<artifacts, types>>
    BY <1>14 DEF RestoreArtifact
  <2>2. /\ ProcessTypeOK' /\ process'.stage = "restore" /\ process'.todo = process.todo \ {f}
        /\ process'.commands = process.commands
    BY <1>0, <2>1 DEF ProcessTypeOK, running, EndsWithTypes
  <2>3. external \in [External -> {plainAbi, gasAbi}]
        /\ \A g \in External \ process.todo : external[g] = plainAbi
    BY <1>0, <2>1 DEF LoopsSound
  <2>4. removeGasFromAbiMethods(external[f]) = plainAbi
    BY <2>3, AbiFacts
  <2>5. external' \in [External -> {plainAbi, gasAbi}]
        /\ \A g \in External \ process'.todo : external'[g] = plainAbi
    BY <2>1, <2>2, <2>3, <2>4
  <2>6. current' = current
    BY <2>2 DEF current
  <2>7. /\ \A g \in External : types[g] = gasAbi
        /\ current.task # "compile" => \A c \in Contracts : types[c] = artifacts[c]
    BY <1>0, <2>1 DEF LoopsSound
  <2>. QED  BY <2>1, <2>2, <2>5, <2>6, <2>7 DEF BuildInv, LoopsSound, CompletedBuildIsConsistent
<1>15. CASE FinishTypes
  <2>1. process.stage = "restore" /\ process.todo = {} /\ nextCommand
        /\ UNCHANGED <<artifacts, external, types>>
    BY <1>15 DEF FinishTypes
  <2>2. running
    BY <2>1 DEF running
  <2>3. /\ ProcessTypeOK'
        /\ process'.stage \in {"completed", "start"}
        /\ process'.stage = "completed" => current.task \in {"index:compile:one", "typechain"}
    BY <1>0, <2>1, <2>2, NextCommandSound
  <2>4. /\ external \in [External -> {plainAbi, gasAbi}]
        /\ \A g \in External : types[g] = gasAbi /\ external[g] = plainAbi
        /\ current.task # "compile" => \A c \in Contracts : types[c] = artifacts[c]
    BY <1>0, <2>1 DEF LoopsSound
  <2>5. LoopsSound'
    BY <2>1, <2>3, <2>4 DEF LoopsSound
  <2>6. CompletedBuildIsConsistent'
    BY <2>1, <2>3, <2>4, AbiFacts DEF CompletedBuildIsConsistent
  <2>. QED  BY <2>3, <2>5, <2>6 DEF BuildInv
<1>16. CASE Crash
  BY <1>4, <1>16 DEF Crash
<1>17. CASE UNCHANGED buildVars
  BY <1>0, <1>17 DEF buildVars, BuildInv, ProcessTypeOK, LoopsSound, CompletedBuildIsConsistent,
                     running, current
<1>. QED  BY <1>1, <1>2, <1>5, <1>6, <1>7, <1>9, <1>10, <1>11, <1>12, <1>13, <1>14, <1>15,
             <1>16, <1>17 DEF BuildNext

\* tasks/subtasks.ts: whatever scripts have run and died before, for any contracts, external
\* artifacts and networks, a script that completes leaves no gas in an external artifact, gas
\* in every factory made from one, and factories that agree with the compiled artifacts.
THEOREM CompletedBuildsConsistent == Spec => []CompletedBuildIsConsistent
<1>1. Init => BuildInv
  BY DEF Init, BuildInit, idle, BuildInv, ProcessTypeOK, LoopsSound, running,
         CompletedBuildIsConsistent
<1>2. BuildInv /\ [Next]_vars => BuildInv'
  <2>1. [Next]_vars => [BuildNext]_buildVars
    BY DEF Next, vars, buildVars
  <2>. QED  BY <2>1, BuildStep
<1>3. BuildInv => CompletedBuildIsConsistent
  BY DEF BuildInv
<1>. QED  BY <1>1, <1>2, <1>3, PTL DEF Spec
-----------------------------------------------------------------------------
(* Induction over numbers, and over suites. *)

\* A set of numbers has a least one.
LEMMA LeastNumber ==
    ASSUME NEW T \in SUBSET Nat, T # {}
    PROVE  \E n \in T : \A m \in T : n <= m
<1>. DEFINE Less == {pair \in Nat \X Nat : pair[1] < pair[2]}
<1>1. OpToRel(<, Nat) = Less
  BY DEF OpToRel
<1>2. IsWellFoundedOn(Less, Nat)
  BY <1>1, NatLessThanWellFounded, Zenon
<1>3. \E x \in T : \A y \in T : ~(<<y, x>> \in Less)
  BY <1>2, WFMin, Zenon
<1>4. PICK x \in T : \A y \in T : ~(<<y, x>> \in Less)
  BY <1>3
<1>5. ASSUME NEW y \in T PROVE x <= y
  <2>1. x \in Nat /\ y \in Nat /\ ~(<<y, x>> \in Less)
    BY <1>4
  <2>2. ~(y < x)
    BY <2>1
  <2>. QED  BY <2>1, <2>2
<1>. QED  BY <1>5

\* A set that has 0 and the successor of every number it has has them all.
LEMMA NumberInduction ==
    ASSUME NEW T, 0 \in T, \A n \in Nat : n \in T => n + 1 \in T
    PROVE  Nat \subseteq T
<1>. SUFFICES ASSUME Nat \ T # {} PROVE FALSE
  OBVIOUS
<1>1. PICK n \in Nat \ T : \A m \in Nat \ T : n <= m
  BY LeastNumber
<1>2. n # 0 /\ n - 1 \in Nat
  BY <1>1
<1>. QED  BY <1>1, <1>2

\* Every suite has one place in the tree.
LEMMA ParentFacts ==
    ASSUME NEW s \in Suites
    PROVE  /\ Parent(s) \in Suites \cup {Root}
           /\ s \in Range(Children[Parent(s)])
           /\ \A p \in Suites \cup {Root} : s \in Range(Children[p]) => p = Parent(s)
<1>1. \E p \in Suites \cup {Root} : s \in Range(Children[p])
  BY NestingAssumption
<1>2. Parent(s) \in Suites \cup {Root} /\ s \in Range(Children[Parent(s)])
  BY <1>1 DEF Parent
<1>3. ASSUME NEW p \in Suites \cup {Root}, s \in Range(Children[p]), p # Parent(s) PROVE FALSE
  <2>1. Range(Children[p]) \cap Range(Children[Parent(s)]) = {}
    BY <1>2, <1>3, NestingAssumption
  <2>. QED  BY <1>2, <1>3, <2>1
<1>. QED  BY <1>2, <1>3

\* A set of suites that has a suite whenever it has the one around it has them all.
LEMMA SuiteInduction ==
    ASSUME NEW T, \A s \in Suites : (Parent(s) \in T \cup {Root}) => s \in T
    PROVE  Suites \subseteq T
<1>. SUFFICES ASSUME Suites \ T # {} PROVE FALSE
  OBVIOUS
<1>1. PICK s \in Suites \ T : Parent(s) \notin Suites \ T
  BY NestingAssumption
<1>. QED  BY <1>1, ParentFacts

\* The recursive definition of path defines a function: the suites around a suite are found by
\* going outwards, which ends.
LEMMA PathExists ==
    \E g : g = [s \in Suites |-> IF Parent(s) = Root THEN <<s>> ELSE Append(g[Parent(s)], s)]
<1>. DEFINE Body(g, s) == IF Parent(s) = Root THEN <<s>> ELSE Append(g[Parent(s)], s)
            Closed(U) == U \subseteq Suites /\ \A s \in U : Parent(s) \in U \cup {Root}
            Defines(g, U) == g = [s \in U |-> Body(g, s)]
            Good == {U \in SUBSET Suites : Closed(U) /\ \E g : Defines(g, U)}
            W == UNION Good
            G == [s \in W |-> CHOOSE r : \E U \in Good : \E g : Defines(g, U) /\ s \in U /\ r = g[s]]
<1>1. ASSUME NEW U \in Good, NEW V \in Good, NEW g, NEW h, Defines(g, U), Defines(h, V)
      PROVE  \A s \in U \cap V : g[s] = h[s]
  <2>. DEFINE T == {s \in Suites : s \in U \cap V => g[s] = h[s]}
  <2>1. ASSUME NEW s \in Suites, Parent(s) \in T \cup {Root} PROVE s \in T
    <3>1. CASE s \in U \cap V
      <4>1. g[s] = Body(g, s) /\ h[s] = Body(h, s)
        BY <1>1, <3>1
      <4>2. Parent(s) # Root => Parent(s) \in U \cap V /\ Parent(s) \in T
        BY <2>1, <3>1
      <4>3. Body(g, s) = Body(h, s)
        BY <4>2
      <4>. QED  BY <4>1, <4>3
    <3>. QED  BY <3>1
  <2>. HIDE DEF T
  <2>2. Suites \subseteq T
    BY <2>1, SuiteInduction
  <2>. QED  BY <2>2 DEF T
<1>2. ASSUME NEW U \in Good, NEW g, Defines(g, U) PROVE \A s \in U : G[s] = g[s]
  <2>. SUFFICES ASSUME NEW s \in U PROVE G[s] = g[s]
    OBVIOUS
  <2>. DEFINE Q(r) == \E V \in Good : \E h : Defines(h, V) /\ s \in V /\ r = h[s]
  <2>1. Q(g[s])
    BY <1>2
  <2>2. ASSUME NEW r, Q(r) PROVE r = g[s]
    <3>1. PICK V \in Good : \E h : Defines(h, V) /\ s \in V /\ r = h[s]
      BY <2>2
    <3>2. PICK h : Defines(h, V) /\ s \in V /\ r = h[s]
      BY <3>1
    <3>. HIDE DEF Good, Defines
    <3>3. \A t \in U \cap V : g[t] = h[t]
      BY <1>1, <1>2, <3>2
    <3>. QED  BY <3>2, <3>3
  <2>3. s \in W
    OBVIOUS
  <2>4. G[s] = CHOOSE r : Q(r)
    BY <2>3
  <2>. HIDE DEF Q
  <2>5. Q(CHOOSE r : Q(r))
    BY <2>1
  <2>. QED  BY <2>2, <2>4, <2>5
<1>3. Closed(W)
  OBVIOUS
<1>4. Defines(G, W)
  <2>1. ASSUME NEW s \in W PROVE G[s] = Body(G, s)
    <3>1. PICK U \in Good : s \in U
      OBVIOUS
    <3>2. PICK g : Defines(g, U)
      BY <3>1
    <3>3. \A t \in U : G[t] = g[t]
      <4>. HIDE DEF Good, Defines, G
      <4>. QED  BY <1>2, <3>2
    <3>4. g[s] = Body(g, s)
      BY <3>1, <3>2
    <3>5. Parent(s) # Root => Parent(s) \in U
      BY <3>1
    <3>. HIDE DEF Good, Defines, G
    <3>6. Body(g, s) = Body(G, s)
      BY <3>3, <3>5
    <3>. QED  BY <3>1, <3>3, <3>4, <3>6
  <2>2. G = [s \in W |-> G[s]]
    OBVIOUS
  <2>. HIDE DEF G, W
  <2>3. [s \in W |-> G[s]] = [s \in W |-> Body(G, s)]
    BY <2>1
  <2>. QED  BY <2>2, <2>3
<1>. HIDE DEF W, G
<1>5. ASSUME NEW s \in Suites, Parent(s) \in W \cup {Root} PROVE s \in W
  <2>. DEFINE U == W \cup {s}
              g == [t \in U |-> IF t \in W THEN G[t] ELSE Body(G, s)]
  <2>1. CASE s \notin W
    <3>1. Parent(s) # s
      BY <1>5, <2>1, NestingAssumption
    <3>2. Closed(U)
      BY <1>3, <1>5
    <3>3. ASSUME NEW t \in U PROVE g[t] = Body(g, t)
      <4>1. Parent(t) # Root => Parent(t) \in W
        BY <1>3, <1>5, <3>3
      <4>2. Parent(t) # Root => g[Parent(t)] = G[Parent(t)]
        BY <4>1
      <4>3. Body(g, t) = Body(G, t)
        BY <4>2
      <4>4. CASE t \in W
        <5>1. G[t] = Body(G, t)
          BY <1>4, <4>4
        <5>. QED  BY <4>3, <4>4, <5>1
      <4>5. CASE t \notin W
        BY <2>1, <3>3, <4>3, <4>5
      <4>. QED  BY <4>4, <4>5
    <3>4. Defines(g, U)
      <4>1. g = [t \in U |-> g[t]]
        OBVIOUS
      <4>. HIDE DEF g
      <4>2. [t \in U |-> g[t]] = [t \in U |-> Body(g, t)]
        BY <3>3
      <4>. QED  BY <4>1, <4>2
    <3>. HIDE DEF g, Defines
    <3>5. U \in Good
      BY <3>2, <3>4
    <3>. QED  BY <3>5 DEF W
  <2>. QED  BY <2>1
<1>6. Suites \subseteq W
  BY <1>5, SuiteInduction
<1>7. W = Suites
  BY <1>3, <1>6
<1>. QED  BY <1>4, <1>7

\* path unfolds as it is defined.
LEMMA PathUnfolds ==
    path = [s \in Suites |-> IF Parent(s) = Root THEN <<s>> ELSE Append(path[Parent(s)], s)]
BY PathExists DEF path

\* The suites around s and s itself, none for the root.
around(s) == IF s = Root THEN <<>> ELSE path[s]

\* What the path of a suite looks like.
PathOK(s) ==
    /\ path[s] \in Seq(Suites) /\ Len(path[s]) > 0 /\ path[s][Len(path[s])] = s
    /\ Parent(path[s][1]) = Root
    /\ \A i \in 1 .. Len(path[s]) :
        /\ Len(path[path[s][i]]) = i
        /\ \A j \in 1 .. i : path[path[s][i]][j] = path[s][j]

\* The path of a block at the top of a file is the block.
LEMMA PathOfOutermost ==
    ASSUME NEW s \in Suites, Parent(s) = Root
    PROVE  PathOK(s)
<1>. DEFINE p == path[s]
<1>1. p = <<s>>
  BY PathUnfolds
<1>2. p \in Seq(Suites) /\ Len(p) = 1 /\ p[1] = s
  BY <1>1
<1>. HIDE DEF p
<1>3. \A i \in 1 .. Len(p) : path[p[i]] = p /\ i = 1
  BY <1>2 DEF p
<1>. QED  BY <1>2, <1>3 DEF PathOK, p

\* The path of a suite goes on where the path of the one around it ends.
LEMMA PathOfInner ==
    ASSUME NEW s \in Suites, Parent(s) \in Suites, PathOK(Parent(s))
    PROVE  /\ PathOK(s)
           /\ Len(path[s]) = Len(path[Parent(s)]) + 1
           /\ \A i \in 1 .. Len(path[Parent(s)]) : path[s][i] = path[Parent(s)][i]
<1>. DEFINE p == path[Parent(s)]
            q == path[s]
            n == Len(p)
<1>1. Parent(s) # Root
  BY NestingAssumption
<1>2. q = Append(p, s)
  BY <1>1, PathUnfolds
<1>3. p \in Seq(Suites) /\ n > 0 /\ n \in Nat
  BY DEF PathOK
<1>4. /\ Parent(p[1]) = Root
      /\ \A i \in 1 .. n : Len(path[p[i]]) = i /\ \A j \in 1 .. i : path[p[i]][j] = p[j]
  BY DEF PathOK
<1>. HIDE DEF p, n
<1>5. q \in Seq(Suites) /\ Len(q) = n + 1 /\ q[n + 1] = s /\ \A i \in 1 .. n : q[i] = p[i]
  BY <1>2, <1>3 DEF n
<1>6. ASSUME NEW i \in 1 .. (n + 1)
      PROVE  Len(path[q[i]]) = i /\ \A j \in 1 .. i : path[q[i]][j] = q[j]
  <2>1. CASE i = n + 1
    BY <1>5, <2>1
  <2>2. CASE i # n + 1
    <3>1. i \in 1 .. n /\ q[i] = p[i]
      BY <1>3, <1>5, <2>2
    <3>2. \A j \in 1 .. i : q[j] = p[j]
      BY <1>3, <1>5, <3>1
    <3>. QED  BY <1>4, <3>1, <3>2
  <2>. QED  BY <2>1, <2>2
<1>7. q[1] = p[1]
  BY <1>3, <1>5
<1>. HIDE DEF q
<1>8. /\ q \in Seq(Suites) /\ Len(q) > 0 /\ q[Len(q)] = s /\ Parent(q[1]) = Root
      /\ \A i \in 1 .. Len(q) : Len(path[q[i]]) = i /\ \A j \in 1 .. i : path[q[i]][j] = q[j]
  BY <1>3, <1>4, <1>5, <1>6, <1>7
<1>. QED  BY <1>5, <1>8 DEF PathOK, p, q, n

\* Every path starts at the top of a file, and the paths of the suites on it are its prefixes.
LEMMA PathFacts == \A s \in Suites : PathOK(s)
<1>. DEFINE T == {s \in Suites : PathOK(s)}
<1>1. ASSUME NEW s \in Suites, Parent(s) \in T \cup {Root} PROVE s \in T
  BY <1>1, PathOfOutermost, PathOfInner
<1>. HIDE DEF T
<1>2. Suites \subseteq T
  BY <1>1, SuiteInduction
<1>. QED  BY <1>2 DEF T

\* Entering a suite adds it to the suites around, leaving it takes it away.
LEMMA AroundStep ==
    ASSUME NEW s \in Suites
    PROVE  /\ Parent(s) \in Suites \cup {Root}
           /\ around(Parent(s)) \in Seq(Suites) /\ around(s) \in Seq(Suites)
           /\ Len(around(s)) = Len(around(Parent(s))) + 1
           /\ around(s)[Len(around(s))] = s
           /\ \A i \in 1 .. Len(around(Parent(s))) : around(s)[i] = around(Parent(s))[i]
<1>1. s # Root
  BY NestingAssumption
<1>2. CASE Parent(s) = Root
  <2>1. path[s] = <<s>>
    BY <1>2, PathUnfolds
  <2>. QED  BY <1>1, <1>2, <2>1 DEF around
<1>3. CASE Parent(s) # Root
  <2>1. Parent(s) \in Suites
    BY <1>3, ParentFacts
  <2>2. PathOK(s) /\ PathOK(Parent(s))
    BY <2>1, PathFacts
  <2>3. /\ Len(path[s]) = Len(path[Parent(s)]) + 1
        /\ \A i \in 1 .. Len(path[Parent(s)]) : path[s][i] = path[Parent(s)][i]
    BY <2>1, <2>2, PathOfInner
  <2>. QED  BY <1>1, <1>3, <2>1, <2>2, <2>3 DEF around, PathOK
<1>. QED  BY <1>2, <1>3

\* No suite is around itself.
LEMMA AroundDistinct ==
    ASSUME NEW s \in Suites \cup {Root}
    PROVE  /\ around(s) \in Seq(Suites)
           /\ \A i, j \in 1 .. Len(around(s)) : around(s)[i] = around(s)[j] => i = j
<1>1. CASE s = Root
  BY <1>1 DEF around
<1>2. CASE s # Root
  <2>. DEFINE p == path[s]
  <2>1. p \in Seq(Suites) /\ \A i \in 1 .. Len(p) : Len(path[p[i]]) = i
    BY <1>2, PathFacts DEF PathOK
  <2>2. around(s) = p
    BY <1>2 DEF around
  <2>. HIDE DEF p
  <2>. QED  BY <2>1, <2>2
<1>. QED  BY <1>1, <1>2
-----------------------------------------------------------------------------
(* The stack of snapshots. *)

\* A node, whatever is on its chain.
IsNode(n) ==
    /\ n \in [chain : {n.chain}, snapshots : {n.snapshots}, nextId : Nat \ {0}]
    /\ DOMAIN n.snapshots \subseteq 1 .. (n.nextId - 1)

\* The suites the runner is in, outermost first.
inside == around(mocha.suite)

MochaTypeOK ==
    mocha \in [suite : Suites \cup {Root}, stage : {"suite", "beforeEach", "test", "afterEach"},
               hook : Nat, failed : Suites \cup {NoSuite}, left : SUBSET Suites, ran : [Suites -> Nat]]

\* Where the runner can be.
RunnerSound ==
    /\ mocha.suite = Root => mocha.stage = "suite"
    /\ mocha.stage = "beforeEach" => mocha.hook \in 1 .. Len(inside)
    /\ \A i \in 1 .. Len(inside) : inside[i] \notin mocha.left
    /\ mocha.failed # NoSuite =>
        /\ mocha.stage \in {"suite", "afterEach"}
        /\ \E i \in 1 .. Len(inside) : mocha.failed = inside[i]

\* The suites that have a snapshot on the stack.
pushed == {s \in Suites : initialized[s] /\ s \notin mocha.left}

\* The stack has a snapshot for each of the outermost suites, and the hooks that have run for
\* the current test have theirs.
StackMatches ==
    /\ SNAPSHOTS \in Seq(Nat) /\ initialized \in [Suites -> BOOLEAN]
    /\ Len(SNAPSHOTS) <= Len(inside)
    /\ pushed = {inside[i] : i \in 1 .. Len(SNAPSHOTS)}
    /\ \A i \in 1 .. Len(SNAPSHOTS) : Style[inside[i]] = "cache"
    /\ mocha.stage = "beforeEach" =>
        \A i \in 1 .. (mocha.hook - 1) : Style[inside[i]] = "cache" => i <= Len(SNAPSHOTS)

\* The node knows the snapshots of the stack, taken in their order.
StackKnown ==
    /\ IsNode(node)
    /\ \A i \in 1 .. Len(SNAPSHOTS) : SNAPSHOTS[i] \in DOMAIN node.snapshots
    /\ \A i, j \in 1 .. Len(SNAPSHOTS) : i < j => SNAPSHOTS[i] < SNAPSHOTS[j]

StackInv == MochaTypeOK /\ RunnerSound /\ StackMatches /\ StackKnown

(* The node. *)

\* A transaction changes the chain and nothing else of the node.
SameSnapshots(m, n) == IsNode(m) /\ m.snapshots = n.snapshots /\ m.nextId = n.nextId

\* A step that sets only fields of the chain keeps the snapshots.
LEMMA ChainOnly ==
    ASSUME NEW n, IsNode(n), NEW chain
    PROVE  /\ SameSnapshots([n EXCEPT !.chain = chain], n)
           /\ [n EXCEPT !.chain = chain].chain = chain
<1>. DEFINE m == [n EXCEPT !.chain = chain]
<1>1. n \in [chain : {n.chain}, snapshots : {n.snapshots}, nextId : Nat \ {0}]
      /\ DOMAIN n.snapshots \subseteq 1 .. (n.nextId - 1)
  BY DEF IsNode
<1>2. m.chain = chain /\ m.snapshots = n.snapshots /\ m.nextId = n.nextId
  BY <1>1
<1>3. m \in [chain : {chain}, snapshots : {n.snapshots}, nextId : Nat \ {0}]
  BY <1>1
<1>. HIDE DEF m
<1>4. SameSnapshots(m, n) /\ m.chain = chain
  BY <1>1, <1>2, <1>3 DEF SameSnapshots, IsNode
<1>. QED  BY <1>4 DEF m

\* Deploying, mining and moving the clock are such steps.
LEMMA TransactionsKeepSnapshots ==
    ASSUME NEW n, IsNode(n), NEW c, NEW logs, NEW t
    PROVE  /\ SameSnapshots(evm_deploy(n, c, logs), n)
           /\ SameSnapshots(evm_mine(n, t), n)
           /\ SameSnapshots(evm_increaseTime(n, t), n)
           /\ SameSnapshots(evm_setNextBlockTimestamp(n, t), n)
<1>. USE DEF SameSnapshots
<1>1. ASSUME NEW m, IsNode(m), NEW ch PROVE SameSnapshots([m EXCEPT !.chain = ch], m)
  BY <1>1, ChainOnly
<1>2. SameSnapshots(evm_deploy(n, c, logs), n)
  <2>. DEFINE a == [n EXCEPT !.chain = [n.chain EXCEPT !.contracts = Append(n.chain.contracts, c)]]
              b == [a EXCEPT !.chain = [a.chain EXCEPT !.blocks = a.chain.blocks + 1]]
              d == [b EXCEPT !.chain = [b.chain EXCEPT !.logs = logs]]
  <2>1. evm_deploy(n, c, logs) = d
    BY DEF evm_deploy
  <2>. HIDE DEF d
  <2>2. SameSnapshots(a, n)
    BY <1>1
  <2>. HIDE DEF a
  <2>3. SameSnapshots(b, a)
    BY <1>1, <2>2
  <2>. HIDE DEF b
  <2>4. SameSnapshots(d, b)
    BY <1>1, <2>3 DEF d
  <2>. QED  BY <2>1, <2>2, <2>3, <2>4
<1>3. SameSnapshots(evm_mine(n, t), n)
  <2>. DEFINE a == [n EXCEPT !.chain = [n.chain EXCEPT !.blocks = n.chain.blocks + t]]
              b == [a EXCEPT !.chain = [a.chain EXCEPT !.logs = <<>>]]
  <2>1. evm_mine(n, t) = b
    BY DEF evm_mine
  <2>. HIDE DEF b
  <2>2. SameSnapshots(a, n)
    BY <1>1
  <2>. HIDE DEF a
  <2>3. SameSnapshots(b, a)
    BY <1>1, <2>2 DEF b
  <2>. QED  BY <2>1, <2>2, <2>3
<1>4. SameSnapshots(evm_increaseTime(n, t), n)
  BY <1>1 DEF evm_increaseTime
<1>5. SameSnapshots(evm_setNextBlockTimestamp(n, t), n)
  BY <1>1 DEF evm_setNextBlockTimestamp
<1>. QED  BY <1>2, <1>3, <1>4, <1>5

\* So is a hook that sends transactions, or none.
LEMMA SentKeepsSnapshots ==
    ASSUME NEW n, IsNode(n), NEW b
    PROVE  SameSnapshots(sent(n, b), n)
<1>1. SameSnapshots(evm_mine(n, 1), n) /\ SameSnapshots(n, n)
  BY TransactionsKeepSnapshots DEF SameSnapshots
<1>. QED  BY <1>1 DEF sent

\* evm_snapshot adds a snapshot of the chain under a number not used before.
LEMMA SnapshotTaken ==
    ASSUME NEW n, IsNode(n)
    PROVE  /\ IsNode(evm_snapshot(n)) /\ evm_snapshot(n).chain = n.chain
           /\ evm_snapshot(n).nextId = n.nextId + 1
           /\ DOMAIN evm_snapshot(n).snapshots = DOMAIN n.snapshots \cup {n.nextId}
           /\ evm_snapshot(n).snapshots[n.nextId] = n.chain
           /\ \A i \in DOMAIN n.snapshots : i < n.nextId /\ evm_snapshot(n).snapshots[i] = n.snapshots[i]
<1>. DEFINE shots == put(n.snapshots, n.nextId, n.chain)
            next == n.nextId + 1
            m == [n EXCEPT !.snapshots = shots, !.nextId = next]
<1>1. n \in [chain : {n.chain}, snapshots : {n.snapshots}, nextId : Nat \ {0}]
      /\ DOMAIN n.snapshots \subseteq 1 .. (n.nextId - 1)
  BY DEF IsNode
<1>2. /\ DOMAIN shots = DOMAIN n.snapshots \cup {n.nextId}
      /\ shots[n.nextId] = n.chain
      /\ \A i \in DOMAIN n.snapshots : i < n.nextId /\ shots[i] = n.snapshots[i]
  BY <1>1 DEF put
<1>3. evm_snapshot(n) = m
  BY DEF evm_snapshot
<1>a. next \in Nat \ {0} /\ next - 1 = n.nextId
  BY <1>1
<1>. HIDE DEF shots, next
<1>4. m.chain = n.chain /\ m.snapshots = shots /\ m.nextId = next
  BY <1>1
<1>5. m \in [chain : {n.chain}, snapshots : {shots}, nextId : Nat \ {0}]
  BY <1>1, <1>a
<1>. HIDE DEF m
<1>6. DOMAIN m.snapshots \subseteq 1 .. (m.nextId - 1)
  <2>1. n.nextId \in Nat \ {0} /\ \A i \in DOMAIN n.snapshots : i \in 1 .. (n.nextId - 1)
    BY <1>1
  <2>2. \A i \in DOMAIN n.snapshots : i \in 1 .. n.nextId
    BY <2>1
  <2>. QED  BY <1>2, <1>4, <1>a, <2>1, <2>2
<1>. QED  BY <1>2, <1>3, <1>4, <1>5, <1>6 DEF IsNode, next

\* evm_revert goes back to a snapshot and forgets it and the later ones.
LEMMA Reverted ==
    ASSUME NEW n, IsNode(n), NEW id \in DOMAIN n.snapshots
    PROVE  /\ IsNode(evm_revert(n, id)) /\ evm_revert(n, id).chain = n.snapshots[id]
           /\ evm_revert(n, id).nextId = n.nextId
           /\ DOMAIN evm_revert(n, id).snapshots = {i \in DOMAIN n.snapshots : i < id}
           /\ \A i \in DOMAIN n.snapshots :
                 i < id => evm_revert(n, id).snapshots[i] = n.snapshots[i]
<1>. DEFINE chain == n.snapshots[id]
            shots == [i \in {j \in DOMAIN n.snapshots : j < id} |-> n.snapshots[i]]
            m == [n EXCEPT !.chain = chain, !.snapshots = shots]
<1>1. n \in [chain : {n.chain}, snapshots : {n.snapshots}, nextId : Nat \ {0}]
      /\ DOMAIN n.snapshots \subseteq 1 .. (n.nextId - 1)
  BY DEF IsNode
<1>2. /\ DOMAIN shots = {i \in DOMAIN n.snapshots : i < id}
      /\ \A i \in DOMAIN n.snapshots : i < id => shots[i] = n.snapshots[i]
  OBVIOUS
<1>3. evm_revert(n, id) = m
  <2>1. evm_revert(n, id) =
            [n EXCEPT !.chain = n.snapshots[id],
                      !.snapshots = [i \in {j \in DOMAIN n.snapshots : j < id} |-> n.snapshots[i]]]
    <3>1. [n EXCEPT !.chain = n.snapshots[id]].snapshots = n.snapshots
      BY <1>1
    <3>. QED  BY <3>1 DEF evm_revert
  <2>. QED  BY <2>1
<1>. HIDE DEF chain, shots
<1>4. m.chain = chain /\ m.snapshots = shots /\ m.nextId = n.nextId
  BY <1>1
<1>5. m \in [chain : {chain}, snapshots : {shots}, nextId : Nat \ {0}]
  BY <1>1
<1>. HIDE DEF m
<1>6. DOMAIN m.snapshots \subseteq 1 .. (m.nextId - 1)
  BY <1>1, <1>2, <1>4
<1>. QED  BY <1>2, <1>3, <1>4, <1>5, <1>6 DEF IsNode, chain

\* A revert to a snapshot the node does not know only answers false.
LEMMA RevertIgnored ==
    ASSUME NEW n, NEW id, id \notin DOMAIN n.snapshots
    PROVE  evm_revert(n, id) = n
BY DEF evm_revert

(* The initializers. *)

\* The states an initializer reaches, one step after the other.
StepByStep(held, s, plan, start) ==
    LET reached == steps(held, s, plan, start)
    IN  /\ reached[0] = {start}
        /\ \A n \in 1 .. Len(plan) :
            reached[n] = UNION {step(held, s, state, plan[n]) : state \in reached[n - 1]}

\* The recursive definition of steps defines a function.
LEMMA StepsUnfold ==
    ASSUME NEW held, NEW s, NEW plan \in Seq(Step), NEW start
    PROVE  StepByStep(held, s, plan, start)
<1>. DEFINE After(states, n) == UNION {step(held, s, state, plan[n]) : state \in states}
            Body(g, n) == IF n = 0 THEN {start} ELSE After(g[n - 1], n)
            T == {k \in Nat : \E g : g = [n \in 0 .. k |-> Body(g, n)]}
<1>. HIDE DEF After
<1>1. 0 \in T
  <2>. DEFINE g == [n \in 0 .. 0 |-> {start}]
  <2>1. \A n \in 0 .. 0 : g[n] = Body(g, n)
    OBVIOUS
  <2>2. g = [n \in 0 .. 0 |-> Body(g, n)]
    OBVIOUS
  <2>. QED  BY <2>2
<1>2. ASSUME NEW k \in Nat, k \in T PROVE k + 1 \in T
  <2>1. PICK g : g = [n \in 0 .. k |-> Body(g, n)]
    BY <1>2
  <2>. DEFINE h == [n \in 0 .. (k + 1) |-> IF n <= k THEN g[n] ELSE After(g[k], k + 1)]
  <2>2. ASSUME NEW n \in 0 .. (k + 1) PROVE h[n] = Body(h, n)
    <3>1. n # 0 => h[n - 1] = g[n - 1]
      OBVIOUS
    <3>2. CASE n <= k
      <4>1. g[n] = Body(g, n)
        <5>. HIDE DEF Body
        <5>. QED  BY <2>1, <3>2
      <4>. QED  BY <3>1, <3>2, <4>1
    <3>3. CASE ~(n <= k)
      <4>1. n = k + 1 /\ n - 1 = k /\ n # 0
        BY <3>3
      <4>. QED  BY <3>1, <3>3, <4>1
    <3>. QED  BY <3>2, <3>3
  <2>3. h = [n \in 0 .. (k + 1) |-> h[n]]
    OBVIOUS
  <2>. HIDE DEF h
  <2>4. h = [n \in 0 .. (k + 1) |-> Body(h, n)]
    BY <2>2, <2>3
  <2>. QED  BY <2>4
<1>. HIDE DEF T
<1>3. Nat \subseteq T
  BY <1>1, <1>2, NumberInduction
<1>4. Len(plan) \in Nat
  OBVIOUS
<1>5. \E g : g = [n \in 0 .. Len(plan) |-> Body(g, n)]
  BY <1>3, <1>4 DEF T
<1>. DEFINE reached == steps(held, s, plan, start)
<1>6. reached = CHOOSE g : g = [n \in 0 .. Len(plan) |-> Body(g, n)]
  BY DEF steps, After
<1>7. reached = [n \in 0 .. Len(plan) |-> Body(reached, n)]
  <2>. HIDE DEF reached, Body
  <2>. QED  BY <1>5, <1>6
<1>8. reached[0] = {start} /\ \A n \in 1 .. Len(plan) : reached[n] = After(reached[n - 1], n)
  <2>1. \A n \in 0 .. Len(plan) : reached[n] = Body(reached, n)
    <3>. HIDE DEF reached, Body
    <3>. QED  BY <1>7
  <2>. HIDE DEF reached
  <2>. QED  BY <1>4, <2>1
<1>. QED  BY <1>8 DEF After, StepByStep

\* The state of an initializer: a node and handles.
IsState(state) == state \in [node : {state.node}, handles : {state.handles}] /\ IsNode(state.node)

\* What one step makes of a state: a contract put on the chain, only a handle, or only a block.
StepResult(held, s, state, what, r) ==
    LET known == scope(held, s, state.handles)
    IN  \/ /\ what.call = "deploy" /\ needs(what.kind) \subseteq DOMAIN known
           /\ r = [node |-> evm_deploy(state.node, deployed(what.kind, known), <<>>),
                   handles |-> put(state.handles, what.kind, nextAddress(state.node))]
        \/ /\ what.call = "get" /\ what.kind \in DOMAIN known
           /\ r = [node |-> state.node, handles |-> put(state.handles, what.kind, known[what.kind])]
        \/ /\ what.call = "createSetToken"
           /\ \E creator \in Range(state.node.chain.contracts) :
                /\ "SetTokenCreator" \in DOMAIN known
                /\ known.SetTokenCreator \in DOMAIN state.node.chain.contracts
                /\ creator = state.node.chain.contracts[known.SetTokenCreator]
                /\ creator.kind = "SetTokenCreator"
                /\ LET mined == evm_deploy(state.node,
                            [kind |-> "SetToken",
                             args |-> <<0, 0, 0, storedController(creator), 0, 0, 0>>,
                             libraries |-> <<>>], <<nextAddress(state.node)>>)
                   IN  r = [node |-> mined,
                            handles |-> put(state.handles, "SetToken",
                                            getCreatedSetTokenAddress(mined.chain))]
        \/ /\ what.call = "transact"
           /\ r = [node |-> evm_mine(state.node, 1), handles |-> state.handles]

\* A step has no other outcome: without the handles it needs it throws.
LEMMA StepResults ==
    ASSUME NEW held, NEW s, NEW state, IsState(state), NEW what \in Step,
           NEW r \in step(held, s, state, what)
    PROVE  StepResult(held, s, state, what, r)
<1>. DEFINE known == scope(held, s, state.handles)
<1>1. what.call \in {"deploy", "get", "createSetToken", "transact"}
  BY DEF Step
<1>2. CASE what.call = "deploy"
  <2>1. r \in deploySteps(state, known, what.kind)
    BY <1>2 DEF step
  <2>. HIDE DEF known
  <2>2. /\ needs(what.kind) \subseteq DOMAIN known
        /\ r = [node |-> evm_deploy(state.node, deployed(what.kind, known), <<>>),
                handles |-> put(state.handles, what.kind, nextAddress(state.node))]
    BY <2>1 DEF deploySteps
  <2>. QED  BY <1>2, <2>2 DEF StepResult, known
<1>3. CASE what.call = "get"
  <2>1. r \in getSteps(state, known, what.kind)
    BY <1>3 DEF step
  <2>. HIDE DEF known
  <2>2. /\ what.kind \in DOMAIN known
        /\ r = [state EXCEPT !.handles = put(state.handles, what.kind, known[what.kind])]
    BY <2>1 DEF getSteps
  <2>3. r.node = state.node /\ r.handles = put(state.handles, what.kind, known[what.kind])
        /\ r \in [node : {state.node}, handles : {put(state.handles, what.kind, known[what.kind])}]
    BY <2>2 DEF IsState
  <2>4. r = [node |-> state.node, handles |-> put(state.handles, what.kind, known[what.kind])]
    BY <2>3
  <2>. QED  BY <1>3, <2>2, <2>4 DEF StepResult, known
<1>4. CASE what.call = "createSetToken"
  <2>1. r \in createSetTokenSteps(state, known)
    BY <1>4 DEF step
  <2>. HIDE DEF known
  <2>2. PICK creator \in Range(state.node.chain.contracts) :
                /\ "SetTokenCreator" \in DOMAIN known
                /\ known.SetTokenCreator \in DOMAIN state.node.chain.contracts
                /\ creator = state.node.chain.contracts[known.SetTokenCreator]
                /\ creator.kind = "SetTokenCreator"
                /\ r = LET mined == evm_deploy(state.node,
                            [kind |-> "SetToken",
                             args |-> <<0, 0, 0, storedController(creator), 0, 0, 0>>,
                             libraries |-> <<>>], <<nextAddress(state.node)>>)
                       IN  [node |-> mined,
                            handles |-> put(state.handles, "SetToken",
                                            getCreatedSetTokenAddress(mined.chain))]
    BY <2>1 DEF createSetTokenSteps
  <2>. QED  BY <1>4, <2>2 DEF StepResult, known
<1>5. CASE what.call = "transact"
  <2>1. r \in transactSteps(state, known, what.kind)
    BY <1>5 DEF step
  <2>. HIDE DEF known
  <2>2. r = [state EXCEPT !.node = evm_mine(state.node, 1)]
    BY <2>1 DEF transactSteps
  <2>3. r.node = evm_mine(state.node, 1) /\ r.handles = state.handles
        /\ r \in [node : {evm_mine(state.node, 1)}, handles : {state.handles}]
    BY <2>2 DEF IsState
  <2>4. r = [node |-> evm_mine(state.node, 1), handles |-> state.handles]
    BY <2>3
  <2>. QED  BY <1>5, <2>4 DEF StepResult
<1>. QED  BY <1>1, <1>2, <1>3, <1>4, <1>5

\* No step of an initializer touches the snapshots.
LEMMA StepKeepsSnapshots ==
    ASSUME NEW held, NEW s, NEW state, IsState(state), NEW what \in Step,
           NEW r \in step(held, s, state, what)
    PROVE  IsState(r) /\ SameSnapshots(r.node, state.node)
<1>1. StepResult(held, s, state, what, r)
  BY StepResults
<1>2. IsNode(state.node)
  BY DEF IsState
<1>3. \A c, logs : SameSnapshots(evm_deploy(state.node, c, logs), state.node)
  BY <1>2, TransactionsKeepSnapshots
<1>4. SameSnapshots(state.node, state.node)
  BY <1>2 DEF SameSnapshots
<1>5. SameSnapshots(evm_mine(state.node, 1), state.node)
  BY <1>2, TransactionsKeepSnapshots
<1>6. \E n, h : r = [node |-> n, handles |-> h] /\ SameSnapshots(n, state.node)
  BY <1>1, <1>3, <1>4, <1>5 DEF StepResult
<1>. QED  BY <1>6 DEF IsState, SameSnapshots

\* Neither does an initializer, wherever it throws.
LEMMA InitializerKeepsSnapshots ==
    ASSUME IsNode(node), NEW s \in Suites, NEW t \in Suites, NEW outcome \in outcomes(s, t)
    PROVE  SameSnapshots(outcome.state.node, node)
<1>. DEFINE start == [node |-> node, handles |-> handles[s]]
<1>1. PICK plan \in Initializers[s][t] : \E n \in 0 .. Len(plan) :
          \E state \in steps(handles, s, plan, start)[n] :
              outcome = [thrown |-> n < Len(plan), state |-> state]
  BY DEF outcomes
<1>2. plan \in Seq(Step)
  BY SuitesAssumption
<1>. HIDE DEF start
<1>. DEFINE reached == steps(handles, s, plan, start)
            T == {n \in Nat : n <= Len(plan) =>
                    \A state \in reached[n] : IsState(state) /\ SameSnapshots(state.node, node)}
<1>3. /\ reached[0] = {start}
      /\ \A n \in 1 .. Len(plan) : reached[n] = UNION {step(handles, s, state, plan[n]) :
                                                        state \in reached[n - 1]}
  <2>1. StepByStep(handles, s, plan, start)
    BY <1>2, StepsUnfold
  <2>. QED  BY <2>1 DEF StepByStep
<1>. HIDE DEF reached
<1>4. 0 \in T
  <2>1. start.node = node /\ start.handles = handles[s]
        /\ start \in [node : {node}, handles : {handles[s]}]
    BY DEF start
  <2>. QED  BY <1>3, <2>1 DEF IsState, SameSnapshots
<1>5. ASSUME NEW n \in Nat, n \in T PROVE n + 1 \in T
  <2>1. CASE n + 1 <= Len(plan)
    <3>1. n + 1 \in 1 .. Len(plan) /\ (n + 1) - 1 = n /\ plan[n + 1] \in Step /\ n <= Len(plan)
      BY <1>2, <2>1
    <3>2. ASSUME NEW r \in reached[n + 1] PROVE IsState(r) /\ SameSnapshots(r.node, node)
      <4>1. PICK state \in reached[n] : r \in step(handles, s, state, plan[n + 1])
        BY <1>3, <3>1, <3>2
      <4>2. IsState(state) /\ SameSnapshots(state.node, node)
        BY <1>5, <3>1
      <4>3. IsState(r) /\ SameSnapshots(r.node, state.node)
        BY <3>1, <4>1, <4>2, StepKeepsSnapshots
      <4>. QED  BY <4>2, <4>3 DEF SameSnapshots
    <3>. QED  BY <3>2
  <2>. QED  BY <2>1
<1>. HIDE DEF T
<1>6. Nat \subseteq T
  BY <1>4, <1>5, NumberInduction
<1>7. PICK n \in 0 .. Len(plan) : \E state \in reached[n] :
          outcome = [thrown |-> n < Len(plan), state |-> state]
  BY <1>1 DEF reached
<1>8. PICK state \in reached[n] : outcome = [thrown |-> n < Len(plan), state |-> state]
  BY <1>7
<1>9. outcome.state = state
  BY <1>8
<1>10. n \in T /\ n <= Len(plan)
  BY <1>2, <1>6
<1>. QED  BY <1>9, <1>10 DEF T

(* The runner. *)

\* Where the runner is: in a suite or at the root, and the hooks are those of its path.
LEMMA InsideFacts ==
    ASSUME MochaTypeOK
    PROVE  /\ inside \in Seq(Suites) /\ Len(inside) \in Nat
           /\ \A i, j \in 1 .. Len(inside) : inside[i] = inside[j] => i = j
           /\ mocha.suite # Root =>
                /\ mocha.suite \in Suites /\ inside = path[mocha.suite] /\ Len(inside) > 0
                /\ inside[Len(inside)] = mocha.suite
           /\ mocha.suite = Root => Len(inside) = 0
<1>1. mocha.suite \in Suites \cup {Root}
  BY DEF MochaTypeOK
<1>2. /\ inside \in Seq(Suites)
      /\ \A i, j \in 1 .. Len(inside) : inside[i] = inside[j] => i = j
  BY <1>1, AroundDistinct DEF inside
<1>3. CASE mocha.suite = Root
  <2>1. inside = <<>>
    BY <1>3 DEF inside, around
  <2>. QED  BY <1>2, <1>3, <2>1
<1>4. CASE mocha.suite # Root
  <2>1. mocha.suite \in Suites /\ inside = path[mocha.suite]
    BY <1>1, <1>4 DEF inside, around
  <2>2. Len(inside) > 0 /\ inside[Len(inside)] = mocha.suite
    BY <2>1, PathFacts DEF PathOK
  <2>. QED  BY <1>2, <1>4, <2>1, <2>2
<1>. QED  BY <1>3, <1>4

\* A hook that returns: the next one, or the test, in the same suite.
Returned ==
    /\ MochaTypeOK' /\ RunnerSound'
    /\ mocha'.suite = mocha.suite /\ mocha'.left = mocha.left
    /\ \/ mocha'.stage = "test"
       \/ mocha'.stage = "beforeEach" /\ mocha'.hook = mocha.hook + 1

\* The runner after a hook that returns.
LEMMA HookReturned ==
    ASSUME MochaTypeOK, RunnerSound, mocha.stage = "beforeEach", NEW n, hookReturns(n)
    PROVE  Returned
<1>1. mocha.suite # Root /\ mocha.failed = NoSuite /\ mocha.hook \in Nat
  BY DEF MochaTypeOK, RunnerSound
<1>2. inside = path[mocha.suite] /\ Len(inside) \in Nat
  BY <1>1, InsideFacts
<1>3. CASE mocha.hook < Len(path[mocha.suite])
  <2>1. mocha' = [mocha EXCEPT !.hook = mocha.hook + 1]
    BY <1>3 DEF hookReturns
  <2>2. /\ MochaTypeOK' /\ mocha'.suite = mocha.suite /\ mocha'.left = mocha.left
        /\ mocha'.stage = mocha.stage /\ mocha'.hook = mocha.hook + 1
        /\ mocha'.failed = mocha.failed
    BY <1>1, <2>1 DEF MochaTypeOK
  <2>3. inside' = inside
    BY <2>2 DEF inside
  <2>4. RunnerSound'
    BY <1>1, <1>2, <1>3, <2>2, <2>3 DEF RunnerSound
  <2>. QED  BY <2>2, <2>4 DEF Returned
<1>4. CASE ~(mocha.hook < Len(path[mocha.suite]))
  <2>1. mocha' = [mocha EXCEPT !.stage = "test"]
    BY <1>4 DEF hookReturns
  <2>2. /\ MochaTypeOK' /\ mocha'.suite = mocha.suite /\ mocha'.left = mocha.left
        /\ mocha'.stage = "test" /\ mocha'.failed = mocha.failed
    BY <1>1, <2>1 DEF MochaTypeOK
  <2>3. inside' = inside
    BY <2>2 DEF inside
  <2>4. RunnerSound'
    BY <1>1, <2>2, <2>3 DEF RunnerSound
  <2>. QED  BY <2>2, <2>4 DEF Returned
<1>. QED  BY <1>3, <1>4

\* The hook the runner is at.
LEMMA HookedFacts ==
    ASSUME MochaTypeOK, RunnerSound, mocha.stage = "beforeEach"
    PROVE  /\ mocha.suite \in Suites /\ mocha.failed = NoSuite
           /\ mocha.hook \in 1 .. Len(inside) /\ hooked = inside[mocha.hook]
           /\ hooked \in Suites
<1>1. mocha.suite # Root /\ mocha.failed = NoSuite /\ mocha.hook \in 1 .. Len(inside)
  BY DEF RunnerSound
<1>2. inside = path[mocha.suite] /\ inside \in Seq(Suites) /\ mocha.suite \in Suites
  BY <1>1, InsideFacts
<1>. QED  BY <1>1, <1>2 DEF hooked

\* The runner after a hook that throws: the rest of the suite is going to be skipped.
LEMMA HookThrew ==
    ASSUME MochaTypeOK, RunnerSound, mocha.stage = "beforeEach", hookThrows
    PROVE  /\ MochaTypeOK' /\ RunnerSound' /\ mocha'.stage = "afterEach"
           /\ mocha'.suite = mocha.suite /\ mocha'.left = mocha.left
<1>1. mocha.hook \in 1 .. Len(inside) /\ hooked = inside[mocha.hook] /\ hooked \in Suites
  BY HookedFacts
<1>. HIDE DEF hooked
<1>2. mocha' = [mocha EXCEPT !.stage = "afterEach", !.failed = hooked]
  BY DEF hookThrows
<1>3. /\ MochaTypeOK' /\ mocha'.suite = mocha.suite /\ mocha'.left = mocha.left
      /\ mocha'.stage = "afterEach" /\ mocha'.failed = hooked
  BY <1>1, <1>2 DEF MochaTypeOK
<1>4. inside' = inside
  BY <1>3 DEF inside
<1>5. mocha.suite # Root
  BY DEF RunnerSound
<1>6. RunnerSound'
  BY <1>1, <1>3, <1>4, <1>5 DEF RunnerSound
<1>. QED  BY <1>3, <1>6

\* Moving on in a suite leaves the stack as it was.
LEMMA SameStack ==
    ASSUME StackMatches, UNCHANGED <<SNAPSHOTS, initialized>>,
           mocha'.suite = mocha.suite, mocha'.left = mocha.left,
           mocha'.stage = "beforeEach" =>
              \A i \in 1 .. (mocha'.hook - 1) : Style[inside[i]] = "cache" => i <= Len(SNAPSHOTS)
    PROVE  StackMatches'
<1>1. inside' = inside /\ pushed' = pushed
  BY DEF inside, pushed
<1>. QED  BY <1>1 DEF StackMatches

\* A node that keeps its snapshots keeps those of the stack.
LEMMA SameKnown ==
    ASSUME StackKnown, UNCHANGED SNAPSHOTS, SameSnapshots(node', node)
    PROVE  StackKnown'
BY DEF StackKnown, SameSnapshots

(* The actions keep the stack. *)

\* The suite entered next has not been left, and the current one is the one around it.
LEMMA NextSuite ==
    ASSUME MochaTypeOK, waiting # {}
    PROVE  /\ Children[mocha.suite][Min(waiting)] \in Suites \ mocha.left
           /\ Parent(Children[mocha.suite][Min(waiting)]) = mocha.suite
<1>. DEFINE below == Children[mocha.suite]
            m == Min(waiting)
<1>1. mocha.suite \in Suites \cup {Root}
  BY DEF MochaTypeOK
<1>2. below \in Seq(Suites)
  BY <1>1, NestingAssumption
<1>. HIDE DEF below
<1>3. waiting = {i \in DOMAIN below : below[i] \notin mocha.left}
  BY DEF waiting, below
<1>4. waiting \in SUBSET Nat
  BY <1>2, <1>3
<1>5. \E n \in waiting : \A k \in waiting : n <= k
  BY <1>4, LeastNumber
<1>6. m \in waiting
  BY <1>5 DEF Min
<1>. HIDE DEF m
<1>7. m \in DOMAIN below /\ below[m] \in Suites \ mocha.left
  BY <1>2, <1>3, <1>6
<1>8. below[m] \in Range(below)
  BY <1>7 DEF Range
<1>9. Parent(below[m]) = mocha.suite
  BY <1>1, <1>7, <1>8, ParentFacts DEF below
<1>. QED  BY <1>7, <1>9 DEF below, m

\* One more suite around: the stack is as it was.
LEMMA StackOneDeeper ==
    ASSUME StackMatches, UNCHANGED <<SNAPSHOTS, initialized>>, mocha'.left = mocha.left,
           mocha'.stage = "suite", inside \in Seq(Suites), inside' \in Seq(Suites),
           Len(inside') = Len(inside) + 1,
           \A i \in 1 .. Len(inside) : inside'[i] = inside[i]
    PROVE  StackMatches'
<1>. HIDE DEF inside
<1>1. SNAPSHOTS \in Seq(Nat) /\ Len(SNAPSHOTS) <= Len(inside) /\ Len(SNAPSHOTS) \in Nat
  BY DEF StackMatches
<1>2. \A i \in 1 .. Len(SNAPSHOTS) : inside'[i] = inside[i]
  BY <1>1
<1>3. pushed' = pushed
  BY DEF pushed
<1>. HIDE DEF pushed
<1>. QED  BY <1>1, <1>2, <1>3 DEF StackMatches

\* The runner steps into a suite below the current one: the suites around are one more.
LEMMA Entered ==
    ASSUME MochaTypeOK, RunnerSound, StackMatches, mocha.stage = "suite", mocha.failed = NoSuite,
           NEW s \in Suites \ mocha.left, Parent(s) = mocha.suite, NEW f \in {s, NoSuite},
           mocha' = [mocha EXCEPT !.suite = s, !.failed = f], UNCHANGED <<SNAPSHOTS, initialized>>
    PROVE  /\ MochaTypeOK' /\ RunnerSound' /\ StackMatches'
           /\ Len(inside') = Len(inside) + 1 /\ inside'[Len(inside')] = s
           /\ \A i \in 1 .. Len(inside) : inside'[i] = inside[i]
           /\ mocha'.stage = "suite" /\ mocha'.suite = s
<1>1. /\ MochaTypeOK' /\ mocha'.suite = s /\ mocha'.failed = f /\ mocha'.stage = "suite"
      /\ mocha'.left = mocha.left
  BY DEF MochaTypeOK
<1>2. inside' = around(s) /\ inside = around(Parent(s))
  BY <1>1 DEF inside
<1>3. /\ inside \in Seq(Suites) /\ inside' \in Seq(Suites)
      /\ Len(inside') = Len(inside) + 1 /\ inside'[Len(inside')] = s
      /\ \A i \in 1 .. Len(inside) : inside'[i] = inside[i]
  BY <1>2, AroundStep
<1>4. s # Root
  BY NestingAssumption
<1>. HIDE DEF inside
<1>5. RunnerSound'
  <2>1. \A i \in 1 .. Len(inside') : inside'[i] \notin mocha.left
    BY <1>3 DEF RunnerSound
  <2>2. Len(inside') \in 1 .. Len(inside')
    BY <1>3
  <2>. QED  BY <1>1, <1>3, <1>4, <2>1, <2>2 DEF RunnerSound
<1>6. StackMatches'
  BY <1>1, <1>3, StackOneDeeper
<1>. QED  BY <1>1, <1>3, <1>5, <1>6

\* A step into a suite below the current one.
StepIn ==
    LET s == mocha'.suite
    IN  /\ s \in Suites /\ Parent(s) = mocha.suite /\ mocha.stage = "suite" /\ mocha'.stage = "suite"
        /\ Len(inside') = Len(inside) + 1 /\ inside'[Len(inside')] = s
        /\ \A i \in 1 .. Len(inside) : inside'[i] = inside[i]
        /\ SameSnapshots(node', node) /\ pushed' = pushed /\ UNCHANGED SNAPSHOTS

\* Entering a suite keeps the stack; what `before' does touches no snapshot.
LEMMA EnterSuiteKeepsStack == StackInv /\ EnterSuite => StackInv' /\ StepIn
<1>. SUFFICES ASSUME StackInv, EnterSuite PROVE StackInv' /\ StepIn
  OBVIOUS
<1>0. MochaTypeOK /\ RunnerSound /\ StackMatches /\ StackKnown
  BY DEF StackInv
<1>. DEFINE s == Children[mocha.suite][Min(waiting)]
<1>1. s \in Suites \ mocha.left /\ Parent(s) = mocha.suite
  BY <1>0, NextSuite DEF EnterSuite
<1>2. /\ mocha.stage = "suite" /\ mocha.failed = NoSuite
      /\ UNCHANGED <<SNAPSHOTS, initialized>>
      /\ \/ \E outcome \in outcomes(s, s) :
              /\ node' = outcome.state.node
              /\ mocha' = [mocha EXCEPT !.suite = s,
                                        !.failed = IF outcome.thrown THEN s ELSE NoSuite]
         \/ node' = sent(node, "before" \in Sends[s]) /\ mocha' = [mocha EXCEPT !.suite = s]
  BY DEF EnterSuite
<1>. HIDE DEF s
<1>3. ASSUME NEW outcome \in outcomes(s, s), node' = outcome.state.node,
             mocha' = [mocha EXCEPT !.suite = s, !.failed = IF outcome.thrown THEN s ELSE NoSuite]
      PROVE  StackInv' /\ StepIn
  <2>. DEFINE f == IF outcome.thrown THEN s ELSE NoSuite
  <2>1. f \in {s, NoSuite} /\ mocha' = [mocha EXCEPT !.suite = s, !.failed = f]
    BY <1>3
  <2>. HIDE DEF f
  <2>2. /\ MochaTypeOK' /\ RunnerSound' /\ StackMatches'
        /\ Len(inside') = Len(inside) + 1 /\ inside'[Len(inside')] = s
        /\ \A i \in 1 .. Len(inside) : inside'[i] = inside[i]
        /\ mocha'.stage = "suite" /\ mocha'.suite = s
    BY <1>0, <1>1, <1>2, <2>1, Entered
  <2>3. SameSnapshots(node', node)
    BY <1>0, <1>1, <1>3, InitializerKeepsSnapshots DEF StackKnown
  <2>4. StackInv'
    BY <1>0, <1>2, <2>2, <2>3, SameKnown DEF StackInv
  <2>5. pushed' = pushed
    <3>1. mocha'.left = mocha.left
      BY <1>0, <2>1 DEF MochaTypeOK
    <3>. QED  BY <1>2, <3>1 DEF pushed
  <2>. HIDE DEF inside, pushed
  <2>. QED  BY <1>1, <1>2, <1>3, <2>2, <2>3, <2>4, <2>5 DEF StepIn
<1>4. ASSUME node' = sent(node, "before" \in Sends[s]), mocha' = [mocha EXCEPT !.suite = s]
      PROVE  StackInv' /\ StepIn
  <2>1. mocha' = [mocha EXCEPT !.suite = s, !.failed = NoSuite]
    <3>1. mocha' \in [suite : Suites \cup {Root},
                      stage : {"suite", "beforeEach", "test", "afterEach"}, hook : Nat,
                      failed : Suites \cup {NoSuite}, left : SUBSET Suites, ran : [Suites -> Nat]]
          /\ mocha'.failed = NoSuite
      BY <1>0, <1>1, <1>2, <1>4 DEF MochaTypeOK
    <3>2. mocha' = [mocha' EXCEPT !.failed = mocha'.failed]
      BY <3>1
    <3>. QED  BY <1>4, <3>1, <3>2
  <2>2. /\ MochaTypeOK' /\ RunnerSound' /\ StackMatches'
        /\ Len(inside') = Len(inside) + 1 /\ inside'[Len(inside')] = s
        /\ \A i \in 1 .. Len(inside) : inside'[i] = inside[i]
        /\ mocha'.stage = "suite" /\ mocha'.suite = s
    BY <1>0, <1>1, <1>2, <2>1, Entered
  <2>3. SameSnapshots(node', node)
    BY <1>0, <1>4, SentKeepsSnapshots DEF StackKnown
  <2>4. StackInv'
    BY <1>0, <1>2, <2>2, <2>3, SameKnown DEF StackInv
  <2>5. pushed' = pushed
    <3>1. mocha'.left = mocha.left
      BY <1>0, <2>1 DEF MochaTypeOK
    <3>. QED  BY <1>2, <3>1 DEF pushed
  <2>. HIDE DEF inside, pushed
  <2>. QED  BY <1>1, <1>2, <1>4, <2>2, <2>3, <2>4, <2>5 DEF StepIn
<1>. QED  BY <1>2, <1>3, <1>4

\* Starting a test keeps the stack: no hook has run for it yet.
LEMMA StartTestKeepsStack == StackInv /\ StartTest => StackInv'
<1>. SUFFICES ASSUME StackInv, StartTest PROVE StackInv'
  OBVIOUS
<1>0. MochaTypeOK /\ RunnerSound /\ StackMatches /\ StackKnown
  BY DEF StackInv
<1>1. /\ mocha.stage = "suite" /\ mocha.failed = NoSuite /\ mocha.suite # Root
      /\ mocha' = [mocha EXCEPT !.stage = "beforeEach", !.hook = 1]
      /\ UNCHANGED <<node, SNAPSHOTS, initialized>>
  BY DEF StartTest
<1>2. /\ MochaTypeOK' /\ mocha'.suite = mocha.suite /\ mocha'.left = mocha.left
      /\ mocha'.stage = "beforeEach" /\ mocha'.hook = 1 /\ mocha'.failed = NoSuite
  BY <1>0, <1>1 DEF MochaTypeOK
<1>3. inside' = inside
  BY <1>2 DEF inside
<1>4. Len(inside) \in Nat /\ Len(inside) > 0
  BY <1>0, <1>1, InsideFacts
<1>5. RunnerSound'
  BY <1>0, <1>1, <1>2, <1>3, <1>4 DEF RunnerSound
<1>6. StackMatches'
  <2>1. \A i \in 1 .. (mocha'.hook - 1) : FALSE
    BY <1>2
  <2>. QED  BY <1>0, <1>1, <1>2, <2>1, SameStack
<1>7. StackKnown'
  <2>1. SameSnapshots(node', node)
    BY <1>0, <1>1 DEF StackKnown, SameSnapshots
  <2>. QED  BY <1>0, <1>1, <2>1, SameKnown
<1>. QED  BY <1>2, <1>5, <1>6, <1>7 DEF StackInv

\* The body of a test may do anything to the chain and nothing to the stack.
LEMMA RunTestKeepsStack == StackInv /\ RunTest => StackInv'
<1>. SUFFICES ASSUME StackInv, RunTest PROVE StackInv'
  OBVIOUS
<1>0. MochaTypeOK /\ RunnerSound /\ StackMatches /\ StackKnown
  BY DEF StackInv
<1>1. /\ mocha.stage = "test" /\ UNCHANGED <<SNAPSHOTS, initialized>>
      /\ mocha' = [mocha EXCEPT !.stage = "afterEach", !.ran[mocha.suite] = @ + 1]
  BY DEF RunTest
<1>2. mocha.suite \in Suites /\ mocha.ran[mocha.suite] + 1 \in Nat
  BY <1>0, <1>1 DEF MochaTypeOK, RunnerSound
<1>3. /\ MochaTypeOK' /\ mocha'.suite = mocha.suite /\ mocha'.left = mocha.left
      /\ mocha'.stage = "afterEach" /\ mocha'.failed = mocha.failed
  BY <1>0, <1>1, <1>2 DEF MochaTypeOK
<1>4. inside' = inside
  BY <1>3 DEF inside
<1>5. RunnerSound'
  BY <1>0, <1>1, <1>3, <1>4 DEF RunnerSound
<1>6. SameSnapshots(node', node)
  <2>1. IsNode(node)
    BY <1>0 DEF StackKnown
  <2>. QED  BY <2>1, TransactionsKeepSnapshots
            DEF RunTest, increaseTimeAsync, setNextBlockTimestamp, waitBlocksAsync
<1>. QED  BY <1>0, <1>1, <1>3, <1>5, <1>6, SameStack, SameKnown DEF StackInv

\* A file that reverts after each test has no cached suite around: its stack is empty.
LEMMA SnapshotFileHasNoStack ==
    ASSUME StackInv, mocha.suite # Root, Style[inside[1]] = "snapshot"
    PROVE  Len(SNAPSHOTS) = 0
BY DEF StackInv, StackMatches

\* The node when the afterEach hooks of the suites have sent what they send.
leftNode == sent(node, \E i \in 1 .. mocha.hook : "afterEach" \in Sends[path[mocha.suite][i]])

\* The afterEach hooks keep the stack.
LEMMA AfterEachKeepsStack == StackInv /\ AfterEach => StackInv'
<1>. SUFFICES ASSUME StackInv, AfterEach PROVE StackInv'
  OBVIOUS
<1>0. MochaTypeOK /\ RunnerSound /\ StackMatches /\ StackKnown
  BY DEF StackInv
<1>1. /\ mocha.stage = "afterEach" /\ UNCHANGED <<SNAPSHOTS, initialized>>
      /\ mocha' = [mocha EXCEPT !.stage = "suite"]
      /\ node' = IF Style[Head(path[mocha.suite])] = "snapshot"
                 THEN revertAsync(blockchains[Head(path[mocha.suite])], leftNode) ELSE leftNode
  BY DEF AfterEach, leftNode
<1>2. /\ MochaTypeOK' /\ mocha'.suite = mocha.suite /\ mocha'.left = mocha.left
      /\ mocha'.stage = "suite" /\ mocha'.failed = mocha.failed
  BY <1>0, <1>1 DEF MochaTypeOK
<1>3. inside' = inside
  BY <1>2 DEF inside
<1>4. RunnerSound'
  BY <1>0, <1>1, <1>2, <1>3 DEF RunnerSound
<1>5. StackMatches'
  BY <1>0, <1>1, <1>2, SameStack
<1>6. mocha.suite # Root
  BY <1>0, <1>1 DEF RunnerSound
<1>7. Head(path[mocha.suite]) = inside[1]
  BY <1>0, <1>6, InsideFacts
<1>8. CASE Style[inside[1]] = "snapshot"
  <2>1. Len(SNAPSHOTS) = 0
    BY <1>6, <1>8, SnapshotFileHasNoStack
  <2>2. node' = evm_revert(leftNode, blockchains[inside[1]].snapshotId)
    BY <1>1, <1>7, <1>8 DEF revertAsync
  <2>3. IsNode(leftNode)
    BY <1>0, SentKeepsSnapshots DEF StackKnown, leftNode, SameSnapshots
  <2>4. IsNode(node')
    BY <2>2, <2>3, Reverted, RevertIgnored
  <2>. QED  BY <1>1, <1>2, <1>4, <1>5, <2>1, <2>4 DEF StackInv, StackKnown
<1>9. CASE Style[inside[1]] # "snapshot"
  <2>1. SameSnapshots(node', node)
    BY <1>0, <1>1, <1>7, <1>9, SentKeepsSnapshots DEF StackKnown, leftNode
  <2>. QED  BY <1>0, <1>1, <1>2, <1>4, <1>5, <2>1, SameKnown DEF StackInv
<1>. QED  BY <1>8, <1>9

\* After a hook of another kind than cacheBeforeEach the cached ones have run as before.
LEMMA OtherHookReturned ==
    ASSUME StackInv, mocha.stage = "beforeEach", Style[hooked] # "cache", Returned,
           UNCHANGED <<SNAPSHOTS, initialized>>
    PROVE  StackMatches'
<1>1. /\ mocha'.suite = mocha.suite /\ mocha'.left = mocha.left
      /\ mocha'.stage = "beforeEach" => mocha'.hook = mocha.hook + 1
  BY DEF Returned
<1>2. MochaTypeOK /\ RunnerSound /\ StackMatches
  BY DEF StackInv
<1>3. mocha.hook \in Nat /\ hooked = inside[mocha.hook]
  BY <1>2, HookedFacts DEF MochaTypeOK
<1>4. mocha'.stage = "beforeEach" =>
          \A i \in 1 .. (mocha'.hook - 1) : Style[inside[i]] = "cache" => i <= Len(SNAPSHOTS)
  BY <1>1, <1>2, <1>3 DEF StackMatches
<1>. QED  BY <1>1, <1>2, <1>4, SameStack

\* addSnapshotBeforeRestoreAfterEach takes a snapshot that is not on the stack.
LEMMA SnapshotBeforeEachKeepsStack == StackInv /\ SnapshotBeforeEach => StackInv'
<1>. SUFFICES ASSUME StackInv, SnapshotBeforeEach PROVE StackInv'
  OBVIOUS
<1>0. MochaTypeOK /\ RunnerSound /\ StackMatches /\ StackKnown
  BY DEF StackInv
<1>1. /\ mocha.stage = "beforeEach" /\ Style[hooked] # "cache"
      /\ node' = evm_snapshot(node) /\ \E n : hookReturns(n)
      /\ UNCHANGED <<SNAPSHOTS, initialized>>
  BY DEF SnapshotBeforeEach, saveSnapshotAsync
<1>2. Returned
  BY <1>0, <1>1, HookReturned
<1>3. StackMatches'
  BY <1>1, <1>2, OtherHookReturned
<1>4. StackKnown'
  <2>1. IsNode(node') /\ DOMAIN node.snapshots \subseteq DOMAIN node'.snapshots
    BY <1>0, <1>1, SnapshotTaken DEF StackKnown
  <2>. QED  BY <1>0, <1>1, <2>1 DEF StackKnown
<1>. QED  BY <1>2, <1>3, <1>4 DEF StackInv, Returned

\* A plain beforeEach hook runs an initializer and knows of no snapshot.
LEMMA PlainBeforeEachKeepsStack == StackInv /\ PlainBeforeEach => StackInv'
<1>. SUFFICES ASSUME StackInv, PlainBeforeEach PROVE StackInv'
  OBVIOUS
<1>0. MochaTypeOK /\ RunnerSound /\ StackMatches /\ StackKnown
  BY DEF StackInv
<1>1. /\ mocha.stage = "beforeEach" /\ Style[hooked] # "cache"
      /\ UNCHANGED <<SNAPSHOTS, initialized>>
  BY DEF PlainBeforeEach
<1>2. PICK outcome \in outcomes(hooked, mocha.suite) :
          /\ node' = outcome.state.node
          /\ hookThrows \/ hookReturns(outcome.state.node)
  BY DEF PlainBeforeEach
<1>3. SameSnapshots(node', node)
  BY <1>0, <1>1, <1>2, HookedFacts, InitializerKeepsSnapshots DEF StackKnown
<1>4. StackKnown'
  BY <1>0, <1>1, <1>3, SameKnown
<1>5. CASE hookThrows
  BY <1>0, <1>1, <1>4, <1>5, HookThrew, SameStack DEF StackInv
<1>6. CASE hookReturns(outcome.state.node)
  <2>1. Returned
    BY <1>0, <1>1, <1>6, HookReturned
  <2>. QED  BY <1>1, <1>4, <2>1, OtherHookReturned DEF StackInv, Returned
<1>. QED  BY <1>2, <1>5, <1>6

\* Neither does a suite without a beforeEach hook.
LEMMA NoBeforeEachKeepsStack == StackInv /\ NoBeforeEach => StackInv'
<1>. SUFFICES ASSUME StackInv, NoBeforeEach PROVE StackInv'
  OBVIOUS
<1>0. MochaTypeOK /\ RunnerSound /\ StackMatches /\ StackKnown
  BY DEF StackInv
<1>1. /\ mocha.stage = "beforeEach" /\ Style[hooked] # "cache" /\ hookReturns(node)
      /\ UNCHANGED <<node, SNAPSHOTS, initialized>>
  BY DEF NoBeforeEach
<1>2. Returned
  BY <1>0, <1>1, HookReturned
<1>3. StackMatches'
  BY <1>1, <1>2, OtherHookReturned
<1>4. SameSnapshots(node', node)
  BY <1>0, <1>1 DEF StackKnown, SameSnapshots
<1>. QED  BY <1>0, <1>1, <1>2, <1>3, <1>4, SameKnown DEF StackInv, Returned

\* A snapshot pushed on what remains of the stack, when the node still knows that.
LEMMA PushKnown ==
    ASSUME StackKnown, SNAPSHOTS \in Seq(Nat), NEW n, IsNode(n), NEW q \in Seq(Nat),
           Len(q) <= Len(SNAPSHOTS),
           \A i \in 1 .. Len(q) : q[i] = SNAPSHOTS[i] /\ q[i] \in DOMAIN n.snapshots,
           node' = evm_snapshot(n), SNAPSHOTS' = Append(q, n.nextId)
    PROVE  /\ StackKnown' /\ SNAPSHOTS' \in Seq(Nat) /\ Len(SNAPSHOTS') = Len(q) + 1
           /\ SNAPSHOTS'[Len(SNAPSHOTS')] = n.nextId
           /\ \A i \in 1 .. Len(q) : SNAPSHOTS'[i] = q[i]
<1>. DEFINE id == n.nextId
<1>1. id \in Nat
  BY DEF IsNode
<1>2. /\ IsNode(node') /\ DOMAIN node'.snapshots = DOMAIN n.snapshots \cup {id}
      /\ \A i \in DOMAIN n.snapshots : i < id
  BY SnapshotTaken
<1>. HIDE DEF id
<1>3. /\ SNAPSHOTS' \in Seq(Nat) /\ Len(SNAPSHOTS') = Len(q) + 1
      /\ SNAPSHOTS'[Len(q) + 1] = id
      /\ \A i \in 1 .. Len(q) : SNAPSHOTS'[i] = q[i]
  BY <1>1 DEF id
<1>4. Len(q) \in Nat
  OBVIOUS
<1>5. ASSUME NEW i \in 1 .. Len(SNAPSHOTS') PROVE SNAPSHOTS'[i] \in DOMAIN node'.snapshots
  <2>1. CASE i = Len(q) + 1
    BY <1>2, <1>3, <2>1
  <2>2. CASE i # Len(q) + 1
    <3>1. i \in 1 .. Len(q)
      BY <1>3, <1>4, <2>2
    <3>. QED  BY <1>2, <1>3, <3>1
  <2>. QED  BY <2>1, <2>2
<1>6. ASSUME NEW i \in 1 .. Len(SNAPSHOTS'), NEW j \in 1 .. Len(SNAPSHOTS'), i < j
      PROVE  SNAPSHOTS'[i] < SNAPSHOTS'[j]
  <2>1. i \in 1 .. Len(q) /\ i \in 1 .. Len(SNAPSHOTS)
    BY <1>3, <1>4, <1>6
  <2>2. SNAPSHOTS'[i] = SNAPSHOTS[i] /\ SNAPSHOTS[i] \in DOMAIN n.snapshots
    BY <1>3, <2>1
  <2>3. CASE j = Len(q) + 1
    BY <1>2, <1>3, <2>2, <2>3
  <2>4. CASE j # Len(q) + 1
    <3>1. j \in 1 .. Len(q) /\ j \in 1 .. Len(SNAPSHOTS)
      BY <1>3, <1>4, <2>4
    <3>. QED  BY <1>3, <1>6, <2>1, <2>2, <3>1 DEF StackKnown
  <2>. QED  BY <2>3, <2>4
<1>7. StackKnown'
  BY <1>2, <1>5, <1>6 DEF StackKnown
<1>. QED  BY <1>3, <1>7 DEF id

\* The stack without its top.
LEMMA PopFacts ==
    ASSUME NEW q \in Seq(Nat), Len(q) > 0
    PROVE  /\ Front(q) \in Seq(Nat) /\ Len(Front(q)) = Len(q) - 1 /\ Len(q) \in Nat
           /\ \A i \in 1 .. (Len(q) - 1) : Front(q)[i] = q[i]
           /\ Last(q) = q[Len(q)]
<1>. DEFINE n == Len(q) - 1
            f == SubSeq(q, 1, n)
<1>1. n \in Nat /\ Len(q) = n + 1 /\ \A i \in 1 .. n : q[i] \in Nat
  OBVIOUS
<1>2. Front(q) = f /\ Last(q) = q[Len(q)]
  BY DEF Front, Last
<1>. HIDE DEF n
<1>3. /\ f \in Seq(Nat) /\ Len(f) = IF 1 <= n THEN n - 1 + 1 ELSE 0
      /\ \A i \in 1 .. (n - 1 + 1) : f[i] = q[1 + i - 1]
  BY <1>1, SubSeqProperties
<1>. HIDE DEF f
<1>4. Len(f) = n /\ \A i \in 1 .. n : f[i] = q[i]
  BY <1>1, <1>3
<1>5. Front(q) \in Seq(Nat) /\ Len(Front(q)) = n /\ \A i \in 1 .. n : Front(q)[i] = q[i]
  BY <1>2, <1>3, <1>4
<1>6. Len(q) \in Nat
  OBVIOUS
<1>. QED  BY <1>2, <1>5, <1>6, Zenon DEF n

\* A hook of an initialized suite that is around has its snapshot, on the stack.
LEMMA InitializedIsPushed ==
    ASSUME StackInv, NEW h \in 1 .. Len(inside)
    PROVE  initialized[inside[h]] <=> h <= Len(SNAPSHOTS)
<1>1. /\ inside \in Seq(Suites) /\ Len(inside) \in Nat
      /\ \A i, j \in 1 .. Len(inside) : inside[i] = inside[j] => i = j
  BY InsideFacts DEF StackInv
<1>2. inside[h] \in Suites /\ inside[h] \notin mocha.left
  BY <1>1 DEF StackInv, RunnerSound
<1>3. initialized[inside[h]] <=> inside[h] \in pushed
  BY <1>2 DEF pushed
<1>4. /\ pushed = {inside[i] : i \in 1 .. Len(SNAPSHOTS)} /\ Len(SNAPSHOTS) <= Len(inside)
      /\ Len(SNAPSHOTS) \in Nat
  BY DEF StackInv, StackMatches
<1>. HIDE DEF inside, pushed
<1>5. inside[h] \in pushed <=> h <= Len(SNAPSHOTS)
  BY <1>1, <1>4
<1>. QED  BY <1>3, <1>5

\* The hooks of the suites around a cached one are cacheBeforeEach's.
LEMMA CachedInCached ==
    ASSUME MochaTypeOK, NEW h \in 1 .. Len(inside), Style[inside[h]] = "cache"
    PROVE  \A i \in 1 .. h : Style[inside[i]] = "cache"
<1>1. mocha.suite # Root
  BY InsideFacts
<1>2. mocha.suite \in Suites /\ inside = path[mocha.suite] /\ inside \in Seq(Suites)
  BY <1>1, InsideFacts
<1>3. PathOK(mocha.suite)
  BY <1>2, PathFacts
<1>. DEFINE c == inside[h]
<1>4. c \in Suites /\ Len(path[c]) = h /\ \A i \in 1 .. h : path[c][i] = inside[i]
  BY <1>2, <1>3 DEF PathOK
<1>5. path[c] \in Seq(Suites)
  BY <1>4, PathFacts DEF PathOK
<1>6. \A i \in DOMAIN path[c] : Style[path[c][i]] = "cache"
  BY <1>4, SuitesAssumption
<1>. HIDE DEF c
<1>7. DOMAIN path[c] = 1 .. h
  BY <1>4, <1>5
<1>. QED  BY <1>4, <1>6, <1>7

\* cacheBeforeEach, later: the snapshot on top is replaced, the others are still known.
LEMMA RestoreKeepsStack ==
    ASSUME StackInv, mocha.stage = "beforeEach", Style[hooked] = "cache", initialized[hooked],
           cacheRestore(hooked)
    PROVE  StackInv'
<1>0. MochaTypeOK /\ RunnerSound /\ StackMatches /\ StackKnown
  BY DEF StackInv
<1>. DEFINE k == Len(SNAPSHOTS)
            reverted == revertByIdAsync(node, Last(SNAPSHOTS))
<1>1. /\ mocha.hook \in 1 .. Len(inside) /\ hooked = inside[mocha.hook] /\ hooked \in Suites
      /\ mocha.hook <= k
  BY <1>0, HookedFacts, InitializedIsPushed
<1>2. SNAPSHOTS \in Seq(Nat) /\ k \in Nat /\ k > 0
  BY <1>0, <1>1 DEF StackMatches
<1>3. /\ node' = evm_snapshot(reverted) /\ SNAPSHOTS' = Append(Front(SNAPSHOTS), reverted.nextId)
      /\ \E n : hookReturns(n) /\ UNCHANGED initialized
  BY DEF cacheRestore, saveSnapshotAsync
<1>4. /\ Front(SNAPSHOTS) \in Seq(Nat) /\ Len(Front(SNAPSHOTS)) = k - 1
      /\ \A i \in 1 .. (k - 1) : Front(SNAPSHOTS)[i] = SNAPSHOTS[i]
      /\ Last(SNAPSHOTS) = SNAPSHOTS[k]
  BY <1>2, PopFacts
<1>5. SNAPSHOTS[k] \in DOMAIN node.snapshots /\ IsNode(node)
  BY <1>0, <1>2 DEF StackKnown
<1>6. /\ IsNode(reverted)
      /\ DOMAIN reverted.snapshots = {i \in DOMAIN node.snapshots : i < SNAPSHOTS[k]}
  BY <1>4, <1>5, Reverted DEF revertByIdAsync
<1>7. \A i \in 1 .. (k - 1) : SNAPSHOTS[i] \in DOMAIN node.snapshots /\ SNAPSHOTS[i] < SNAPSHOTS[k]
  BY <1>0, <1>2 DEF StackKnown
<1>. HIDE DEF reverted
<1>. DEFINE rest == Front(SNAPSHOTS)
<1>. HIDE DEF rest
<1>8. /\ rest \in Seq(Nat) /\ Len(rest) = k - 1 /\ Len(rest) <= Len(SNAPSHOTS)
      /\ \A i \in 1 .. Len(rest) : rest[i] = SNAPSHOTS[i] /\ rest[i] \in DOMAIN reverted.snapshots
      /\ SNAPSHOTS' = Append(rest, reverted.nextId)
  BY <1>2, <1>3, <1>4, <1>6, <1>7 DEF rest
<1>9. StackKnown' /\ SNAPSHOTS' \in Seq(Nat) /\ Len(SNAPSHOTS') = k
  <2>1. StackKnown' /\ SNAPSHOTS' \in Seq(Nat) /\ Len(SNAPSHOTS') = Len(rest) + 1
    BY <1>0, <1>2, <1>3, <1>6, <1>8, PushKnown
  <2>. QED  BY <1>2, <1>8, <2>1
<1>10. Returned
  BY <1>0, <1>3, HookReturned
<1>11. inside' = inside /\ pushed' = pushed
  BY <1>3, <1>10 DEF Returned, inside, pushed
<1>. HIDE DEF inside, pushed
<1>12. mocha'.stage = "beforeEach" =>
          \A i \in 1 .. (mocha'.hook - 1) : Style[inside[i]] = "cache" => i <= k
  BY <1>0, <1>1, <1>2, <1>10 DEF Returned, StackMatches
<1>13. StackMatches'
  BY <1>0, <1>3, <1>9, <1>11, <1>12 DEF StackMatches
<1>. QED  BY <1>9, <1>10, <1>13 DEF StackInv, Returned

\* cacheBeforeEach, first time: the stack gets one more snapshot, of the innermost suite that is
\* initialized, or the initializer throws and the stack is as it was.
LEMMA InitializeKeepsStack ==
    ASSUME StackInv, mocha.stage = "beforeEach", Style[hooked] = "cache", ~initialized[hooked],
           cacheInitializer(hooked)
    PROVE  StackInv'
<1>0. MochaTypeOK /\ RunnerSound /\ StackMatches /\ StackKnown
  BY DEF StackInv
<1>. DEFINE k == Len(SNAPSHOTS)
            h == mocha.hook
<1>1. /\ h \in 1 .. Len(inside) /\ hooked = inside[h] /\ hooked \in Suites
      /\ inside[h] \notin mocha.left /\ ~(h <= k)
  BY <1>0, HookedFacts, InitializedIsPushed DEF RunnerSound
<1>2. SNAPSHOTS \in Seq(Nat) /\ k \in Nat /\ initialized \in [Suites -> BOOLEAN]
  BY <1>0 DEF StackMatches
<1>3. h = k + 1
  <2>1. \A i \in 1 .. (h - 1) : i <= k
    <3>1. \A i \in 1 .. h : Style[inside[i]] = "cache"
      BY <1>0, <1>1, CachedInCached
    <3>. QED  BY <1>0, <1>1, <3>1 DEF StackMatches
  <2>2. h = 1 \/ h - 1 \in 1 .. (h - 1)
    BY <1>1
  <2>. QED  BY <1>1, <1>2, <2>1, <2>2
<1>4. PICK outcome \in outcomes(hooked, mocha.suite) :
        \/ /\ node' = outcome.state.node /\ hookThrows /\ UNCHANGED <<SNAPSHOTS, initialized>>
        \/ /\ node' = evm_snapshot(outcome.state.node)
           /\ SNAPSHOTS' = Append(SNAPSHOTS, outcome.state.node.nextId)
           /\ initialized' = [initialized EXCEPT ![hooked] = TRUE]
           /\ \E n : hookReturns(n)
  BY DEF cacheInitializer, saveSnapshotAsync
<1>. DEFINE made == outcome.state.node
<1>5. SameSnapshots(made, node)
  BY <1>0, <1>1, HookedFacts, InitializerKeepsSnapshots DEF StackKnown
<1>. HIDE DEF made
<1>6. ASSUME node' = made, hookThrows, UNCHANGED <<SNAPSHOTS, initialized>> PROVE StackInv'
  BY <1>0, <1>5, <1>6, HookThrew, SameStack, SameKnown DEF StackInv
<1>7. ASSUME node' = evm_snapshot(made), SNAPSHOTS' = Append(SNAPSHOTS, made.nextId),
             initialized' = [initialized EXCEPT ![hooked] = TRUE], NEW n, hookReturns(n)
      PROVE  StackInv'
  <2>1. IsNode(made) /\ \A i \in 1 .. k : SNAPSHOTS[i] \in DOMAIN made.snapshots
    BY <1>0, <1>5 DEF SameSnapshots, StackKnown
  <2>2. StackKnown' /\ SNAPSHOTS' \in Seq(Nat) /\ Len(SNAPSHOTS') = k + 1
    BY <1>0, <1>2, <1>7, <2>1, PushKnown
  <2>3. Returned
    BY <1>0, <1>7, HookReturned
  <2>4. inside' = inside
    BY <2>3 DEF Returned, inside
  <2>5. initialized' \in [Suites -> BOOLEAN]
    BY <1>2, <1>7
  <2>6. pushed' = pushed \cup {hooked}
    <3>1. mocha'.left = mocha.left /\ hooked \notin mocha.left
      BY <1>1, <2>3 DEF Returned
    <3>2. \A s \in Suites : initialized'[s] <=> (initialized[s] \/ s = hooked)
      BY <1>1, <1>2, <1>7
    <3>. QED  BY <1>1, <3>1, <3>2 DEF pushed
  <2>7. /\ inside \in Seq(Suites) /\ pushed = {inside[i] : i \in 1 .. k}
        /\ \A i \in 1 .. k : Style[inside[i]] = "cache"
    BY <1>0, InsideFacts DEF StackMatches
  <2>. HIDE DEF inside, pushed, hooked
  <2>8. pushed' = {inside[i] : i \in 1 .. (k + 1)}
    <3>1. 1 .. (k + 1) = (1 .. k) \cup {k + 1} /\ hooked = inside[k + 1]
      BY <1>1, <1>2, <1>3
    <3>. HIDE DEF k
    <3>. QED  BY <2>6, <2>7, <3>1
  <2>9. /\ k + 1 <= Len(inside)
        /\ \A i \in 1 .. (k + 1) : Style[inside[i]] = "cache"
    BY <1>1, <1>2, <1>3, <2>7
  <2>10. mocha'.stage = "beforeEach" => \A i \in 1 .. (mocha'.hook - 1) : i <= k + 1
    BY <1>2, <1>3, <2>3 DEF Returned
  <2>11. StackMatches'
    BY <2>2, <2>4, <2>5, <2>8, <2>9, <2>10 DEF StackMatches
  <2>. QED  BY <2>2, <2>3, <2>11 DEF StackInv, Returned
<1>. QED  BY <1>4, <1>6, <1>7 DEF made

\* cacheBeforeEach keeps the stack.
LEMMA CacheBeforeEachKeepsStack == StackInv /\ CacheBeforeEach => StackInv'
BY RestoreKeepsStack, InitializeKeepsStack DEF CacheBeforeEach

\* A step out of the current suite.
StepOut ==
    LET s == mocha.suite
    IN  /\ s \in Suites /\ mocha'.suite = Parent(s) /\ mocha.stage = "suite" /\ mocha'.stage = "suite"
        /\ Len(inside) = Len(inside') + 1 /\ Len(inside') \in Nat /\ inside[Len(inside)] = s
        /\ \A i \in 1 .. Len(inside') : inside'[i] = inside[i] /\ inside[i] # s
        /\ pushed' = pushed \ {s} /\ SameSnapshots(node', node)
        /\ \A i \in 1 .. Len(SNAPSHOTS') : SNAPSHOTS'[i] = SNAPSHOTS[i] /\ i \in 1 .. Len(SNAPSHOTS)

\* Leaving a suite takes its snapshot off the stack if it has one.
LEMMA LeaveSuiteKeepsStack == StackInv /\ LeaveSuite => StackInv' /\ StepOut
<1>. SUFFICES ASSUME StackInv, LeaveSuite PROVE StackInv' /\ StepOut
  OBVIOUS
<1>0. MochaTypeOK /\ RunnerSound /\ StackMatches /\ StackKnown
  BY DEF StackInv
<1>. DEFINE s == mocha.suite
            k == Len(SNAPSHOTS)
            n == Len(inside)
            f == IF mocha.failed = s THEN NoSuite ELSE mocha.failed
<1>1. /\ mocha.stage = "suite" /\ s # Root
      /\ SNAPSHOTS' = IF initialized[s] THEN Front(SNAPSHOTS) ELSE SNAPSHOTS
      /\ mocha' = [mocha EXCEPT !.suite = Parent(s), !.left = mocha.left \cup {s}, !.failed = f]
      /\ node' = sent(node, "after" \in Sends[s]) /\ UNCHANGED initialized
  BY <1>0 DEF LeaveSuite, afterCache, MochaTypeOK
<1>2. /\ s \in Suites /\ n \in Nat /\ n > 0 /\ inside[n] = s /\ inside \in Seq(Suites)
      /\ \A i, j \in 1 .. n : inside[i] = inside[j] => i = j
  BY <1>0, <1>1, InsideFacts
<1>3. f \in Suites \cup {NoSuite} /\ Parent(s) \in Suites \cup {Root}
  BY <1>0, <1>2, ParentFacts DEF MochaTypeOK
<1>. HIDE DEF f
<1>4. /\ MochaTypeOK' /\ mocha'.suite = Parent(s) /\ mocha'.left = mocha.left \cup {s}
      /\ mocha'.failed = f /\ mocha'.stage = "suite"
  BY <1>0, <1>1, <1>2, <1>3 DEF MochaTypeOK
<1>5. inside' = around(Parent(s)) /\ inside = around(s)
  BY <1>4 DEF inside
<1>6. /\ inside' \in Seq(Suites) /\ n = Len(inside') + 1 /\ Len(inside') \in Nat
      /\ \A i \in 1 .. Len(inside') : inside'[i] = inside[i]
  BY <1>2, <1>5, AroundStep
<1>7. RunnerSound'
  <2>1. \A i \in 1 .. Len(inside') : inside'[i] = inside[i] /\ inside[i] # s /\ i \in 1 .. n
    BY <1>2, <1>6
  <2>2. \A i \in 1 .. Len(inside') : inside'[i] \notin mocha'.left
    BY <1>0, <1>4, <2>1 DEF RunnerSound
  <2>3. f # NoSuite => \E i \in 1 .. Len(inside') : f = inside'[i]
    <3>. SUFFICES ASSUME f # NoSuite PROVE \E i \in 1 .. Len(inside') : f = inside'[i]
      OBVIOUS
    <3>1. f = mocha.failed /\ f # s /\ mocha.failed # NoSuite
      BY DEF f
    <3>2. PICK i \in 1 .. n : f = inside[i]
      BY <1>0, <3>1 DEF RunnerSound
    <3>3. i # n
      BY <1>2, <3>1, <3>2
    <3>4. i \in 1 .. Len(inside')
      BY <1>2, <1>6, <3>3
    <3>. QED  BY <1>6, <3>2, <3>4
  <2>. QED  BY <1>4, <2>2, <2>3 DEF RunnerSound
<1>8. /\ SNAPSHOTS \in Seq(Nat) /\ k \in Nat /\ k <= n /\ initialized \in [Suites -> BOOLEAN]
      /\ pushed = {inside[i] : i \in 1 .. k} /\ \A i \in 1 .. k : Style[inside[i]] = "cache"
  BY <1>0 DEF StackMatches
<1>9. initialized[s] <=> k = n
  <2>1. n \in 1 .. n
    BY <1>2
  <2>2. initialized[inside[n]] <=> n <= k
    BY <2>1, InitializedIsPushed
  <2>. QED  BY <1>2, <1>8, <2>2
<1>10. /\ SNAPSHOTS' \in Seq(Nat) /\ Len(SNAPSHOTS') = (IF k = n THEN k - 1 ELSE k)
       /\ \A i \in 1 .. Len(SNAPSHOTS') : SNAPSHOTS'[i] = SNAPSHOTS[i] /\ i \in 1 .. k
  <2>1. CASE k = n
    <3>1. SNAPSHOTS' = Front(SNAPSHOTS)
      BY <1>1, <1>9, <2>1
    <3>. QED  BY <1>2, <1>8, <2>1, <3>1, PopFacts
  <2>2. CASE k # n
    BY <1>1, <1>8, <1>9, <2>2
  <2>. QED  BY <2>1, <2>2
<1>11. pushed' = pushed \ {s}
  BY <1>1, <1>4 DEF pushed
<1>. HIDE DEF pushed, inside
<1>12. pushed' = {inside'[i] : i \in 1 .. Len(SNAPSHOTS')} /\ Len(SNAPSHOTS') <= Len(inside')
  <2>. DEFINE l == Len(SNAPSHOTS')
  <2>1. l \in Nat /\ l <= Len(inside') /\ l <= k /\ l < n
    BY <1>2, <1>6, <1>8, <1>10
  <2>2. \A i \in 1 .. k : inside[i] # s <=> i <= l
    BY <1>2, <1>8, <1>10
  <2>3. {inside[i] : i \in 1 .. k} \ {s} = {inside[i] : i \in 1 .. l}
    BY <1>8, <2>1, <2>2
  <2>4. \A i \in 1 .. l : inside'[i] = inside[i]
    BY <1>6, <2>1
  <2>5. {inside[i] : i \in 1 .. l} = {inside'[i] : i \in 1 .. l}
    BY <2>4
  <2>. QED  BY <1>8, <1>11, <2>1, <2>3, <2>5
<1>13. StackMatches'
  <2>1. \A i \in 1 .. Len(SNAPSHOTS') : Style[inside'[i]] = "cache"
    <3>1. \A i \in 1 .. Len(SNAPSHOTS') : i \in 1 .. Len(inside') /\ i \in 1 .. k
      BY <1>6, <1>10, <1>12
    <3>. QED  BY <1>6, <1>8, <3>1
  <2>. QED  BY <1>1, <1>4, <1>8, <1>10, <1>12, <2>1 DEF StackMatches
<1>14. SameSnapshots(node', node)
  BY <1>0, <1>1, SentKeepsSnapshots DEF StackKnown
<1>17. StackKnown'
  BY <1>0, <1>10, <1>14 DEF StackKnown, SameSnapshots
<1>15. StackInv'
  BY <1>4, <1>7, <1>13, <1>17 DEF StackInv
<1>16. \A i \in 1 .. Len(inside') : inside[i] # s
  BY <1>2, <1>6
<1>. QED  BY <1>1, <1>2, <1>4, <1>6, <1>10, <1>11, <1>14, <1>15, <1>16 DEF StepOut

\* The stack is sound at the start, and every step keeps it so.
LEMMA StackInductive ==
    /\ Init => StackInv
    /\ StackInv /\ [Next]_vars => StackInv'
<1>1. Init => StackInv
  <2>. SUFFICES ASSUME Init PROVE StackInv
    OBVIOUS
  <2>1. /\ node = freshNode /\ SNAPSHOTS = <<>> /\ initialized = [s \in Suites |-> FALSE]
        /\ mocha = notStarted
    BY DEF Init, TestInit
  <2>2. /\ MochaTypeOK /\ mocha.suite = Root /\ mocha.stage = "suite" /\ mocha.failed = NoSuite
    BY <2>1 DEF notStarted, MochaTypeOK
  <2>3. inside = <<>>
    BY <2>2 DEF inside, around
  <2>4. pushed = {}
    BY <2>1 DEF pushed
  <2>5. IsNode(node)
    BY <2>1 DEF IsNode, freshNode
  <2>. HIDE DEF inside, pushed
  <2>6. RunnerSound /\ StackMatches /\ StackKnown
    BY <2>1, <2>2, <2>3, <2>4, <2>5 DEF RunnerSound, StackMatches, StackKnown
  <2>. QED  BY <2>2, <2>6 DEF StackInv
<1>2. StackInv /\ [Next]_vars => StackInv'
  <2>. SUFFICES ASSUME StackInv, [Next]_vars PROVE StackInv'
    OBVIOUS
  <2>1. CASE UNCHANGED testVars
    <3>1. UNCHANGED <<node, SNAPSHOTS, initialized, mocha>>
      BY <2>1 DEF testVars
    <3>. QED  BY <3>1 DEF StackInv, MochaTypeOK, RunnerSound, StackMatches, StackKnown, inside,
                          pushed
  <2>2. CASE TestNext
    BY <2>2, EnterSuiteKeepsStack, StartTestKeepsStack, CacheBeforeEachKeepsStack,
       SnapshotBeforeEachKeepsStack, PlainBeforeEachKeepsStack, NoBeforeEachKeepsStack,
       RunTestKeepsStack, AfterEachKeepsStack, LeaveSuiteKeepsStack DEF TestNext
  <2>. QED  BY <2>1, <2>2 DEF Next, vars
<1>. QED  BY <1>1, <1>2

\* The invariant counts the stack: the suites around are all different.
LEMMA StackCounted == StackInv => SnapshotStackSound
<1>. SUFFICES ASSUME StackInv PROVE SnapshotStackSound
  OBVIOUS
<1>. DEFINE k == Len(SNAPSHOTS)
            f == [i \in 1 .. k |-> inside[i]]
<1>1. /\ SNAPSHOTS \in Seq(Nat) /\ k \in Nat /\ k <= Len(inside)
      /\ pushed = {inside[i] : i \in 1 .. k}
  BY DEF StackInv, StackMatches
<1>2. inside \in Seq(Suites) /\ \A i, j \in 1 .. Len(inside) : inside[i] = inside[j] => i = j
  BY InsideFacts DEF StackInv
<1>. HIDE DEF inside, pushed
<1>3. f \in Bijection(1 .. k, pushed)
  <2>1. f \in [1 .. k -> pushed] /\ \A p \in pushed : \E i \in 1 .. k : f[i] = p
    BY <1>1
  <2>2. \A i, j \in 1 .. k : f[i] = f[j] => i = j
    BY <1>1, <1>2
  <2>. QED  BY <2>1, <2>2 DEF Bijection, Injection, Surjection, IsInjective
<1>4. IsFiniteSet(1 .. k) /\ Cardinality(1 .. k) = k
  <2>. HIDE DEF k
  <2>1. k \in Int /\ 1 \in Int
    BY <1>1
  <2>2. IsFiniteSet(1 .. k) /\ Cardinality(1 .. k) = IF 1 > k THEN 0 ELSE k - 1 + 1
    BY <2>1, FS_Interval
  <2>. QED  BY <1>1, <2>2
<1>5. Cardinality(pushed) = k
  <2>1. ExistsBijection(1 .. k, pushed)
    BY <1>3 DEF ExistsBijection
  <2>. QED  BY <1>4, <2>1, FS_Bijection
<1>6. DOMAIN SNAPSHOTS = 1 .. k
  BY <1>1
<1>7. /\ \A i \in 1 .. k : SNAPSHOTS[i] \in DOMAIN node.snapshots
      /\ \A i, j \in 1 .. k : i < j => SNAPSHOTS[i] < SNAPSHOTS[j]
  BY DEF StackInv, StackKnown
<1>. QED  BY <1>5, <1>6, <1>7 DEF SnapshotStackSound, pushed

\* utils/test/testingUtils.ts: for every nesting of suites, whatever their initializers do and
\* wherever they throw, the global stack holds exactly the snapshots of the suites that are
\* initialized and not left, the node knows each of them, and they were taken in their order.
THEOREM SnapshotStackIsSound == Spec => []SnapshotStackSound
BY StackInductive, StackCounted, PTL DEF Spec
-----------------------------------------------------------------------------
(* The sandboxes. *)

\* The chains that the snapshots of the stack hold.
kept == [i \in 1 .. Len(SNAPSHOTS) |-> node.snapshots[SNAPSHOTS[i]]]

\* The file that the runner is in reverts after each test.
inSnapshotFile == mocha.suite # Root /\ Style[inside[1]] = "snapshot"

fileSnapshot == blockchains[inside[1]].snapshotId

\* No snapshot of the file is open: it is between tests.
betweenTests == mocha.stage = "suite" \/ (mocha.stage = "beforeEach" /\ mocha.hook = 1)

\* The chain that every test of a snapshot file is given; in other files the chain as it is.
home == IF inSnapshotFile /\ ~betweenTests THEN node.snapshots[fileSnapshot] ELSE node.chain

\* Chains are noted for suites that the runner is in.
FirstKept ==
    /\ DOMAIN firstChain = Suites
    /\ \A s \in Suites : (\A i \in 1 .. Len(inside) : s # inside[i]) => firstChain[s] = NoChain

\* The node knows the snapshot that the file is going to revert to.
FileKept ==
    /\ DOMAIN blockchains = Suites
    /\ inSnapshotFile => betweenTests \/ fileSnapshot \in DOMAIN node.snapshots

SandboxInv == FirstKept /\ FileKept

\* A step within a suite that keeps the chains its tests go back to.
SameSandbox ==
    /\ mocha'.suite = mocha.suite /\ Len(SNAPSHOTS') = Len(SNAPSHOTS)
    /\ \A i \in 1 .. Len(SNAPSHOTS) : kept'[i] = kept[i]
    /\ inSnapshotFile' <=> inSnapshotFile
    /\ inSnapshotFile => home' = home

\* What a hook that returns notes: the chain of the first test, when the test is next.
Noted(chain) ==
    \/ mocha'.stage = "beforeEach" /\ mocha.hook < Len(inside) /\ firstChain' = firstChain
    \/ /\ mocha'.stage = "test" /\ mocha.hook = Len(inside)
       /\ firstChain' = [firstChain EXCEPT ![mocha.suite] =
                            IF firstChain[mocha.suite] = NoChain THEN chain
                            ELSE firstChain[mocha.suite]]

\* hookReturns notes the chain it is given.
LEMMA HookNotes ==
    ASSUME StackInv, mocha.stage = "beforeEach", NEW n, hookReturns(n)
    PROVE  Noted(n.chain)
<1>1. /\ MochaTypeOK /\ RunnerSound
      /\ mocha.hook \in 1 .. Len(inside) /\ mocha.suite \in Suites /\ mocha.suite # Root
  BY HookedFacts, NestingAssumption DEF StackInv
<1>2. inside = path[mocha.suite] /\ Len(inside) \in Nat
  BY <1>1, InsideFacts
<1>3. CASE mocha.hook < Len(inside)
  <2>1. mocha' = [mocha EXCEPT !.hook = mocha.hook + 1] /\ firstChain' = firstChain
    BY <1>2, <1>3 DEF hookReturns
  <2>2. mocha'.stage = "beforeEach"
    BY <1>1, <2>1 DEF MochaTypeOK
  <2>. QED  BY <1>3, <2>1, <2>2 DEF Noted
<1>4. CASE ~(mocha.hook < Len(inside))
  <2>1. /\ mocha' = [mocha EXCEPT !.stage = "test"]
        /\ firstChain' = [firstChain EXCEPT ![mocha.suite] =
                            IF firstChain[mocha.suite] = NoChain THEN n.chain
                            ELSE firstChain[mocha.suite]]
    BY <1>2, <1>4 DEF hookReturns
  <2>2. mocha'.stage = "test"
    BY <1>1, <2>1 DEF MochaTypeOK
  <2>3. mocha.hook = Len(inside)
    BY <1>1, <1>2, <1>4
  <2>. QED  BY <2>1, <2>2, <2>3 DEF Noted
<1>. QED  BY <1>3, <1>4

\* Noting a chain for the suite that the runner is in.
LEMMA FirstNoted ==
    ASSUME MochaTypeOK, mocha.suite # Root, FirstKept, mocha'.suite = mocha.suite,
           NEW chain, Noted(chain)
    PROVE  /\ FirstKept'
           /\ mocha'.stage = "beforeEach" => firstChain' = firstChain
           /\ mocha'.stage = "test" =>
                firstChain'[mocha.suite] = IF firstChain[mocha.suite] = NoChain THEN chain
                                           ELSE firstChain[mocha.suite]
<1>. DEFINE s == mocha.suite
<1>1. s \in Suites /\ inside[Len(inside)] = s /\ Len(inside) \in 1 .. Len(inside)
  BY InsideFacts
<1>2. inside' = inside
  BY DEF inside
<1>3. CASE mocha'.stage = "beforeEach" /\ firstChain' = firstChain
  BY <1>2, <1>3 DEF FirstKept
<1>4. CASE /\ mocha'.stage = "test"
           /\ firstChain' = [firstChain EXCEPT ![s] =
                                IF firstChain[s] = NoChain THEN chain ELSE firstChain[s]]
  <2>. HIDE DEF s, inside
  <2>1. DOMAIN firstChain = Suites
    BY DEF FirstKept
  <2>2. /\ DOMAIN firstChain' = Suites /\ \A t \in Suites : t # s => firstChain'[t] = firstChain[t]
        /\ firstChain'[s] = IF firstChain[s] = NoChain THEN chain ELSE firstChain[s]
    BY <1>1, <1>4, <2>1
  <2>3. FirstKept'
    BY <1>1, <1>2, <2>2 DEF FirstKept
  <2>. QED  BY <1>4, <2>2, <2>3 DEF s
<1>. QED  BY <1>3, <1>4 DEF Noted

\* A step that notes nothing.
LEMMA FirstUntouched ==
    ASSUME FirstKept, mocha'.suite = mocha.suite, UNCHANGED firstChain
    PROVE  FirstKept'
<1>1. inside' = inside
  BY DEF inside
<1>. HIDE DEF inside
<1>. QED  BY <1>1 DEF FirstKept

\* The stack after a push on what remained of it: l snapshots as before, and one of chain.
PushedOn(l, chain) ==
    /\ Len(SNAPSHOTS') = l + 1 /\ l <= Len(SNAPSHOTS)
    /\ node'.chain = chain /\ kept'[l + 1] = chain
    /\ \A i \in 1 .. l : kept'[i] = kept[i]

\* What a push does to the chains of the stack.
LEMMA PushKeeps ==
    ASSUME StackKnown, SNAPSHOTS \in Seq(Nat), NEW n, IsNode(n), NEW q \in Seq(Nat),
           Len(q) <= Len(SNAPSHOTS),
           \A i \in 1 .. Len(q) : /\ q[i] = SNAPSHOTS[i] /\ q[i] \in DOMAIN n.snapshots
                                  /\ n.snapshots[q[i]] = node.snapshots[q[i]],
           node' = evm_snapshot(n), SNAPSHOTS' = Append(q, n.nextId)
    PROVE  PushedOn(Len(q), n.chain)
<1>1. /\ Len(SNAPSHOTS') = Len(q) + 1 /\ SNAPSHOTS'[Len(SNAPSHOTS')] = n.nextId
      /\ \A i \in 1 .. Len(q) : SNAPSHOTS'[i] = q[i]
  BY PushKnown
<1>2. /\ node'.chain = n.chain /\ node'.snapshots[n.nextId] = n.chain
      /\ \A i \in DOMAIN n.snapshots : node'.snapshots[i] = n.snapshots[i]
  BY SnapshotTaken
<1>3. kept'[Len(q) + 1] = n.chain
  BY <1>1, <1>2 DEF kept
<1>4. \A i \in 1 .. Len(q) : kept'[i] = kept[i]
  BY <1>1, <1>2 DEF kept
<1>. QED  BY <1>1, <1>2, <1>3, <1>4 DEF PushedOn

\* cacheBeforeEach, later: the chain is the one on top, and the stack holds the same chains.
LEMMA RestoreKeepsChains ==
    ASSUME StackInv, mocha.stage = "beforeEach", Style[hooked] = "cache", initialized[hooked],
           cacheRestore(hooked)
    PROVE  Len(SNAPSHOTS) \in Nat \ {0} /\ PushedOn(Len(SNAPSHOTS) - 1, kept[Len(SNAPSHOTS)])
<1>0. MochaTypeOK /\ RunnerSound /\ StackMatches /\ StackKnown
  BY DEF StackInv
<1>. DEFINE k == Len(SNAPSHOTS)
            reverted == revertByIdAsync(node, Last(SNAPSHOTS))
            rest == Front(SNAPSHOTS)
<1>1. mocha.hook \in 1 .. Len(inside) /\ mocha.hook <= k
  BY <1>0, HookedFacts, InitializedIsPushed
<1>2. SNAPSHOTS \in Seq(Nat) /\ k \in Nat /\ k > 0
  BY <1>0, <1>1 DEF StackMatches
<1>3. node' = evm_snapshot(reverted) /\ SNAPSHOTS' = Append(rest, reverted.nextId)
  BY DEF cacheRestore, saveSnapshotAsync
<1>4. /\ rest \in Seq(Nat) /\ Len(rest) = k - 1
      /\ \A i \in 1 .. (k - 1) : rest[i] = SNAPSHOTS[i]
      /\ Last(SNAPSHOTS) = SNAPSHOTS[k]
  BY <1>2, PopFacts
<1>. HIDE DEF rest
<1>5. SNAPSHOTS[k] \in DOMAIN node.snapshots /\ IsNode(node)
  BY <1>0, <1>2 DEF StackKnown
<1>6. /\ IsNode(reverted) /\ reverted.chain = node.snapshots[SNAPSHOTS[k]]
      /\ DOMAIN reverted.snapshots = {i \in DOMAIN node.snapshots : i < SNAPSHOTS[k]}
      /\ \A i \in DOMAIN node.snapshots :
            i < SNAPSHOTS[k] => reverted.snapshots[i] = node.snapshots[i]
  BY <1>4, <1>5, Reverted DEF revertByIdAsync
<1>7. \A i \in 1 .. (k - 1) : SNAPSHOTS[i] \in DOMAIN node.snapshots /\ SNAPSHOTS[i] < SNAPSHOTS[k]
  BY <1>0, <1>2 DEF StackKnown
<1>. HIDE DEF reverted
<1>8. \A i \in 1 .. Len(rest) : /\ rest[i] = SNAPSHOTS[i] /\ rest[i] \in DOMAIN reverted.snapshots
                                /\ reverted.snapshots[rest[i]] = node.snapshots[rest[i]]
  BY <1>2, <1>4, <1>6, <1>7
<1>9. PushedOn(Len(rest), reverted.chain)
  <2>1. Len(rest) <= Len(SNAPSHOTS)
    BY <1>2, <1>4
  <2>. QED  BY <1>0, <1>2, <1>3, <1>4, <1>6, <1>8, <2>1, PushKeeps
<1>10. reverted.chain = kept[k]
  BY <1>2, <1>6 DEF kept
<1>. QED  BY <1>2, <1>4, <1>9, <1>10

\* Snapshots that stay as they are hold the same chains.
LEMMA SameChains ==
    ASSUME UNCHANGED SNAPSHOTS, node'.snapshots = node.snapshots
    PROVE  kept' = kept
BY DEF kept

\* A step within a suite that touches no snapshot, while that of the file, if any, is open.
LEMMA StaysInSandbox ==
    ASSUME FileKept, mocha'.suite = mocha.suite, UNCHANGED <<SNAPSHOTS, blockchains>>,
           node'.snapshots = node.snapshots, inSnapshotFile => ~betweenTests /\ ~betweenTests'
    PROVE  SameSandbox /\ FileKept'
<1>1. inside' = inside /\ kept' = kept
  BY SameChains DEF inside
<1>2. (inSnapshotFile' <=> inSnapshotFile) /\ fileSnapshot' = fileSnapshot
  BY <1>1 DEF inSnapshotFile, fileSnapshot
<1>. HIDE DEF inside, kept, inSnapshotFile, fileSnapshot, betweenTests
<1>3. inSnapshotFile => home' = home
  BY <1>2 DEF home
<1>. QED  BY <1>1, <1>2, <1>3 DEF SameSandbox, FileKept

\* No cached hook runs in a snapshot file.
LEMMA CachedFile ==
    ASSUME StackInv, mocha.stage = "beforeEach", Style[hooked] = "cache"
    PROVE  ~inSnapshotFile
<1>1. MochaTypeOK /\ mocha.hook \in 1 .. Len(inside) /\ hooked = inside[mocha.hook]
  BY HookedFacts DEF StackInv
<1>2. Style[inside[1]] = "cache"
  BY <1>1, CachedInCached, InsideFacts
<1>. QED  BY <1>2 DEF inSnapshotFile

\* Where a hook is called: the suites on the stack come before one that has no snapshot there, and
\* the file's snapshot has been taken before any hook but its own.
LEMMA HookPlace ==
    ASSUME StackInv, mocha.stage = "beforeEach"
    PROVE  /\ mocha.suite \in Suites /\ mocha.suite # Root
           /\ mocha.hook \in 1 .. Len(inside) /\ hooked = inside[mocha.hook] /\ hooked \in Suites
           /\ Len(inside) \in Nat /\ Len(SNAPSHOTS) \in Nat /\ Len(SNAPSHOTS) <= Len(inside)
           /\ Style[hooked] # "cache" => mocha.hook > Len(SNAPSHOTS)
           /\ Style[hooked] = "cache" /\ ~initialized[hooked] => mocha.hook = Len(SNAPSHOTS) + 1
           /\ Style[hooked] = "cache" /\ initialized[hooked] => mocha.hook <= Len(SNAPSHOTS)
           /\ inSnapshotFile /\ Style[hooked] # "snapshot" => mocha.hook > 1 /\ ~betweenTests
<1>. DEFINE h == mocha.hook
            k == Len(SNAPSHOTS)
<1>1. /\ MochaTypeOK /\ h \in 1 .. Len(inside) /\ hooked = inside[h] /\ hooked \in Suites
      /\ mocha.suite \in Suites /\ mocha.suite # Root /\ Len(inside) \in Nat
  BY HookedFacts, InsideFacts, NestingAssumption DEF StackInv
<1>2. /\ k \in Nat /\ k <= Len(inside) /\ \A i \in 1 .. k : Style[inside[i]] = "cache"
      /\ \A i \in 1 .. (h - 1) : Style[inside[i]] = "cache" => i <= k
  BY DEF StackInv, StackMatches
<1>3. initialized[hooked] <=> h <= k
  BY <1>1, InitializedIsPushed
<1>4. Style[hooked] # "cache" => h > k
  BY <1>1, <1>2
<1>5. Style[hooked] = "cache" /\ ~initialized[hooked] => h = k + 1
  <2>. SUFFICES ASSUME Style[hooked] = "cache", ~initialized[hooked] PROVE h = k + 1
    OBVIOUS
  <2>1. \A i \in 1 .. h : Style[inside[i]] = "cache"
    BY <1>1, CachedInCached
  <2>2. \A i \in 1 .. (h - 1) : i <= k
    BY <1>1, <1>2, <2>1
  <2>3. h = 1 \/ h - 1 \in 1 .. (h - 1)
    BY <1>1
  <2>. QED  BY <1>1, <1>2, <1>3, <2>2, <2>3
<1>6. inSnapshotFile /\ Style[hooked] # "snapshot" => h > 1 /\ ~betweenTests
  BY <1>1 DEF inSnapshotFile, betweenTests
<1>. QED  BY <1>1, <1>2, <1>3, <1>4, <1>5, <1>6

\* A hook that is not the file's own, when it is done with the snapshots as they were.
LEMMA HookInSandbox ==
    ASSUME StackInv, SandboxInv, mocha.stage = "beforeEach", Style[hooked] # "snapshot",
           UNCHANGED <<SNAPSHOTS, blockchains>>, node'.snapshots = node.snapshots,
           \/ hookReturns(node')
           \/ hookThrows
    PROVE  SameSandbox /\ SandboxInv'
<1>0. MochaTypeOK /\ RunnerSound /\ FirstKept /\ FileKept
  BY DEF StackInv, SandboxInv
<1>1. /\ mocha.suite # Root /\ mocha.hook \in Nat
      /\ inSnapshotFile => mocha.hook > 1 /\ ~betweenTests
  BY HookPlace DEF StackInv, MochaTypeOK
<1>2. CASE hookReturns(node')
  <2>1. Returned /\ Noted(node'.chain)
    BY <1>0, <1>2, HookReturned, HookNotes
  <2>2. mocha'.suite = mocha.suite /\ (inSnapshotFile => ~betweenTests')
    BY <1>1, <2>1 DEF Returned, betweenTests
  <2>3. FirstKept'
    BY <1>0, <1>1, <2>1, <2>2, FirstNoted
  <2>. QED  BY <1>0, <1>1, <2>2, <2>3, StaysInSandbox DEF SandboxInv
<1>3. CASE hookThrows
  <2>1. mocha'.suite = mocha.suite /\ mocha'.stage = "afterEach" /\ UNCHANGED firstChain
    BY <1>0, <1>3, HookThrew DEF hookThrows
  <2>2. ~betweenTests'
    BY <2>1 DEF betweenTests
  <2>3. FirstKept'
    BY <1>0, <2>1, FirstUntouched
  <2>. QED  BY <1>0, <1>1, <2>1, <2>2, <2>3, StaysInSandbox DEF SandboxInv
<1>. QED  BY <1>2, <1>3

\* cacheBeforeEach, later: the chain is the one on top of the stack, which stays as it is.
LEMMA RestoreKeepsSandbox ==
    ASSUME StackInv, SandboxInv, mocha.stage = "beforeEach", Style[hooked] = "cache",
           initialized[hooked], cacheRestore(hooked)
    PROVE  /\ SandboxInv' /\ SameSandbox /\ Returned /\ Noted(node'.chain)
           /\ Len(SNAPSHOTS) \in Nat \ {0} /\ node'.chain = kept[Len(SNAPSHOTS)]
<1>. DEFINE k == Len(SNAPSHOTS)
<1>0. MochaTypeOK /\ RunnerSound /\ FirstKept /\ FileKept
  BY DEF StackInv, SandboxInv
<1>1. k \in Nat \ {0} /\ PushedOn(k - 1, kept[k])
  BY RestoreKeepsChains
<1>2. Len(SNAPSHOTS') = k /\ node'.chain = kept[k] /\ \A i \in 1 .. k : kept'[i] = kept[i]
  <2>. HIDE DEF kept
  <2>. QED  BY <1>1 DEF PushedOn
<1>3. PICK n : hookReturns(n) /\ n = node'
  BY DEF cacheRestore
<1>4. Returned /\ Noted(node'.chain) /\ mocha.suite # Root /\ hooked \in Suites
  BY <1>0, <1>3, HookReturned, HookNotes, HookPlace
<1>5. mocha'.suite = mocha.suite /\ DOMAIN blockchains' = Suites
  BY <1>0, <1>4 DEF Returned, cacheRestore, FileKept
<1>6. ~inSnapshotFile /\ (inSnapshotFile' <=> inSnapshotFile)
  BY <1>5, CachedFile DEF inSnapshotFile, inside
<1>7. FirstKept'
  BY <1>0, <1>4, <1>5, FirstNoted
<1>. HIDE DEF kept, inSnapshotFile
<1>8. SameSandbox /\ FileKept'
  BY <1>2, <1>5, <1>6 DEF SameSandbox, FileKept
<1>. QED  BY <1>1, <1>2, <1>4, <1>7, <1>8 DEF SandboxInv

\* cacheBeforeEach, first time: what the initializer made is on the chain, and when it did not
\* throw on top of the stack.
LEMMA InitializeKeepsSandbox ==
    ASSUME StackInv, SandboxInv, mocha.stage = "beforeEach", Style[hooked] = "cache",
           ~initialized[hooked], cacheInitializer(hooked)
    PROVE  /\ SandboxInv'
           /\ \E outcome \in outcomes(hooked, mocha.suite) :
                /\ node'.chain = outcome.state.node.chain
                /\ handles' = [handles EXCEPT ![hooked] = outcome.state.handles]
                /\ \/ /\ hookThrows /\ SameSandbox /\ node' = outcome.state.node
                      /\ UNCHANGED <<SNAPSHOTS, initialized, blockchains>>
                   \/ /\ ~outcome.thrown /\ Returned /\ Noted(node'.chain)
                      /\ node' = evm_snapshot(outcome.state.node)
                      /\ initialized' = [initialized EXCEPT ![hooked] = TRUE]
                      /\ PushedOn(Len(SNAPSHOTS), node'.chain)
<1>. DEFINE k == Len(SNAPSHOTS)
<1>0. MochaTypeOK /\ RunnerSound /\ FirstKept /\ FileKept /\ StackKnown /\ IsNode(node)
      /\ SNAPSHOTS \in Seq(Nat)
  BY DEF StackInv, SandboxInv, StackKnown, StackMatches
<1>1. /\ hooked \in Suites /\ mocha.suite \in Suites /\ mocha.suite # Root /\ k \in Nat
      /\ ~inSnapshotFile
  BY HookPlace, CachedFile
<1>2. PICK outcome \in outcomes(hooked, mocha.suite) :
          /\ handles' = [handles EXCEPT ![hooked] = outcome.state.handles]
          /\ \/ /\ node' = outcome.state.node /\ hookThrows
                /\ UNCHANGED <<SNAPSHOTS, initialized, blockchains>>
             \/ /\ ~outcome.thrown
                /\ node' = evm_snapshot(outcome.state.node)
                /\ SNAPSHOTS' = Append(SNAPSHOTS, outcome.state.node.nextId)
                /\ initialized' = [initialized EXCEPT ![hooked] = TRUE]
                /\ \E b : blockchains' = [blockchains EXCEPT ![hooked] = b]
                /\ hookReturns(node')
  BY DEF cacheInitializer, saveSnapshotAsync
<1>. DEFINE made == outcome.state.node
<1>3. SameSnapshots(made, node)
  BY <1>0, <1>1, InitializerKeepsSnapshots
<1>4. CASE /\ node' = made /\ hookThrows
           /\ UNCHANGED <<SNAPSHOTS, initialized, blockchains>>
  <2>1. SameSandbox /\ SandboxInv'
    BY <1>3, <1>4, HookInSandbox DEF SameSnapshots
  <2>. QED  BY <1>2, <1>4, <2>1
<1>5. CASE /\ ~outcome.thrown /\ node' = evm_snapshot(made)
           /\ SNAPSHOTS' = Append(SNAPSHOTS, made.nextId)
           /\ initialized' = [initialized EXCEPT ![hooked] = TRUE]
           /\ \E b : blockchains' = [blockchains EXCEPT ![hooked] = b]
           /\ hookReturns(node')
  <2>. HIDE DEF made
  <2>1. PushedOn(k, made.chain)
    <3>. DEFINE q == SNAPSHOTS
    <3>1. /\ q \in Seq(Nat) /\ Len(q) = k /\ Len(q) <= Len(SNAPSHOTS) /\ IsNode(made)
          /\ \A i \in 1 .. Len(q) : /\ q[i] = SNAPSHOTS[i] /\ q[i] \in DOMAIN made.snapshots
                                    /\ made.snapshots[q[i]] = node.snapshots[q[i]]
          /\ SNAPSHOTS' = Append(q, made.nextId)
      BY <1>0, <1>1, <1>3, <1>5 DEF SameSnapshots, StackKnown
    <3>. HIDE DEF q
    <3>2. PushedOn(Len(q), made.chain)
      BY <1>0, <1>5, <3>1, PushKeeps
    <3>. QED  BY <3>1, <3>2
  <2>2. node'.chain = made.chain
    BY <2>1 DEF PushedOn
  <2>3. Returned /\ Noted(node'.chain)
    BY <1>0, <1>5, HookReturned, HookNotes
  <2>4. mocha'.suite = mocha.suite /\ DOMAIN blockchains' = Suites
    BY <1>0, <1>5, <2>3 DEF Returned, FileKept
  <2>5. ~inSnapshotFile'
    BY <1>1, <2>4 DEF inSnapshotFile, inside
  <2>6. SandboxInv'
    <3>1. FirstKept'
      BY <1>0, <1>1, <2>3, <2>4, FirstNoted
    <3>. QED  BY <2>4, <2>5, <3>1 DEF SandboxInv, FileKept
  <2>. HIDE DEF hooked
  <2>. QED  BY <1>2, <1>5, <2>1, <2>2, <2>3, <2>6 DEF made
<1>. QED  BY <1>2, <1>4, <1>5

\* A snapshot file's hook is the first.
LEMMA SnapshotHookIsFirst ==
    ASSUME StackInv, NEW h \in 1 .. Len(inside), Style[inside[h]] = "snapshot"
    PROVE  h = 1
<1>1. MochaTypeOK /\ mocha.suite # Root
  BY InsideFacts DEF StackInv
<1>2. mocha.suite \in Suites /\ inside = path[mocha.suite] /\ inside \in Seq(Suites)
  BY <1>1, InsideFacts
<1>. DEFINE c == inside[h]
<1>3. c \in Suites /\ Len(path[c]) = h
  BY <1>2, PathFacts DEF PathOK
<1>4. Parent(c) = Root
  BY <1>3, SuitesAssumption
<1>. HIDE DEF c
<1>5. path[c] = <<c>>
  BY <1>3, <1>4, PathUnfolds
<1>. QED  BY <1>3, <1>5

\* addSnapshotBeforeRestoreAfterEach: the snapshot is of the chain that the file's tests are given.
LEMMA SnapshotBeforeEachKeepsSandbox ==
    ASSUME StackInv, SandboxInv, SnapshotBeforeEach
    PROVE  /\ SandboxInv' /\ SameSandbox /\ Returned /\ Noted(node'.chain)
           /\ inSnapshotFile /\ mocha.hook = 1 /\ Len(SNAPSHOTS) = 0
           /\ node'.chain = node.chain /\ home = node.chain
<1>0. MochaTypeOK /\ RunnerSound /\ FirstKept /\ FileKept /\ IsNode(node)
  BY DEF StackInv, SandboxInv, StackKnown
<1>1. /\ mocha.stage = "beforeEach" /\ Style[hooked] = "snapshot"
      /\ node' = evm_snapshot(node) /\ hookReturns(node')
      /\ blockchains' = [blockchains EXCEPT ![hooked] = [snapshotId |-> node.nextId]]
      /\ UNCHANGED <<SNAPSHOTS, initialized>>
  BY DEF SnapshotBeforeEach, saveSnapshotAsync
<1>2. /\ mocha.hook \in 1 .. Len(inside) /\ hooked = inside[mocha.hook] /\ hooked \in Suites
      /\ mocha.suite \in Suites /\ mocha.suite # Root
  BY <1>1, HookPlace
<1>3. mocha.hook = 1 /\ hooked = inside[1]
  BY <1>1, <1>2, SnapshotHookIsFirst
<1>4. inSnapshotFile /\ betweenTests /\ home = node.chain
  BY <1>1, <1>2, <1>3 DEF inSnapshotFile, betweenTests, home
<1>5. Len(SNAPSHOTS) = 0
  BY <1>1, <1>2, <1>3, SnapshotFileHasNoStack
<1>6. Returned /\ Noted(node'.chain)
  BY <1>0, <1>1, HookReturned, HookNotes
<1>7. /\ node'.chain = node.chain /\ node'.snapshots[node.nextId] = node.chain
      /\ node.nextId \in DOMAIN node'.snapshots
  BY <1>0, <1>1, SnapshotTaken
<1>8. /\ inside' = inside /\ mocha'.suite = mocha.suite /\ inSnapshotFile' /\ ~betweenTests'
  BY <1>3, <1>4, <1>6 DEF Returned, inside, inSnapshotFile, betweenTests
<1>9. fileSnapshot' = node.nextId /\ DOMAIN blockchains' = Suites
  BY <1>0, <1>1, <1>2, <1>3, <1>8 DEF fileSnapshot, FileKept
<1>10. home' = node.chain
  BY <1>7, <1>8, <1>9 DEF home
<1>11. FirstKept'
  BY <1>0, <1>2, <1>6, <1>8, FirstNoted
<1>12. FileKept'
  BY <1>7, <1>9 DEF FileKept
<1>13. Len(SNAPSHOTS') = Len(SNAPSHOTS) /\ \A i \in 1 .. Len(SNAPSHOTS) : kept'[i] = kept[i]
  BY <1>1, <1>5
<1>. HIDE DEF home, inSnapshotFile, kept
<1>. QED  BY <1>3, <1>4, <1>5, <1>6, <1>7, <1>8, <1>10, <1>11, <1>12, <1>13 DEF SandboxInv, SameSandbox

\* A plain hook is in no way of the sandboxes around it, wherever it throws.
LEMMA PlainBeforeEachKeepsSandbox ==
    ASSUME StackInv, SandboxInv, PlainBeforeEach
    PROVE  SandboxInv' /\ SameSandbox /\ SameSnapshots(node', node)
<1>1. /\ mocha.stage = "beforeEach" /\ Style[hooked] = "plain"
      /\ UNCHANGED <<SNAPSHOTS, initialized, blockchains>>
  BY DEF PlainBeforeEach
<1>2. PICK outcome \in outcomes(hooked, mocha.suite) :
          /\ node' = outcome.state.node
          /\ hookThrows \/ hookReturns(node')
  BY DEF PlainBeforeEach
<1>3. hooked \in Suites /\ mocha.suite \in Suites /\ IsNode(node)
  BY <1>1, HookPlace DEF StackInv, StackKnown
<1>4. SameSnapshots(node', node)
  BY <1>2, <1>3, InitializerKeepsSnapshots
<1>. QED  BY <1>1, <1>2, <1>4, HookInSandbox DEF SameSnapshots

\* A suite without a beforeEach hook is passed.
LEMMA NoBeforeEachKeepsSandbox ==
    ASSUME StackInv, SandboxInv, NoBeforeEach
    PROVE  SandboxInv' /\ SameSandbox
<1>1. /\ mocha.stage = "beforeEach" /\ Style[hooked] = "before" /\ hookReturns(node)
      /\ UNCHANGED <<node, SNAPSHOTS, initialized, blockchains>>
  BY DEF NoBeforeEach
<1>. QED  BY <1>1, HookInSandbox

\* Starting a test touches nothing.
LEMMA StartTestKeepsSandbox ==
    ASSUME StackInv, SandboxInv, StartTest
    PROVE  SandboxInv' /\ SameSandbox /\ home' = home
<1>1. /\ mocha.stage = "suite" /\ mocha' = [mocha EXCEPT !.stage = "beforeEach", !.hook = 1]
      /\ UNCHANGED <<node, SNAPSHOTS, initialized, blockchains, firstChain>>
  BY DEF StartTest
<1>2. /\ mocha'.suite = mocha.suite /\ mocha'.stage = "beforeEach" /\ mocha'.hook = 1
  BY <1>1 DEF StackInv, MochaTypeOK
<1>3. inside' = inside /\ kept' = kept
  BY <1>1, <1>2 DEF inside, kept
<1>4. /\ (inSnapshotFile' <=> inSnapshotFile) /\ betweenTests /\ betweenTests'
  BY <1>1, <1>2, <1>3 DEF inSnapshotFile, betweenTests
<1>. HIDE DEF kept, inside, betweenTests, inSnapshotFile
<1>5. home = node.chain /\ home' = node'.chain
  BY <1>4 DEF home
<1>6. FirstKept' /\ FileKept'
  BY <1>1, <1>2, <1>4, FirstUntouched DEF SandboxInv, FileKept
<1>. QED  BY <1>1, <1>2, <1>3, <1>4, <1>5, <1>6 DEF SandboxInv, SameSandbox

\* A test may do anything to the chain: the sandboxes do not see it.
LEMMA RunTestKeepsSandbox ==
    ASSUME StackInv, SandboxInv, RunTest
    PROVE  SandboxInv' /\ SameSandbox /\ SameSnapshots(node', node)
<1>0. MochaTypeOK /\ RunnerSound /\ IsNode(node)
  BY DEF StackInv, StackKnown
<1>1. /\ mocha.stage = "test" /\ UNCHANGED <<SNAPSHOTS, initialized, blockchains, firstChain>>
      /\ mocha' = [mocha EXCEPT !.stage = "afterEach", !.ran[mocha.suite] = @ + 1]
  BY DEF RunTest
<1>2. /\ mocha'.suite = mocha.suite /\ mocha'.stage = "afterEach"
  BY <1>0, <1>1 DEF MochaTypeOK
<1>3. SameSnapshots(node', node)
  BY <1>0, TransactionsKeepSnapshots
     DEF RunTest, increaseTimeAsync, setNextBlockTimestamp, waitBlocksAsync
<1>4. ~betweenTests /\ ~betweenTests'
  BY <1>1, <1>2 DEF betweenTests
<1>5. FirstKept'
  BY <1>1, <1>2, FirstUntouched DEF SandboxInv
<1>. QED  BY <1>1, <1>2, <1>3, <1>4, <1>5, StaysInSandbox DEF SandboxInv, SameSnapshots

\* restoreAfterEach takes the file back to what its tests are given, whatever the other hooks sent.
LEMMA AfterEachKeepsSandbox ==
    ASSUME StackInv, SandboxInv, AfterEach
    PROVE  /\ SandboxInv' /\ SameSandbox
           /\ ~inSnapshotFile => node' = leftNode /\ SameSnapshots(node', node)
<1>0. MochaTypeOK /\ RunnerSound /\ IsNode(node) /\ IsNode(leftNode) /\ FirstKept /\ FileKept
      /\ SameSnapshots(leftNode, node)
  BY SentKeepsSnapshots DEF StackInv, StackKnown, SandboxInv, leftNode, SameSnapshots
<1>1. /\ mocha.stage = "afterEach" /\ UNCHANGED <<SNAPSHOTS, initialized, blockchains, firstChain>>
      /\ mocha' = [mocha EXCEPT !.stage = "suite"]
      /\ node' = IF Style[Head(path[mocha.suite])] = "snapshot"
                 THEN revertAsync(blockchains[Head(path[mocha.suite])], leftNode) ELSE leftNode
  BY DEF AfterEach, leftNode
<1>2. /\ mocha'.suite = mocha.suite /\ mocha'.stage = "suite"
  BY <1>0, <1>1 DEF MochaTypeOK
<1>3. mocha.suite # Root
  BY <1>0, <1>1 DEF RunnerSound
<1>4. Head(path[mocha.suite]) = inside[1]
  BY <1>0, <1>3, InsideFacts
<1>5. (inSnapshotFile' <=> inSnapshotFile) /\ ~betweenTests /\ betweenTests'
  BY <1>1, <1>2 DEF inSnapshotFile, betweenTests, inside
<1>6. FirstKept'
  BY <1>0, <1>1, <1>2, FirstUntouched
<1>7. FileKept'
  BY <1>0, <1>1, <1>5 DEF FileKept
<1>8. CASE inSnapshotFile
  <2>1. Len(SNAPSHOTS) = 0
    BY <1>8, SnapshotFileHasNoStack DEF inSnapshotFile
  <2>2. fileSnapshot \in DOMAIN leftNode.snapshots
        /\ leftNode.snapshots = node.snapshots
    BY <1>0, <1>5, <1>8 DEF FileKept, SameSnapshots
  <2>3. node' = evm_revert(leftNode, fileSnapshot)
    BY <1>1, <1>4, <1>8 DEF inSnapshotFile, fileSnapshot, revertAsync
  <2>4. node'.chain = home /\ home' = node'.chain
    BY <1>0, <1>5, <1>8, <2>2, <2>3, Reverted DEF home
  <2>. HIDE DEF home, inSnapshotFile, kept
  <2>. QED  BY <1>1, <1>2, <1>5, <1>6, <1>7, <1>8, <2>1, <2>4 DEF SandboxInv, SameSandbox
<1>9. CASE ~inSnapshotFile
  <2>1. node' = leftNode
    BY <1>1, <1>3, <1>4, <1>9 DEF inSnapshotFile
  <2>2. kept' = kept
    BY <1>0, <1>1, <2>1, SameChains DEF SameSnapshots
  <2>. HIDE DEF home, inSnapshotFile, kept
  <2>. QED  BY <1>0, <1>1, <1>2, <1>5, <1>6, <1>7, <1>9, <2>1, <2>2 DEF SandboxInv, SameSandbox
<1>. QED  BY <1>8, <1>9

\* A suite that is entered has not run a test.
LEMMA EnterSuiteKeepsSandbox ==
    ASSUME StackInv, SandboxInv, EnterSuite
    PROVE  SandboxInv' /\ kept' = kept /\ home = node.chain /\ home' = node'.chain
           /\ firstChain'[mocha'.suite] = NoChain
<1>0. MochaTypeOK /\ UNCHANGED <<blockchains, firstChain>> /\ StepIn
  BY EnterSuiteKeepsStack DEF StackInv, EnterSuite
<1>. DEFINE s == mocha'.suite
<1>1. /\ s \in Suites /\ mocha.stage = "suite" /\ mocha'.stage = "suite"
      /\ Len(inside') = Len(inside) + 1 /\ inside'[Len(inside')] = s
      /\ \A i \in 1 .. Len(inside) : inside'[i] = inside[i]
      /\ SameSnapshots(node', node) /\ UNCHANGED SNAPSHOTS
  BY <1>0 DEF StepIn
<1>2. kept' = kept
  BY <1>1, SameChains DEF SameSnapshots
<1>3. betweenTests /\ betweenTests'
  BY <1>1 DEF betweenTests
<1>4. home = node.chain /\ home' = node'.chain
  BY <1>3 DEF home
<1>5. MochaTypeOK' /\ Len(inside) \in Nat
  BY EnterSuiteKeepsStack, <1>0, InsideFacts DEF StackInv
<1>6. \A i \in 1 .. Len(inside) : s # inside[i]
  <2>1. \A i, j \in 1 .. Len(inside') : inside'[i] = inside'[j] => i = j
    BY <1>1, AroundDistinct DEF inside
  <2>. HIDE DEF s, inside
  <2>. QED  BY <1>1, <1>5, <2>1
<1>7. FirstKept'
  <2>. HIDE DEF inside, s
  <2>1. \A t \in Suites : (\A i \in 1 .. Len(inside') : t # inside'[i]) =>
                            \A i \in 1 .. Len(inside) : t # inside[i]
    BY <1>1, <1>5
  <2>. QED  BY <1>0, <2>1 DEF FirstKept, SandboxInv
<1>8. FileKept'
  BY <1>0, <1>3 DEF FileKept, SandboxInv
<1>9. firstChain'[s] = NoChain
  BY <1>0, <1>1, <1>6 DEF SandboxInv, FirstKept
<1>. QED  BY <1>2, <1>4, <1>7, <1>8, <1>9 DEF SandboxInv

\* A suite that is left has no first test any more.
LEMMA LeaveSuiteKeepsSandbox ==
    ASSUME StackInv, SandboxInv, LeaveSuite
    PROVE  /\ SandboxInv' /\ home = node.chain /\ home' = node'.chain
           /\ \A i \in 1 .. Len(SNAPSHOTS') : kept'[i] = kept[i]
<1>. DEFINE s == mocha.suite
<1>0. /\ MochaTypeOK /\ UNCHANGED blockchains /\ StepOut
      /\ firstChain' = [firstChain EXCEPT ![s] = NoChain]
  BY LeaveSuiteKeepsStack DEF StackInv, LeaveSuite
<1>1. /\ s \in Suites /\ mocha.stage = "suite" /\ mocha'.stage = "suite"
      /\ Len(inside) = Len(inside') + 1 /\ Len(inside') \in Nat /\ inside[Len(inside)] = s
      /\ \A i \in 1 .. Len(inside') : inside'[i] = inside[i]
      /\ SameSnapshots(node', node)
      /\ \A i \in 1 .. Len(SNAPSHOTS') : SNAPSHOTS'[i] = SNAPSHOTS[i] /\ i \in 1 .. Len(SNAPSHOTS)
  BY <1>0 DEF StepOut
<1>2. \A i \in 1 .. Len(SNAPSHOTS') : kept'[i] = kept[i]
  BY <1>1 DEF kept, SameSnapshots
<1>3. betweenTests /\ betweenTests'
  BY <1>1 DEF betweenTests
<1>4. home = node.chain /\ home' = node'.chain
  BY <1>3 DEF home
<1>5. /\ DOMAIN firstChain' = Suites /\ firstChain'[s] = NoChain
      /\ \A t \in Suites : t # s => firstChain'[t] = firstChain[t]
  BY <1>0, <1>1 DEF SandboxInv, FirstKept
<1>6. FirstKept'
  <2>. HIDE DEF s, inside
  <2>. SUFFICES ASSUME NEW t \in Suites, \A i \in 1 .. Len(inside') : t # inside'[i], t # s
                PROVE  firstChain[t] = NoChain
    BY <1>5 DEF FirstKept
  <2>1. \A i \in 1 .. Len(inside) : t # inside[i]
    <3>. TAKE i \in 1 .. Len(inside)
    <3>1. CASE i = Len(inside)
      BY <1>1, <3>1
    <3>2. CASE i # Len(inside)
      <4>1. i \in 1 .. Len(inside')
        BY <1>1, <3>2
      <4>. QED  BY <1>1, <4>1
    <3>. QED  BY <3>1, <3>2
  <2>. QED  BY <2>1 DEF SandboxInv, FirstKept
<1>7. FileKept'
  BY <1>0, <1>3 DEF FileKept, SandboxInv
<1>. QED  BY <1>2, <1>4, <1>6, <1>7 DEF SandboxInv

\* The sandboxes hold at the start, and every step keeps them.
LEMMA SandboxInductive ==
    /\ Init => SandboxInv
    /\ StackInv /\ SandboxInv /\ [Next]_vars => SandboxInv'
<1>1. Init => SandboxInv
  <2>. SUFFICES ASSUME Init PROVE SandboxInv
    OBVIOUS
  <2>1. /\ mocha = notStarted /\ firstChain = [s \in Suites |-> NoChain]
        /\ blockchains = [s \in Suites |-> newBlockchain]
    BY DEF Init, TestInit
  <2>2. mocha.suite = Root
    BY <2>1 DEF notStarted
  <2>. QED  BY <2>1, <2>2 DEF SandboxInv, FirstKept, FileKept, inSnapshotFile
<1>2. StackInv /\ SandboxInv /\ [Next]_vars => SandboxInv'
  <2>. SUFFICES ASSUME StackInv, SandboxInv, [Next]_vars PROVE SandboxInv'
    OBVIOUS
  <2>1. CASE UNCHANGED testVars
    <3>1. UNCHANGED <<node, blockchains, mocha, firstChain>>
      BY <2>1 DEF testVars
    <3>2. /\ inside' = inside /\ (inSnapshotFile' <=> inSnapshotFile)
          /\ (betweenTests' <=> betweenTests) /\ fileSnapshot' = fileSnapshot
      BY <3>1 DEF inside, inSnapshotFile, betweenTests, fileSnapshot
    <3>. HIDE DEF inside, inSnapshotFile, betweenTests, fileSnapshot
    <3>. QED  BY <3>1, <3>2 DEF SandboxInv, FirstKept, FileKept
  <2>2. CASE CacheBeforeEach
    BY <2>2, RestoreKeepsSandbox, InitializeKeepsSandbox DEF CacheBeforeEach
  <2>3. CASE TestNext
    BY <2>2, <2>3, EnterSuiteKeepsSandbox, StartTestKeepsSandbox, SnapshotBeforeEachKeepsSandbox,
       PlainBeforeEachKeepsSandbox, NoBeforeEachKeepsSandbox, RunTestKeepsSandbox,
       AfterEachKeepsSandbox, LeaveSuiteKeepsSandbox DEF TestNext
  <2>. QED  BY <2>1, <2>3 DEF Next, vars
<1>. QED  BY <1>1, <1>2
-----------------------------------------------------------------------------
(* What an initializer sees, and what it makes of it. *)

\* A set of numbers up to n has a greatest one.
LEMMA GreatestNumber ==
    ASSUME NEW n \in Nat, NEW T \in SUBSET (1 .. n), T # {}
    PROVE  Max(T) \in T /\ \A t \in T : t <= Max(T)
<1>. DEFINE D == {n - t : t \in T}
<1>1. D \in SUBSET Nat /\ D # {}
  OBVIOUS
<1>2. PICK d \in D : \A e \in D : d <= e
  BY <1>1, LeastNumber
<1>3. PICK m \in T : d = n - m
  BY <1>2
<1>4. ASSUME NEW t \in T PROVE m >= t
  <2>1. n - t \in D
    OBVIOUS
  <2>2. n - m <= n - t
    BY <1>2, <1>3, <2>1
  <2>3. m \in Nat /\ t \in Nat
    OBVIOUS
  <2>. HIDE DEF D
  <2>. QED  BY <2>2, <2>3
<1>5. \E x \in T : \A y \in T : x >= y
  BY <1>4
<1>6. Max(T) \in T /\ \A y \in T : Max(T) >= y
  BY <1>5 DEF Max
<1>. HIDE DEF D
<1>. QED  BY <1>6

\* The suites around s that hold a handle of a kind.
holdersAround(held, s, kind) ==
    {i \in 1 .. (Len(path[s]) - 1) : kind \in DOMAIN held[path[s][i]]}

\* What a handle in scope is: the suite's own, or that of the innermost suite around that has one.
InScope(held, s, mine, kind) ==
    LET known == scope(held, s, mine)
        H == holdersAround(held, s, kind)
    IN  IF kind \in DOMAIN mine
        THEN kind \in DOMAIN known /\ known[kind] = mine[kind]
        ELSE /\ kind \in DOMAIN known <=> H # {}
             /\ H # {} => /\ Max(H) \in H
                          /\ known[kind] = held[path[s][Max(H)]][kind]

\* scope is what InScope says.
LEMMA ScopeFacts ==
    ASSUME NEW s \in Suites, NEW held, DOMAIN held = Suites, NEW mine, NEW kind
    PROVE  InScope(held, s, mine, kind)
<1>. DEFINE n == Len(path[s])
            own(i) == [held EXCEPT ![s] = mine][path[s][i]]
            holders == {i \in DOMAIN path[s] : kind \in DOMAIN own(i)}
            known == scope(held, s, mine)
            H == holdersAround(held, s, kind)
<1>1. /\ path[s] \in Seq(Suites) /\ n \in Nat /\ n > 0 /\ path[s][n] = s
      /\ \A i \in 1 .. n : Len(path[path[s][i]]) = i
  BY PathFacts DEF PathOK
<1>2. DOMAIN path[s] = 1 .. n
  BY <1>1
<1>3. own(n) = mine /\ \A i \in 1 .. (n - 1) : own(i) = held[path[s][i]]
  <2>1. \A i \in 1 .. (n - 1) : path[s][i] # s /\ path[s][i] \in Suites
    BY <1>1
  <2>. QED  BY <1>1, <2>1
<1>4. /\ kind \in DOMAIN known <=> holders # {}
      /\ holders # {} => known[kind] = own(Max(holders))[kind]
  <2>1. known = [k \in UNION {DOMAIN own(i) : i \in DOMAIN path[s]} |->
                    own(Max({i \in DOMAIN path[s] : k \in DOMAIN own(i)}))[k]]
    BY DEF scope
  <2>. HIDE DEF own, known
  <2>2. kind \in DOMAIN known <=> \E i \in DOMAIN path[s] : kind \in DOMAIN own(i)
    BY <2>1
  <2>. QED  BY <2>1, <2>2
<1>. HIDE DEF own, known
<1>5. holders \in SUBSET (1 .. n)
  BY <1>2
<1>6. CASE kind \in DOMAIN mine
  <2>1. n \in holders
    BY <1>1, <1>2, <1>3, <1>6
  <2>2. Max(holders) = n
    <3>1. Max(holders) \in holders /\ \A t \in holders : t <= Max(holders)
      BY <1>1, <1>5, <2>1, GreatestNumber
    <3>2. n <= Max(holders) /\ Max(holders) \in 1 .. n
      BY <1>5, <2>1, <3>1
    <3>. HIDE DEF holders
    <3>. QED  BY <1>1, <3>2
  <2>. QED  BY <1>3, <1>4, <1>6, <2>1, <2>2 DEF InScope, known
<1>7. CASE kind \notin DOMAIN mine
  <2>1. holders = H
    <3>1. \A i \in 1 .. n : kind \in DOMAIN own(i) => i \in 1 .. (n - 1)
      BY <1>1, <1>3, <1>7
    <3>2. \A i \in 1 .. (n - 1) : i \in 1 .. n
      BY <1>1
    <3>. QED  BY <1>2, <1>3, <3>1, <3>2 DEF holdersAround
  <2>. HIDE DEF holders, H
  <2>2. H # {} => Max(H) \in H
    BY <1>1, <1>5, <2>1, GreatestNumber
  <2>3. \A i \in H : own(i) = held[path[s][i]]
    BY <1>3 DEF H, holdersAround
  <2>4. H # {} => known[kind] = held[path[s][Max(H)]][kind]
    BY <1>4, <2>1, <2>2, <2>3
  <2>. QED  BY <1>4, <1>7, <2>1, <2>2, <2>4 DEF InScope, known, H
<1>. QED  BY <1>6, <1>7

\* Two handles maps give a kind the same address, or neither has one.
Agree(h1, h2, kind) ==
    /\ kind \in DOMAIN h1 <=> kind \in DOMAIN h2
    /\ kind \in DOMAIN h1 => h1[kind] = h2[kind]

Alike(h1, h2) == \A kind : Agree(h1, h2, kind)

\* The suites around s hold the same handles.
HoldSame(s, held1, held2) ==
    \A i \in 1 .. (Len(path[s]) - 1) : Alike(held1[path[s][i]], held2[path[s][i]])

\* A kind is seen alike where the suites around agree, and the suite's own variables do.
LEMMA SameAround ==
    ASSUME NEW s \in Suites, NEW held1, NEW held2, DOMAIN held1 = Suites, DOMAIN held2 = Suites,
           HoldSame(s, held1, held2),
           NEW mine1, NEW mine2, NEW kind, Agree(mine1, mine2, kind)
    PROVE  Agree(scope(held1, s, mine1), scope(held2, s, mine2), kind)
<1>. USE DEF Agree, Alike
<1>1. InScope(held1, s, mine1, kind) /\ InScope(held2, s, mine2, kind)
  BY ScopeFacts
<1>. DEFINE H1 == holdersAround(held1, s, kind)
            H2 == holdersAround(held2, s, kind)
<1>2. H1 = H2 /\ \A i \in H1 : held1[path[s][i]][kind] = held2[path[s][i]][kind]
  BY DEF holdersAround, HoldSame
<1>. HIDE DEF H1, H2
<1>3. CASE kind \in DOMAIN mine1
  BY <1>1, <1>3 DEF InScope
<1>4. CASE kind \notin DOMAIN mine1
  BY <1>1, <1>2, <1>4 DEF InScope, H1, H2
<1>. QED  BY <1>3, <1>4

\* A chain, whatever its contracts, clock and logs.
IsChain(ch) ==
    ch \in [contracts : Seq(Range(ch.contracts)), blocks : {ch.blocks}, time : {ch.time},
            logs : {ch.logs}]

\* Contracts are only ever added to a chain.
Extends(later, ch) ==
    \A i \in DOMAIN ch.contracts : /\ i \in DOMAIN later.contracts
                                   /\ later.contracts[i] = ch.contracts[i]

\* The chain after a transaction that deploys c.
minedChain(ch, c, logs) == [ch EXCEPT !.contracts = Append(@, c), !.blocks = @ + 1, !.logs = logs]

\* A transaction works on the chain of the node.
LEMMA DeployChain ==
    ASSUME NEW n, IsNode(n), NEW c, NEW logs
    PROVE  evm_deploy(n, c, logs).chain = minedChain(n.chain, c, logs)
<1>. DEFINE ch1 == [n.chain EXCEPT !.contracts = Append(n.chain.contracts, c)]
            ch2 == [ch1 EXCEPT !.blocks = ch1.blocks + 1]
            ch3 == [ch2 EXCEPT !.logs = logs]
            a == [n EXCEPT !.chain = ch1]
            b == [a EXCEPT !.chain = [a.chain EXCEPT !.blocks = a.chain.blocks + 1]]
            d == [b EXCEPT !.chain = [b.chain EXCEPT !.logs = logs]]
<1>1. evm_deploy(n, c, logs) = d
  BY DEF evm_deploy
<1>2. IsNode(a) /\ a.chain = ch1
  BY ChainOnly DEF SameSnapshots
<1>. HIDE DEF a, ch1
<1>3. IsNode(b) /\ b.chain = ch2
  BY <1>2, ChainOnly DEF SameSnapshots
<1>. HIDE DEF b, ch2
<1>4. d.chain = ch3
  BY <1>3, ChainOnly
<1>. HIDE DEF d
<1>. QED  BY <1>1, <1>4 DEF minedChain, ch1, ch2

\* A chain with another clock, number of blocks or log.
withTime(ch, v) == [ch EXCEPT !.time = v]
withBlocks(ch, v) == [ch EXCEPT !.blocks = v]
withLogs(ch, v) == [ch EXCEPT !.logs = v]

\* The chain after t blocks without a log.
withEmptyBlocks(ch, t) == withLogs(withBlocks(ch, ch.blocks + t), <<>>)

\* Mining works on the chain of the node as well.
LEMMA MineChain ==
    ASSUME NEW n, IsNode(n), NEW t
    PROVE  evm_mine(n, t).chain = withEmptyBlocks(n.chain, t)
<1>. DEFINE high == withBlocks(n.chain, n.chain.blocks + t)
            a == [n EXCEPT !.chain = high]
            b == [a EXCEPT !.chain = withLogs(a.chain, <<>>)]
<1>1. evm_mine(n, t) = b
  BY DEF evm_mine, withBlocks, withLogs
<1>2. IsNode(a) /\ a.chain = high
  BY ChainOnly DEF SameSnapshots
<1>. HIDE DEF a, high
<1>3. b.chain = withLogs(high, <<>>)
  BY <1>2, ChainOnly
<1>. HIDE DEF b
<1>. QED  BY <1>1, <1>3 DEF withEmptyBlocks, high

\* The contract is added at the next address, and the block holds the logs.
LEMMA MinedChain ==
    ASSUME NEW ch, IsChain(ch), NEW c, NEW logs
    PROVE  /\ IsChain(minedChain(ch, c, logs)) /\ Extends(minedChain(ch, c, logs), ch)
           /\ minedChain(ch, c, logs).contracts = Append(ch.contracts, c)
           /\ minedChain(ch, c, logs).logs = logs
           /\ Len(ch.contracts) + 1 \in DOMAIN minedChain(ch, c, logs).contracts
           /\ minedChain(ch, c, logs).contracts[Len(ch.contracts) + 1] = c
<1>. DEFINE q == ch.contracts
            p == Append(q, c)
            m == [ch EXCEPT !.contracts = p, !.blocks = ch.blocks + 1, !.logs = logs]
<1>1. ch \in [contracts : {q}, blocks : {ch.blocks}, time : {ch.time}, logs : {ch.logs}]
      /\ q \in Seq(Range(q))
  BY DEF IsChain
<1>2. minedChain(ch, c, logs) = m
  <2>. DEFINE e1 == [ch EXCEPT !.contracts = p]
              e2 == [e1 EXCEPT !.blocks = e1.blocks + 1]
  <2>1. minedChain(ch, c, logs) = [e2 EXCEPT !.logs = logs]
    BY DEF minedChain
  <2>2. e1.blocks = ch.blocks
    BY <1>1
  <2>. QED  BY <2>1, <2>2
<1>3. p \in Seq(Range(q) \cup {c}) /\ Len(p) = Len(q) + 1 /\ p[Len(q) + 1] = c /\ Len(q) \in Nat
      /\ \A i \in 1 .. Len(q) : p[i] = q[i]
  BY <1>1
<1>. HIDE DEF p
<1>4. DOMAIN q = 1 .. Len(q) /\ DOMAIN p = 1 .. (Len(q) + 1)
  BY <1>1, <1>3
<1>. HIDE DEF q
<1>5. p \in Seq(Range(p))
  <2>1. \A i \in 1 .. Len(p) : p[i] \in Range(p)
    BY <1>3, <1>4 DEF Range
  <2>2. p = [i \in 1 .. Len(p) |-> p[i]] /\ Len(p) \in Nat
    BY <1>3
  <2>. QED  BY <2>1, <2>2
<1>. DEFINE next == ch.blocks + 1
<1>. HIDE DEF next
<1>6. /\ m.contracts = p /\ m.logs = logs /\ m.blocks = next /\ m.time = ch.time
      /\ m \in [contracts : {p}, blocks : {next}, time : {ch.time}, logs : {logs}]
  BY <1>1 DEF next
<1>. HIDE DEF m
<1>7. IsChain(m)
  <2>1. m \in [contracts : Seq(Range(m.contracts)), blocks : {m.blocks}, time : {m.time},
               logs : {m.logs}]
    BY <1>5, <1>6
  <2>. QED  BY <2>1 DEF IsChain
<1>8. Extends(m, ch)
  BY <1>3, <1>4, <1>6 DEF Extends, q
<1>9. Len(ch.contracts) + 1 \in DOMAIN m.contracts /\ m.contracts[Len(ch.contracts) + 1] = c
  <2>1. Len(q) + 1 \in DOMAIN p
    BY <1>3, <1>4
  <2>. QED  BY <1>3, <1>6, <2>1 DEF q
<1>. QED  BY <1>2, <1>6, <1>7, <1>8, <1>9 DEF p, q

\* deployX looks at the handles it needs and at no other.
LEMMA SameDeployed ==
    ASSUME NEW c, NEW h1, NEW h2, \A kind \in needs(c) : h1[kind] = h2[kind]
    PROVE  deployed(c, h1) = deployed(c, h2)
<1>. DEFINE roles == deployer[c]
            args(h) == [i \in DOMAIN roles |->
                          IF roles[i] \in DOMAIN repositoryRoles THEN h[repositoryRoles[roles[i]]] ELSE 0]
            libs(h) == [library \in linkedLibraries(c) |-> h[library]]
<1>. HIDE DEF roles
<1>1. args(h1) = args(h2)
  <2>1. \A i \in DOMAIN roles : roles[i] \in DOMAIN repositoryRoles =>
            repositoryRoles[roles[i]] \in needs(c)
    BY DEF needs, roles
  <2>. QED  BY <2>1
<1>2. libs(h1) = libs(h2)
  <2>1. linkedLibraries(c) \subseteq needs(c)
    BY DEF needs
  <2>. QED  BY <2>1
<1>. HIDE DEF args, libs
<1>3. deployed(c, h1) = [kind |-> c, args |-> args(h1), libraries |-> libs(h1)]
      /\ deployed(c, h2) = [kind |-> c, args |-> args(h2), libraries |-> libs(h2)]
  BY DEF deployed, args, libs, roles
<1>. QED  BY <1>1, <1>2, <1>3

\* The handles after a step that gives its kind the address v, if it assigns one.
Assigned(h, what, v, after) == IF writes(what) = {} THEN after = h ELSE after = put(h, what.kind, v)

\* A step does the same to two equal chains when it reads the same handles.
LEMMA StepSame ==
    ASSUME NEW s, NEW held1, NEW held2, NEW a, NEW b, IsState(a), IsState(b),
           a.node.chain = b.node.chain, NEW what \in Step,
           \A kind \in reads(what) :
                Agree(scope(held1, s, a.handles), scope(held2, s, b.handles), kind),
           NEW r1 \in step(held1, s, a, what), NEW r2 \in step(held2, s, b, what)
    PROVE  /\ r1.node.chain = r2.node.chain
           /\ \E v : /\ Assigned(a.handles, what, v, r1.handles)
                     /\ Assigned(b.handles, what, v, r2.handles)
<1>. DEFINE k1 == scope(held1, s, a.handles)
            k2 == scope(held2, s, b.handles)
            ch == a.node.chain
            kind == what.kind
<1>1. StepResult(held1, s, a, what, r1) /\ StepResult(held2, s, b, what, r2)
  BY StepResults
<1>2. IsNode(a.node) /\ IsNode(b.node)
  BY DEF IsState
<1>3. \A c, logs : evm_deploy(a.node, c, logs).chain = minedChain(ch, c, logs)
                   /\ evm_deploy(b.node, c, logs).chain = minedChain(ch, c, logs)
  BY <1>2, DeployChain
<1>4. nextAddress(a.node) = nextAddress(b.node)
  BY DEF nextAddress
<1>5. what.call \in {"deploy", "get", "createSetToken", "transact"}
  BY DEF Step
<1>6. \A k \in reads(what) : Agree(k1, k2, k)
  OBVIOUS
<1>. SUFFICES /\ r1.node.chain = r2.node.chain
              /\ \/ what.call = "transact" /\ r1.handles = a.handles /\ r2.handles = b.handles
                 \/ /\ what.call # "transact"
                    /\ \E v : /\ r1.handles = put(a.handles, what.kind, v)
                              /\ r2.handles = put(b.handles, what.kind, v)
  <2>1. writes(what) = {} <=> what.call = "transact"
    BY DEF writes
  <2>. QED  BY <2>1 DEF Assigned
<1>7. CASE what.call = "deploy"
  <2>1. /\ needs(kind) \subseteq DOMAIN k1
        /\ r1 = [node |-> evm_deploy(a.node, deployed(kind, k1), <<>>),
                 handles |-> put(a.handles, kind, nextAddress(a.node))]
        /\ r2 = [node |-> evm_deploy(b.node, deployed(kind, k2), <<>>),
                 handles |-> put(b.handles, kind, nextAddress(b.node))]
    BY <1>1, <1>7 DEF StepResult
  <2>. HIDE DEF k1, k2, kind
  <2>2. reads(what) = needs(kind)
    BY <1>7 DEF reads, kind
  <2>3. deployed(kind, k1) = deployed(kind, k2)
    BY <1>6, <2>1, <2>2, SameDeployed DEF Agree
  <2>4. r1.node = evm_deploy(a.node, deployed(kind, k1), <<>>)
        /\ r2.node = evm_deploy(b.node, deployed(kind, k2), <<>>)
        /\ r1.handles = put(a.handles, kind, nextAddress(a.node))
        /\ r2.handles = put(b.handles, kind, nextAddress(b.node))
    BY <2>1
  <2>. QED  BY <1>3, <1>4, <1>7, <2>3, <2>4 DEF kind
<1>8. CASE what.call = "get"
  <2>1. /\ kind \in DOMAIN k1 /\ kind \in DOMAIN k2
        /\ r1 = [node |-> a.node, handles |-> put(a.handles, kind, k1[kind])]
        /\ r2 = [node |-> b.node, handles |-> put(b.handles, kind, k2[kind])]
    BY <1>1, <1>8 DEF StepResult
  <2>. HIDE DEF k1, k2, kind
  <2>2. reads(what) = {kind}
    BY <1>8 DEF reads, kind
  <2>3. k1[kind] = k2[kind]
    BY <1>6, <2>1, <2>2 DEF Agree
  <2>4. /\ r1.node = a.node /\ r2.node = b.node
        /\ r1.handles = put(a.handles, kind, k1[kind])
        /\ r2.handles = put(b.handles, kind, k2[kind])
    BY <2>1
  <2>. QED  BY <1>8, <2>3, <2>4 DEF kind
<1>9. CASE what.call = "createSetToken"
  <2>1. kind = "SetToken" /\ reads(what) = {"SetTokenCreator"}
    BY <1>9 DEF Step, reads
  <2>. DEFINE token(c) == [kind |-> "SetToken", args |-> <<0, 0, 0, storedController(c), 0, 0, 0>>,
                           libraries |-> <<>>]
              made(n, c) == evm_deploy(n, token(c), <<nextAddress(n)>>)
  <2>2. /\ "SetTokenCreator" \in DOMAIN k1
        /\ \E c : /\ c = a.node.chain.contracts[k1.SetTokenCreator]
                  /\ r1 = [node |-> made(a.node, c),
                           handles |-> put(a.handles, "SetToken",
                                           getCreatedSetTokenAddress(made(a.node, c).chain))]
    BY <1>1, <1>9 DEF StepResult
  <2>3. \E c : /\ c = b.node.chain.contracts[k2.SetTokenCreator]
               /\ r2 = [node |-> made(b.node, c),
                        handles |-> put(b.handles, "SetToken",
                                        getCreatedSetTokenAddress(made(b.node, c).chain))]
    BY <1>1, <1>9 DEF StepResult
  <2>4. k1.SetTokenCreator = k2.SetTokenCreator
    <3>. HIDE DEF k1, k2
    <3>. QED  BY <1>6, <2>1, <2>2 DEF Agree
  <2>. DEFINE c == a.node.chain.contracts[k1.SetTokenCreator]
  <2>5. c = b.node.chain.contracts[k2.SetTokenCreator]
    BY <2>4
  <2>6. made(a.node, c).chain = made(b.node, c).chain
    <3>. HIDE DEF token, c
    <3>. QED  BY <1>3, <1>4
  <2>. HIDE DEF made, c, k1, k2
  <2>7. /\ r1 = [node |-> made(a.node, c),
                 handles |-> put(a.handles, "SetToken",
                                 getCreatedSetTokenAddress(made(a.node, c).chain))]
        /\ r2 = [node |-> made(b.node, c),
                 handles |-> put(b.handles, "SetToken",
                                 getCreatedSetTokenAddress(made(b.node, c).chain))]
    BY <2>2, <2>3, <2>5 DEF c
  <2>8. /\ r1.node = made(a.node, c) /\ r2.node = made(b.node, c)
        /\ r1.handles = put(a.handles, "SetToken",
                            getCreatedSetTokenAddress(made(a.node, c).chain))
        /\ r2.handles = put(b.handles, "SetToken",
                            getCreatedSetTokenAddress(made(b.node, c).chain))
    BY <2>7
  <2>. QED  BY <1>9, <2>1, <2>6, <2>8 DEF kind
<1>10. CASE what.call = "transact"
  <2>1. /\ r1 = [node |-> evm_mine(a.node, 1), handles |-> a.handles]
        /\ r2 = [node |-> evm_mine(b.node, 1), handles |-> b.handles]
    BY <1>1, <1>10 DEF StepResult
  <2>2. evm_mine(a.node, 1).chain = evm_mine(b.node, 1).chain
    BY <1>2, MineChain
  <2>. QED  BY <1>10, <2>1, <2>2
<1>. QED  BY <1>5, <1>7, <1>8, <1>9, <1>10

\* The kinds that the steps of a plan after the first n assign.
later(plan, n) == UNION {writes(plan[j]) : j \in {i \in 1 .. Len(plan) : i > n}}

\* Before the first step all is to be assigned, after the last one nothing.
LEMMA LaterFacts ==
    ASSUME NEW plan \in Seq(Step)
    PROVE  /\ later(plan, 0) = assigns(plan) /\ later(plan, Len(plan)) = {}
           /\ \A n \in 0 .. (Len(plan) - 1) :
                /\ later(plan, n) = writes(plan[n + 1]) \cup later(plan, n + 1)
                /\ writes(plan[n + 1]) \subseteq assigns(plan)
<1>1. Len(plan) \in Nat /\ DOMAIN plan = 1 .. Len(plan)
  OBVIOUS
<1>2. {i \in 1 .. Len(plan) : i > 0} = DOMAIN plan /\ {i \in 1 .. Len(plan) : i > Len(plan)} = {}
  BY <1>1
<1>3. later(plan, 0) = assigns(plan) /\ later(plan, Len(plan)) = {}
  BY <1>2 DEF later, assigns
<1>4. ASSUME NEW n \in 0 .. (Len(plan) - 1)
      PROVE  /\ later(plan, n) = writes(plan[n + 1]) \cup later(plan, n + 1)
             /\ writes(plan[n + 1]) \subseteq assigns(plan)
  <2>1. /\ n + 1 \in DOMAIN plan
        /\ {i \in 1 .. Len(plan) : i > n} = {n + 1} \cup {i \in 1 .. Len(plan) : i > n + 1}
    BY <1>1
  <2>. QED  BY <2>1 DEF later, assigns
<1>. QED  BY <1>3, <1>4

\* The same assignment on both sides.
LEMMA AssignedAgree ==
    ASSUME NEW what \in Step, NEW h1, NEW h2, NEW v, NEW r1, NEW r2, Assigned(h1, what, v, r1),
           Assigned(h2, what, v, r2), NEW kind, kind \in writes(what) \/ Agree(h1, h2, kind)
    PROVE  Agree(r1, r2, kind)
<1>1. CASE writes(what) = {}
  BY <1>1 DEF Assigned
<1>2. CASE writes(what) # {}
  <2>. DEFINE key == what.kind
  <2>1. r1 = put(h1, key, v) /\ r2 = put(h2, key, v) /\ (kind = key \/ Agree(h1, h2, kind))
    BY <1>2 DEF Assigned, writes
  <2>. HIDE DEF key
  <2>. QED  BY <2>1 DEF put, Agree
<1>. QED  BY <1>1, <1>2

\* An initializer that reads no variable of its own before it has assigned it.
AssignsFirst(plan) == \A i, j \in DOMAIN plan : i <= j => writes(plan[j]) \cap reads(plan[i]) = {}

\* What such a step reads has been assigned.
LEMMA ReadsAssigned ==
    ASSUME NEW plan \in Seq(Step), AssignsFirst(plan), NEW n \in 0 .. (Len(plan) - 1),
           NEW kind \in reads(plan[n + 1])
    PROVE  kind \notin later(plan, n)
<1>. SUFFICES ASSUME kind \in later(plan, n) PROVE FALSE
  OBVIOUS
<1>1. PICK j \in {i \in 1 .. Len(plan) : i > n} : kind \in writes(plan[j])
  BY DEF later
<1>2. j \in DOMAIN plan /\ n + 1 \in DOMAIN plan /\ n + 1 <= j
  BY <1>1
<1>. QED  BY <1>1, <1>2 DEF AssignsFirst

\* Two runs of a plain initializer that see the same variables around them do the same to equal
\* chains, whatever its own variables still held: it assigns before it reads.
LEMMA RunSame ==
    ASSUME NEW s \in Suites, NEW held1, NEW held2, DOMAIN held1 = Suites, DOMAIN held2 = Suites,
           HoldSame(s, held1, held2), NEW plan \in Seq(Step), AssignsFirst(plan),
           NEW start1, NEW start2, IsState(start1), IsState(start2),
           start1.node.chain = start2.node.chain,
           DOMAIN start1.handles \subseteq assigns(plan),
           DOMAIN start2.handles \subseteq assigns(plan),
           NEW r1 \in steps(held1, s, plan, start1)[Len(plan)],
           NEW r2 \in steps(held2, s, plan, start2)[Len(plan)]
    PROVE  r1.node.chain = r2.node.chain /\ Alike(r1.handles, r2.handles)
<1>. DEFINE reached1 == steps(held1, s, plan, start1)
            reached2 == steps(held2, s, plan, start2)
            Same(a, b, n) == /\ IsState(a) /\ IsState(b) /\ a.node.chain = b.node.chain
                             /\ \A kind : kind \notin later(plan, n) => Agree(a.handles, b.handles, kind)
            T == {n \in Nat : n <= Len(plan) =>
                    \A a \in reached1[n], b \in reached2[n] : Same(a, b, n)}
<1>1. /\ reached1[0] = {start1} /\ reached2[0] = {start2}
      /\ \A n \in 1 .. Len(plan) :
            /\ reached1[n] = UNION {step(held1, s, state, plan[n]) : state \in reached1[n - 1]}
            /\ reached2[n] = UNION {step(held2, s, state, plan[n]) : state \in reached2[n - 1]}
  <2>1. StepByStep(held1, s, plan, start1) /\ StepByStep(held2, s, plan, start2)
    BY StepsUnfold
  <2>. QED  BY <2>1 DEF StepByStep
<1>2. r1 \in reached1[Len(plan)] /\ r2 \in reached2[Len(plan)] /\ Len(plan) \in Nat
  OBVIOUS
<1>. HIDE DEF reached1, reached2
<1>3. 0 \in T
  <2>1. Same(start1, start2, 0)
    BY LaterFacts DEF Agree
  <2>. HIDE DEF Same
  <2>. QED  BY <1>1, <2>1
<1>4. ASSUME NEW n \in Nat, n \in T PROVE n + 1 \in T
  <2>. SUFFICES ASSUME n + 1 <= Len(plan), NEW r \in reached1[n + 1], NEW q \in reached2[n + 1]
                PROVE  Same(r, q, n + 1)
    OBVIOUS
  <2>. DEFINE what == plan[n + 1]
  <2>1. n + 1 \in 1 .. Len(plan) /\ (n + 1) - 1 = n /\ what \in Step /\ n <= Len(plan)
        /\ n \in 0 .. (Len(plan) - 1)
    BY <1>2
  <2>2. PICK a \in reached1[n] : r \in step(held1, s, a, what)
    BY <1>1, <2>1
  <2>3. PICK b \in reached2[n] : q \in step(held2, s, b, what)
    BY <1>1, <2>1
  <2>4. Same(a, b, n)
    BY <1>4, <2>1
  <2>5. \A kind \in reads(what) : kind \notin later(plan, n)
    BY <2>1, ReadsAssigned
  <2>6. \A kind \in reads(what) : Agree(scope(held1, s, a.handles), scope(held2, s, b.handles), kind)
    <3>. TAKE kind \in reads(what)
    <3>1. Agree(a.handles, b.handles, kind)
      BY <2>4, <2>5
    <3>. QED  BY <3>1, SameAround
  <2>7. r.node.chain = q.node.chain
        /\ \E v : Assigned(a.handles, what, v, r.handles) /\ Assigned(b.handles, what, v, q.handles)
    <3>. HIDE DEF what
    <3>. QED  BY <2>1, <2>2, <2>3, <2>4, <2>6, StepSame
  <2>8. IsState(r) /\ IsState(q)
    BY <2>1, <2>2, <2>3, <2>4, StepKeepsSnapshots
  <2>9. PICK v : Assigned(a.handles, what, v, r.handles) /\ Assigned(b.handles, what, v, q.handles)
    BY <2>7
  <2>10. later(plan, n) = writes(what) \cup later(plan, n + 1)
    BY <2>1, LaterFacts
  <2>11. ASSUME NEW kind, kind \notin later(plan, n + 1) PROVE Agree(r.handles, q.handles, kind)
    <3>1. kind \in writes(what) \/ Agree(a.handles, b.handles, kind)
      BY <2>4, <2>10, <2>11
    <3>. HIDE DEF what
    <3>. QED  BY <2>1, <2>9, <3>1, AssignedAgree
  <2>. QED  BY <2>7, <2>8, <2>11
<1>. HIDE DEF T
<1>5. Nat \subseteq T
  BY <1>3, <1>4, NumberInduction
<1>6. Same(r1, r2, Len(plan))
  <2>1. Len(plan) \in T /\ Len(plan) <= Len(plan)
    BY <1>2, <1>5
  <2>. QED  BY <1>2, <2>1 DEF T
<1>7. later(plan, Len(plan)) = {}
  BY LaterFacts
<1>. QED  BY <1>6, <1>7 DEF Alike

\* A handle is the address of a contract of its kind on the chain.
Live(h, ch, kind) == h[kind] \in DOMAIN ch.contracts /\ ch.contracts[h[kind]].kind = kind

AllLive(h, ch) == \A kind \in DOMAIN h : Live(h, ch, kind)

(* What the helpers deploy. *)

\* The place of the controller among the arguments of a constructor.
controllerPlace(kind) == IF kind = "SetToken" THEN 4 ELSE 1

\* A table that hands its contracts the controller where their constructors read it.
GivesController(table, kind) ==
    /\ kind \in DOMAIN table /\ controllerPlace(kind) \in DOMAIN table[kind]
    /\ table[kind][controllerPlace(kind)] = "controller"

\* What is found in a table is found in two of them, unless the first has something else.
Lookups(first, second, both, kind) ==
    /\ GivesController(first, kind) => GivesController(both, kind)
    /\ GivesController(second, kind) /\ kind \notin DOMAIN first => GivesController(both, kind)
    /\ kind \in DOMAIN both <=> kind \in DOMAIN first \/ kind \in DOMAIN second

\* Looking a helper up in two tables.
LEMMA Lookup ==
    ASSUME NEW first, NEW second, NEW kind
    PROVE  Lookups(first, second, first ++ second, kind)
<1>. DEFINE both == first ++ second
<1>1. /\ DOMAIN both = DOMAIN first \cup DOMAIN second
      /\ kind \in DOMAIN first => both[kind] = first[kind]
      /\ kind \in DOMAIN second /\ kind \notin DOMAIN first => both[kind] = second[kind]
  BY DEF ++
<1>. HIDE DEF both
<1>2. /\ GivesController(first, kind) => GivesController(both, kind)
      /\ GivesController(second, kind) /\ kind \notin DOMAIN first => GivesController(both, kind)
  BY <1>1 DEF GivesController
<1>. QED  BY <1>1, <1>2 DEF both, Lookups

\* The tables of contracts that keep a controller hand it to them.
LEMMA ControllerTables ==
    ASSUME NEW kind
    PROVE  /\ kind \in DOMAIN deployCoreContracts \ {"Controller"} => GivesController(deployCoreContracts, kind)
           /\ kind \in DOMAIN deployControllerModules => GivesController(deployControllerModules, kind)
           /\ kind \in DOMAIN deployWethModules => GivesController(deployWethModules, kind)
           /\ kind \in DOMAIN deployLeverageModules => GivesController(deployLeverageModules, kind)
           /\ kind \in DOMAIN deployModuleMocks => GivesController(deployModuleMocks, kind)
           /\ GivesController(deployExchangeAdapters, "UniswapPairPriceAdapter")
<1>1. ASSUME kind \in DOMAIN deployCoreContracts \ {"Controller"}
      PROVE  GivesController(deployCoreContracts, kind)
  <2>1. kind \in {"SetTokenCreator", "SetToken", "PriceOracle", "IntegrationRegistry", "SetValuer"}
    BY <1>1 DEF deployCoreContracts
  <2>. QED  BY <2>1 DEF GivesController, controllerPlace, deployCoreContracts
<1>2. kind \in DOMAIN deployControllerModules => GivesController(deployControllerModules, kind)
  BY DEF GivesController, controllerPlace, deployControllerModules
<1>3. kind \in DOMAIN deployWethModules => GivesController(deployWethModules, kind)
  BY DEF GivesController, controllerPlace, deployWethModules
<1>4. kind \in DOMAIN deployLeverageModules => GivesController(deployLeverageModules, kind)
  BY DEF GivesController, controllerPlace, deployLeverageModules
<1>5. kind \in DOMAIN deployModuleMocks => GivesController(deployModuleMocks, kind)
  BY DEF GivesController, controllerPlace, deployModuleMocks
<1>6. GivesController(deployExchangeAdapters, "UniswapPairPriceAdapter")
  BY DEF GivesController, controllerPlace, deployExchangeAdapters
<1>. QED  BY <1>1, <1>2, <1>3, <1>4, <1>5, <1>6

\* No contract that keeps a controller is in a table that is looked at before its own.
LEMMA OwnTable ==
    ASSUME NEW kind
    PROVE  /\ kind \in DOMAIN deployControllerModules => kind \notin DOMAIN deployLibraries
           /\ kind \in DOMAIN deployWethModules =>
                kind \notin DOMAIN deployLibraries \cup DOMAIN deployControllerModules
           /\ kind \in DOMAIN deployLeverageModules =>
                kind \notin DOMAIN deployLibraries \cup DOMAIN deployControllerModules
                             \cup DOMAIN deployWethModules
           /\ kind \in (DOMAIN deployCoreContracts \ {"Controller"}) \cup {"UniswapPairPriceAdapter"}
                    \cup DOMAIN deployModuleMocks =>
                kind \notin DOMAIN deployLibraries \cup DOMAIN deployControllerModules
                             \cup DOMAIN deployWethModules \cup DOMAIN deployLeverageModules
           /\ kind \in {"UniswapPairPriceAdapter"} \cup DOMAIN deployModuleMocks =>
                kind \notin DOMAIN deployCoreContracts
           /\ kind \in DOMAIN deployModuleMocks =>
                kind \notin DOMAIN deployExchangeAdapters \cup DOMAIN deployOtherAdapters
                             \cup DOMAIN deployViewers \cup DOMAIN deployProduct
                             \cup DOMAIN deployOracles
BY DEF deployLibraries, deployControllerModules, deployWethModules, deployLeverageModules,
       deployCoreContracts, deployExchangeAdapters, deployOtherAdapters, deployViewers,
       deployProduct, deployOracles, deployModuleMocks

\* deployX hands the controller to every contract that keeps one, where its constructor reads it.
LEMMA ControllerArgument ==
    ASSUME NEW kind, keepsController(kind)
    PROVE  GivesController(deployer, kind)
<1>. DEFINE t2 == deployLibraries ++ deployControllerModules
            t3 == t2 ++ deployWethModules
            t4 == t3 ++ deployLeverageModules
            t5 == t4 ++ deployCoreContracts
            t6 == t5 ++ deployExchangeAdapters
            t7 == t6 ++ deployOtherAdapters
            t8 == t7 ++ deployViewers
            t9 == t8 ++ deployProduct
            t10 == t9 ++ deployOracles
            t11 == t10 ++ deployMocks
            mocks2 == deployModuleMocks ++ deployProtocolMocks
            mocks3 == mocks2 ++ deployOtherMocks
<1>1. deployer = t11 ++ deployExternal /\ deployMocks = mocks3 ++ deployProtocolDoubles
  BY DEF deployer, deployMocks
<1>2. /\ Lookups(deployLibraries, deployControllerModules, t2, kind)
      /\ Lookups(t2, deployWethModules, t3, kind)
      /\ Lookups(t3, deployLeverageModules, t4, kind)
      /\ Lookups(t4, deployCoreContracts, t5, kind)
      /\ Lookups(t5, deployExchangeAdapters, t6, kind)
      /\ Lookups(t6, deployOtherAdapters, t7, kind)
      /\ Lookups(t7, deployViewers, t8, kind)
      /\ Lookups(t8, deployProduct, t9, kind)
      /\ Lookups(t9, deployOracles, t10, kind)
      /\ Lookups(t10, deployMocks, t11, kind)
      /\ Lookups(t11, deployExternal, deployer, kind)
      /\ Lookups(deployModuleMocks, deployProtocolMocks, mocks2, kind)
      /\ Lookups(mocks2, deployOtherMocks, mocks3, kind)
      /\ Lookups(mocks3, deployProtocolDoubles, deployMocks, kind)
  <2>. HIDE DEF t2, t3, t4, t5, t6, t7, t8, t9, t10, t11, mocks2, mocks3
  <2>. QED  BY <1>1, Lookup DEF t2, t3, t4, t5, t6, t7, t8, t9, t10, t11, mocks2, mocks3
<1>. HIDE DEF t2, t3, t4, t5, t6, t7, t8, t9, t10, t11, mocks2, mocks3
<1>3. CASE kind \in DOMAIN deployControllerModules
  BY <1>2, <1>3, OwnTable, ControllerTables DEF Lookups
<1>4. CASE kind \in DOMAIN deployWethModules
  BY <1>2, <1>4, OwnTable, ControllerTables DEF Lookups
<1>5. CASE kind \in DOMAIN deployLeverageModules
  BY <1>2, <1>5, OwnTable, ControllerTables DEF Lookups
<1>6. CASE kind \in DOMAIN deployCoreContracts \ {"Controller"}
  BY <1>2, <1>6, OwnTable, ControllerTables DEF Lookups
<1>7. CASE kind = "UniswapPairPriceAdapter"
  BY <1>2, <1>7, OwnTable, ControllerTables DEF Lookups
<1>8. CASE kind \in DOMAIN deployModuleMocks
  BY <1>2, <1>8, OwnTable, ControllerTables DEF Lookups
<1>. QED  BY <1>3, <1>4, <1>5, <1>6, <1>7, <1>8 DEF keepsController

\* A contract that goes on a chain after others: its controller and its libraries are among them.
WiredTo(c, contracts) ==
    /\ keepsController(c.kind) =>
         /\ storedController(c) \in DOMAIN contracts
         /\ contracts[storedController(c)].kind = "Controller"
    /\ \A library \in DOMAIN c.libraries :
         /\ c.libraries[library] \in DOMAIN contracts
         /\ contracts[c.libraries[library]].kind = library

\* The contracts of a chain are wired to contracts that were there before them.
Wired(ch) ==
    \A i \in DOMAIN ch.contracts :
        /\ keepsController(ch.contracts[i].kind) =>
             /\ storedController(ch.contracts[i]) \in 1 .. (i - 1)
             /\ ch.contracts[storedController(ch.contracts[i])].kind = "Controller"
        /\ \A library \in DOMAIN ch.contracts[i].libraries :
             /\ ch.contracts[i].libraries[library] \in 1 .. (i - 1)
             /\ ch.contracts[ch.contracts[i].libraries[library]].kind = library

SoundChain(ch) == IsChain(ch) /\ Wired(ch)

\* A chain stays wired when a contract is added that is.
LEMMA WiredDeploy ==
    ASSUME NEW ch, SoundChain(ch), NEW c, WiredTo(c, ch.contracts), NEW logs
    PROVE  SoundChain(minedChain(ch, c, logs))
<1>. DEFINE q == ch.contracts
            p == minedChain(ch, c, logs).contracts
<1>1. IsChain(ch) /\ Wired(ch)
  BY DEF SoundChain
<1>2. IsChain(minedChain(ch, c, logs)) /\ p = Append(q, c)
  BY <1>1, MinedChain
<1>3. q \in Seq(Range(q))
  BY <1>1 DEF IsChain
<1>4. /\ Len(q) \in Nat /\ DOMAIN q = 1 .. Len(q) /\ DOMAIN p = 1 .. (Len(q) + 1)
      /\ p[Len(q) + 1] = c /\ \A i \in 1 .. Len(q) : p[i] = q[i]
  BY <1>2, <1>3
<1>5. ASSUME NEW i \in DOMAIN p
      PROVE  /\ keepsController(p[i].kind) =>
                  /\ storedController(p[i]) \in 1 .. (i - 1)
                  /\ p[storedController(p[i])].kind = "Controller"
             /\ \A library \in DOMAIN p[i].libraries :
                  /\ p[i].libraries[library] \in 1 .. (i - 1)
                  /\ p[p[i].libraries[library]].kind = library
  <2>1. CASE i = Len(q) + 1
    <3>1. p[i] = c /\ 1 .. (i - 1) = DOMAIN q
      BY <1>4, <2>1
    <3>. HIDE DEF p, q
    <3>. QED  BY <1>4, <3>1 DEF WiredTo, q
  <2>2. CASE i # Len(q) + 1
    <3>1. i \in DOMAIN q /\ p[i] = q[i] /\ 1 .. (i - 1) \subseteq DOMAIN q
      BY <1>4, <2>2
    <3>2. /\ keepsController(q[i].kind) =>
               /\ storedController(q[i]) \in 1 .. (i - 1)
               /\ q[storedController(q[i])].kind = "Controller"
          /\ \A library \in DOMAIN q[i].libraries :
               /\ q[i].libraries[library] \in 1 .. (i - 1)
               /\ q[q[i].libraries[library]].kind = library
      BY <1>1, <3>1 DEF Wired
    <3>. HIDE DEF p, q
    <3>. QED  BY <1>4, <3>1, <3>2
  <2>. QED  BY <2>1, <2>2
<1>. QED  BY <1>2, <1>5 DEF SoundChain, Wired

\* deployX passes live handles on.
LEMMA DeployedIsWired ==
    ASSUME NEW kind, NEW known, NEW ch, \A k \in needs(kind) : Live(known, ch, k)
    PROVE  WiredTo(deployed(kind, known), ch.contracts)
<1>. DEFINE c == deployed(kind, known)
            roles == deployer[kind]
<1>1. /\ c.kind = kind /\ DOMAIN c.libraries = linkedLibraries(kind)
      /\ \A library \in linkedLibraries(kind) : c.libraries[library] = known[library]
  BY DEF deployed
<1>2. linkedLibraries(kind) \subseteq needs(kind)
  BY DEF needs
<1>3. ASSUME keepsController(kind) PROVE storedController(c) = known["Controller"]
  <2>1. GivesController(deployer, kind)
    BY <1>3, ControllerArgument
  <2>2. controllerPlace(kind) \in DOMAIN roles /\ roles[controllerPlace(kind)] = "controller"
    BY <2>1 DEF GivesController
  <2>3. "controller" \in DOMAIN repositoryRoles /\ repositoryRoles["controller"] = "Controller"
    BY DEF repositoryRoles
  <2>4. c.args = [i \in DOMAIN roles |->
                   IF roles[i] \in DOMAIN repositoryRoles THEN known[repositoryRoles[roles[i]]] ELSE 0]
    BY DEF deployed
  <2>. HIDE DEF roles, c
  <2>5. c.args[controllerPlace(kind)] = known["Controller"]
    BY <2>2, <2>3, <2>4
  <2>. QED  BY <1>1, <2>5 DEF storedController, controllerPlace
<1>4. ASSUME keepsController(kind) PROVE "Controller" \in needs(kind)
  <2>1. GivesController(deployer, kind)
    BY <1>4, ControllerArgument
  <2>2. \E i \in DOMAIN roles : roles[i] = "controller"
    BY <2>1 DEF GivesController
  <2>3. "controller" \in DOMAIN repositoryRoles /\ repositoryRoles["controller"] = "Controller"
    BY DEF repositoryRoles
  <2>. QED  BY <2>2, <2>3 DEF needs
<1>. HIDE DEF c
<1>5. WiredTo(c, ch.contracts)
  BY <1>1, <1>2, <1>3, <1>4 DEF WiredTo, Live
<1>. QED  BY <1>5 DEF c

\* SetTokenCreator.create passes its own controller on.
LEMMA CreatedIsWired ==
    ASSUME NEW ch, SoundChain(ch), NEW creator, creator \in Range(ch.contracts),
           creator.kind = "SetTokenCreator"
    PROVE  WiredTo([kind |-> "SetToken", args |-> <<0, 0, 0, storedController(creator), 0, 0, 0>>,
                    libraries |-> <<>>], ch.contracts)
<1>. DEFINE q == ch.contracts
            a == storedController(creator)
            c == [kind |-> "SetToken", args |-> <<0, 0, 0, a, 0, 0, 0>>, libraries |-> <<>>]
<1>1. q \in Seq(Range(q)) /\ Wired(ch)
  BY DEF SoundChain, IsChain
<1>2. PICK i \in DOMAIN q : q[i] = creator
  BY DEF Range
<1>3. keepsController("SetTokenCreator")
  BY DEF keepsController, deployCoreContracts
<1>4. a \in 1 .. (i - 1) /\ q[a].kind = "Controller"
  BY <1>1, <1>2, <1>3 DEF Wired
<1>5. a \in DOMAIN q
  BY <1>1, <1>4
<1>. HIDE DEF a
<1>6. storedController(c) = a /\ DOMAIN c.libraries = {}
  BY DEF storedController
<1>. HIDE DEF c
<1>7. WiredTo(c, q)
  BY <1>4, <1>5, <1>6 DEF WiredTo
<1>. QED  BY <1>7 DEF c, a

\* A contract that keeps no controller and links no library.
LEMMA ViewerIsWired ==
    ASSUME NEW contracts
    PROVE  WiredTo([kind |-> "ProtocolViewer", args |-> <<>>, libraries |-> <<>>], contracts)
<1>1. ~keepsController("ProtocolViewer")
  BY DEF keepsController, deployCoreContracts, deployControllerModules, deployWethModules,
         deployLeverageModules, deployModuleMocks
<1>. QED  BY <1>1 DEF WiredTo

\* The clock, the number of blocks and the logs are not contracts.
LEMMA OtherFields ==
    ASSUME NEW ch, SoundChain(ch), NEW v
    PROVE  /\ SoundChain(withTime(ch, v)) /\ SoundChain(withBlocks(ch, v)) /\ SoundChain(withLogs(ch, v))
           /\ withTime(ch, v).contracts = ch.contracts /\ withBlocks(ch, v).contracts = ch.contracts
           /\ withLogs(ch, v).contracts = ch.contracts
<1>. DEFINE a == [ch EXCEPT !.time = v]
            b == [ch EXCEPT !.blocks = v]
            c == [ch EXCEPT !.logs = v]
            C == Seq(Range(ch.contracts))
<1>1. ch \in [contracts : C, blocks : {ch.blocks}, time : {ch.time}, logs : {ch.logs}]
  BY DEF SoundChain, IsChain
<1>. HIDE DEF C
<1>2. /\ a.contracts = ch.contracts /\ b.contracts = ch.contracts /\ c.contracts = ch.contracts
      /\ a \in [contracts : C, blocks : {a.blocks}, time : {a.time}, logs : {a.logs}]
      /\ b \in [contracts : C, blocks : {b.blocks}, time : {b.time}, logs : {b.logs}]
      /\ c \in [contracts : C, blocks : {c.blocks}, time : {c.time}, logs : {c.logs}]
  BY <1>1
<1>3. withTime(ch, v) = a /\ withBlocks(ch, v) = b /\ withLogs(ch, v) = c
  BY DEF withTime, withBlocks, withLogs
<1>. HIDE DEF a, b, c
<1>4. IsChain(a) /\ IsChain(b) /\ IsChain(c)
  BY <1>2 DEF IsChain, C
<1>5. Wired(a) /\ Wired(b) /\ Wired(c)
  <2>1. ASSUME NEW other, other.contracts = ch.contracts PROVE Wired(other)
    BY <2>1 DEF SoundChain, Wired
  <2>. QED  BY <1>2, <2>1
<1>. QED  BY <1>2, <1>3, <1>4, <1>5 DEF SoundChain

\* Blocks without a contract leave a chain.
LEMMA MinedIsSound ==
    ASSUME NEW ch, SoundChain(ch), NEW t
    PROVE  SoundChain(withEmptyBlocks(ch, t)) /\ Extends(withEmptyBlocks(ch, t), ch)
<1>. DEFINE high == withBlocks(ch, ch.blocks + t)
<1>1. SoundChain(high) /\ high.contracts = ch.contracts
  BY OtherFields
<1>. HIDE DEF high
<1>2. SoundChain(withLogs(high, <<>>)) /\ withLogs(high, <<>>).contracts = high.contracts
  BY <1>1, OtherFields
<1>. QED  BY <1>1, <1>2 DEF withEmptyBlocks, Extends, high

\* A hook that sends transactions, or none, leaves a chain.
LEMMA SentIsSound ==
    ASSUME NEW n, IsNode(n), SoundChain(n.chain), NEW b
    PROVE  SoundChain(sent(n, b).chain) /\ Extends(sent(n, b).chain, n.chain)
<1>1. SoundChain(evm_mine(n, 1).chain) /\ Extends(evm_mine(n, 1).chain, n.chain)
  BY MineChain, MinedIsSound
<1>. QED  BY <1>1 DEF sent, Extends

\* What a step leaves: a chain with what was there, and a live handle if it assigns one.
SoundStep(state, what, r) ==
    /\ SoundChain(r.node.chain) /\ Extends(r.node.chain, state.node.chain)
    /\ \E v : /\ Assigned(state.handles, what, v, r.handles)
              /\ writes(what) # {} => /\ v \in DOMAIN r.node.chain.contracts
                                      /\ r.node.chain.contracts[v].kind = what.kind

\* A step that reads live handles leaves a live one.
LEMMA StepLive ==
    ASSUME NEW held, NEW s, NEW state, IsState(state), SoundChain(state.node.chain),
           NEW what \in Step, NEW r \in step(held, s, state, what),
           \A kind \in reads(what) : kind \in DOMAIN scope(held, s, state.handles) =>
                Live(scope(held, s, state.handles), state.node.chain, kind)
    PROVE  SoundStep(state, what, r)
<1>. DEFINE known == scope(held, s, state.handles)
            ch == state.node.chain
            kind == what.kind
            v == nextAddress(state.node)
<1>1. StepResult(held, s, state, what, r)
  BY StepResults
<1>2. IsNode(state.node)
  BY DEF IsState
<1>3. /\ what.call \in {"deploy", "get", "createSetToken", "transact"}
      /\ writes(what) = {} <=> what.call = "transact"
  BY DEF Step, writes
<1>4. ASSUME NEW c, NEW logs, what.call # "transact", c.kind = kind, WiredTo(c, ch.contracts),
             r = [node |-> evm_deploy(state.node, c, logs), handles |-> put(state.handles, kind, v)]
      PROVE  SoundStep(state, what, r)
  <2>. DEFINE after == minedChain(ch, c, logs)
  <2>1. r.node.chain = after /\ r.handles = put(state.handles, kind, v)
    <3>1. r.node = evm_deploy(state.node, c, logs) /\ r.handles = put(state.handles, kind, v)
      BY <1>4
    <3>. QED  BY <1>2, <3>1, DeployChain
  <2>2. /\ SoundChain(after) /\ Extends(after, ch) /\ v \in DOMAIN after.contracts
        /\ after.contracts[v] = c
    BY <1>4, WiredDeploy, MinedChain DEF nextAddress, SoundChain
  <2>. QED  BY <1>3, <1>4, <2>1, <2>2 DEF SoundStep, Assigned
<1>5. CASE what.call = "deploy"
  <2>. DEFINE c == deployed(kind, known)
  <2>1. r = [node |-> evm_deploy(state.node, c, <<>>), handles |-> put(state.handles, kind, v)]
    BY <1>1, <1>5 DEF StepResult
  <2>2. c.kind = kind
    BY DEF deployed
  <2>3. WiredTo(c, ch.contracts)
    <3>1. needs(kind) \subseteq DOMAIN known
      BY <1>1, <1>5 DEF StepResult
    <3>2. reads(what) = needs(kind)
      BY <1>5 DEF reads
    <3>3. \A k \in needs(kind) : Live(known, ch, k)
      BY <3>1, <3>2
    <3>. HIDE DEF known, ch, kind
    <3>. QED  BY <3>3, DeployedIsWired
  <2>. HIDE DEF c, kind, v
  <2>. QED  BY <1>4, <1>5, <2>1, <2>2, <2>3
<1>6. CASE what.call = "get"
  <2>1. /\ kind \in DOMAIN known
        /\ r = [node |-> state.node, handles |-> put(state.handles, kind, known[kind])]
    BY <1>1, <1>6 DEF StepResult
  <2>2. kind \in reads(what)
    BY <1>6 DEF reads
  <2>3. Live(known, ch, kind)
    BY <2>1, <2>2
  <2>4. r.node = state.node /\ r.handles = put(state.handles, kind, known[kind])
    <3>. HIDE DEF known, kind
    <3>. QED  BY <2>1
  <2>. QED  BY <1>3, <1>6, <2>3, <2>4 DEF SoundStep, Assigned, Live, Extends
<1>7. CASE what.call = "createSetToken"
  <2>1. kind = "SetToken"
    BY <1>7 DEF Step
  <2>2. PICK creator \in Range(state.node.chain.contracts) :
            creator.kind = "SetTokenCreator" /\
            LET c == [kind |-> "SetToken", args |-> <<0, 0, 0, storedController(creator), 0, 0, 0>>,
                      libraries |-> <<>>]
                mined == evm_deploy(state.node, c, <<v>>)
            IN  r = [node |-> mined,
                     handles |-> put(state.handles, "SetToken", getCreatedSetTokenAddress(mined.chain))]
    BY <1>1, <1>7 DEF StepResult
  <2>. DEFINE c == [kind |-> "SetToken", args |-> <<0, 0, 0, storedController(creator), 0, 0, 0>>,
                    libraries |-> <<>>]
              mined == evm_deploy(state.node, c, <<v>>)
  <2>3. c.kind = kind /\ WiredTo(c, ch.contracts)
    BY <2>1, <2>2, CreatedIsWired
  <2>. HIDE DEF c
  <2>4. mined.chain.logs = <<v>>
    BY <1>2, DeployChain, MinedChain DEF SoundChain
  <2>5. getCreatedSetTokenAddress(mined.chain) = v
    BY <2>4 DEF getCreatedSetTokenAddress, Last
  <2>6. r = [node |-> mined, handles |-> put(state.handles, "SetToken", v)]
    BY <2>2, <2>5 DEF c
  <2>. QED  BY <1>4, <1>7, <2>1, <2>3, <2>6
<1>8. CASE what.call = "transact"
  <2>1. r = [node |-> evm_mine(state.node, 1), handles |-> state.handles]
    BY <1>1, <1>8 DEF StepResult
  <2>2. r.node.chain = withEmptyBlocks(ch, 1) /\ r.handles = state.handles
    BY <1>2, <2>1, MineChain
  <2>3. SoundChain(r.node.chain) /\ Extends(r.node.chain, ch)
    BY <2>2, MinedIsSound
  <2>. QED  BY <1>3, <1>8, <2>2, <2>3 DEF SoundStep, Assigned
<1>. QED  BY <1>3, <1>5, <1>6, <1>7, <1>8

\* The variables around that an initializer reads are live.
ReadsLive(held, s, plan, ch) ==
    \A n \in DOMAIN plan : \A kind \in reads(plan[n]) : \A i \in 1 .. (Len(path[s]) - 1) :
        kind \in DOMAIN held[path[s][i]] => Live(held[path[s][i]], ch, kind)

\* The state of an initializer after n steps of its plan: what was on the chain still is, and
\* every handle of the suite is live that was not left over for a later step to assign.
SoundState(state, plan, n, start) ==
    /\ IsState(state) /\ SoundChain(state.node.chain)
    /\ Extends(state.node.chain, start.node.chain)
    /\ DOMAIN state.handles \subseteq DOMAIN start.handles \cup assigns(plan)
    /\ \A kind \in DOMAIN state.handles :
          Live(state.handles, state.node.chain, kind) \/ kind \in DOMAIN start.handles \cap later(plan, n)

\* An initializer keeps its handles sound, from variables that it assigns before it reads them,
\* when what it reads of the suites around is live.
LEMMA RunLive ==
    ASSUME NEW s \in Suites, NEW held, DOMAIN held = Suites, NEW plan \in Seq(Step),
           NEW start, IsState(start), SoundChain(start.node.chain),
           ReadsLive(held, s, plan, start.node.chain),
           DOMAIN start.handles \subseteq assigns(plan),
           DOMAIN start.handles # {} => AssignsFirst(plan),
           NEW m \in 0 .. Len(plan), NEW end \in steps(held, s, plan, start)[m]
    PROVE  SoundState(end, plan, m, start)
<1>. DEFINE reached == steps(held, s, plan, start)
            T == {n \in Nat : n <= Len(plan) =>
                    \A state \in reached[n] : SoundState(state, plan, n, start)}
<1>1. /\ reached[0] = {start}
      /\ \A n \in 1 .. Len(plan) : reached[n] = UNION {step(held, s, state, plan[n]) :
                                                        state \in reached[n - 1]}
  <2>1. StepByStep(held, s, plan, start)
    BY StepsUnfold
  <2>. QED  BY <2>1 DEF StepByStep
<1>2. end \in reached[m] /\ Len(plan) \in Nat
  OBVIOUS
<1>. HIDE DEF reached
<1>3. 0 \in T
  <2>1. SoundState(start, plan, 0, start)
    BY LaterFacts DEF SoundState, Extends
  <2>. QED  BY <1>1, <2>1
<1>4. ASSUME NEW n \in Nat, n \in T PROVE n + 1 \in T
  <2>. SUFFICES ASSUME n + 1 <= Len(plan), NEW r \in reached[n + 1]
                PROVE  SoundState(r, plan, n + 1, start)
    OBVIOUS
  <2>. DEFINE what == plan[n + 1]
  <2>1. n + 1 \in 1 .. Len(plan) /\ (n + 1) - 1 = n /\ what \in Step /\ n <= Len(plan)
        /\ DOMAIN plan = 1 .. Len(plan) /\ n \in 0 .. (Len(plan) - 1)
    BY <1>2
  <2>2. PICK state \in reached[n] : r \in step(held, s, state, what)
    BY <1>1, <2>1
  <2>3. SoundState(state, plan, n, start)
    BY <1>4, <2>1
  <2>. DEFINE known == scope(held, s, state.handles)
              ch == state.node.chain
              left == DOMAIN start.handles
  <2>4. \A kind \in reads(what) : kind \notin left \cap later(plan, n)
    BY <2>1, ReadsAssigned
  <2>5. ASSUME NEW kind \in reads(what), kind \in DOMAIN known PROVE Live(known, ch, kind)
    <3>1. InScope(held, s, state.handles, kind)
      BY ScopeFacts
    <3>2. CASE kind \in DOMAIN state.handles
      <4>1. known[kind] = state.handles[kind]
        BY <3>1, <3>2 DEF InScope
      <4>2. Live(state.handles, ch, kind)
        BY <2>3, <2>4, <3>2 DEF SoundState
      <4>. QED  BY <4>1, <4>2 DEF Live
    <3>3. CASE kind \notin DOMAIN state.handles
      <4>. DEFINE i == Max(holdersAround(held, s, kind))
      <4>1. i \in holdersAround(held, s, kind) /\ known[kind] = held[path[s][i]][kind]
        BY <2>5, <3>1, <3>3 DEF InScope
      <4>. HIDE DEF i
      <4>2. i \in 1 .. (Len(path[s]) - 1) /\ kind \in DOMAIN held[path[s][i]]
        BY <4>1 DEF holdersAround
      <4>3. Live(held[path[s][i]], start.node.chain, kind)
        BY <2>1, <4>2 DEF ReadsLive
      <4>4. Extends(ch, start.node.chain)
        BY <2>3 DEF SoundState
      <4>. HIDE DEF known, ch
      <4>. QED  BY <4>1, <4>3, <4>4 DEF Live, Extends
    <3>. QED  BY <3>2, <3>3
  <2>6. IsState(state) /\ SoundChain(ch)
    BY <2>3 DEF SoundState
  <2>7. SoundStep(state, what, r) /\ IsState(r)
    <3>. HIDE DEF what
    <3>. QED  BY <2>1, <2>2, <2>5, <2>6, StepLive, StepKeepsSnapshots
  <2>. DEFINE mine == state.handles
              after == r.handles
              chain == r.node.chain
  <2>8. PICK v : /\ Assigned(mine, what, v, after)
                 /\ writes(what) # {} => v \in DOMAIN chain.contracts /\ chain.contracts[v].kind = what.kind
    BY <2>7 DEF SoundStep
  <2>9. /\ DOMAIN after = DOMAIN mine \cup writes(what)
        /\ \A k \in writes(what) : k = what.kind /\ after[k] = v
        /\ \A k \in DOMAIN mine \ writes(what) : after[k] = mine[k]
    <3>1. CASE writes(what) = {}
      BY <2>8, <3>1 DEF Assigned
    <3>2. CASE writes(what) # {}
      <4>. DEFINE key == what.kind
      <4>1. after = put(mine, key, v) /\ writes(what) = {key}
        BY <2>8, <3>2 DEF Assigned, writes
      <4>. HIDE DEF key, mine, after, what
      <4>2. /\ DOMAIN after = DOMAIN mine \cup {key} /\ after[key] = v
            /\ \A k \in DOMAIN mine : k # key => after[k] = mine[k]
        BY <4>1 DEF put
      <4>. QED  BY <4>1, <4>2 DEF key
    <3>. QED  BY <3>1, <3>2
  <2>10. /\ later(plan, n) = writes(what) \cup later(plan, n + 1)
         /\ writes(what) \subseteq assigns(plan)
    BY <2>1, LaterFacts
  <2>11. Extends(chain, ch)
    BY <2>7 DEF SoundStep
  <2>12. /\ DOMAIN mine \subseteq left \cup assigns(plan)
         /\ \A kind \in DOMAIN mine : Live(mine, ch, kind) \/ kind \in left \cap later(plan, n)
    BY <2>3 DEF SoundState
  <2>. HIDE DEF what, mine, after, chain, ch, left
  <2>13. ASSUME NEW kind \in DOMAIN after
         PROVE  Live(after, chain, kind) \/ kind \in left \cap later(plan, n + 1)
    <3>1. CASE kind \in writes(what)
      BY <2>8, <2>9, <3>1 DEF Live
    <3>2. CASE kind \notin writes(what) /\ Live(mine, ch, kind)
      BY <2>9, <2>11, <2>13, <3>2 DEF Live, Extends
    <3>3. CASE kind \notin writes(what) /\ kind \in left \cap later(plan, n)
      BY <2>10, <3>3
    <3>. QED  BY <2>9, <2>12, <2>13, <3>1, <3>2, <3>3
  <2>14. DOMAIN after \subseteq left \cup assigns(plan)
    BY <2>9, <2>10, <2>12
  <2>15. SoundChain(chain) /\ Extends(chain, start.node.chain)
    <3>1. Extends(ch, start.node.chain) /\ SoundChain(chain)
      BY <2>3, <2>7 DEF SoundState, SoundStep, ch, chain
    <3>. QED  BY <2>11, <3>1 DEF Extends
  <2>. QED  BY <2>7, <2>13, <2>14, <2>15 DEF SoundState, left, after, chain
<1>. HIDE DEF T
<1>5. Nat \subseteq T
  BY <1>3, <1>4, NumberInduction
<1>6. m \in T /\ m <= Len(plan)
  BY <1>2, <1>5
<1>. QED  BY <1>2, <1>6 DEF T
-----------------------------------------------------------------------------
(* The handles. *)

\* Every chain that the node has or can go back to is one.
ChainsSound == SoundChain(node.chain) /\ \A id \in DOMAIN node.snapshots : SoundChain(node.snapshots[id])

\* Suites that are not run, and cached ones without a snapshot, hold no handle unless their hook
\* threw; a plain one holds those that its initializer is going to assign again, whatever the test.
VariablesSound ==
    /\ DOMAIN handles = Suites
    /\ \A s \in Suites : (\A i \in 1 .. Len(inside) : s # inside[i]) => handles[s] = <<>>
    /\ \A s \in Suites : Style[s] = "cache" /\ s \notin pushed /\ s # mocha.failed => handles[s] = <<>>
    /\ \A s, t \in Suites : Style[s] = "plain" =>
          \A plan \in Initializers[s][t] : DOMAIN handles[s] \subseteq assigns(plan)

\* The suites that are initialized once, in `before'.
Lasting(s) == Style[s] \in {"snapshot", "before"}

\* How many of the hooks around have run for the test.
hooksRun ==
    IF mocha.stage = "test" THEN Len(inside)
    ELSE IF mocha.stage = "beforeEach" THEN mocha.hook - 1 ELSE 0

\* The handles of a cached suite are live on its snapshot and on those of the suites below, those of
\* a suite initialized in `before' on every chain that tests are given, and all handles of the
\* suites whose hooks have run for a test on the chain that they have made for it.
CacheLive == \A i \in 1 .. Len(SNAPSHOTS) : \A j \in 1 .. i : AllLive(handles[inside[j]], kept[i])
LastingLive == \A j \in 1 .. Len(inside) : Lasting(inside[j]) => AllLive(handles[inside[j]], home)
HooksLive ==
    /\ \A j \in 1 .. hooksRun : AllLive(handles[inside[j]], node.chain)
    /\ mocha.stage \in {"beforeEach", "test"} => Extends(node.chain, home)

HandlesInv == ChainsSound /\ VariablesSound /\ CacheLive /\ LastingLive /\ HooksLive

\* The handles in scope of a test are those of the suites around it.
LEMMA ScopeIsLive == StackInv /\ HandlesInv => HandlesLive
<1>. SUFFICES ASSUME StackInv, HandlesInv, mocha.stage = "test" PROVE HandlesLive
  BY DEF HandlesLive
<1>. DEFINE s == mocha.suite
            mine == handles[s]
            known == scope(handles, s, mine)
            ch == node.chain
<1>1. /\ s \in Suites /\ inside = path[s] /\ Len(inside) \in Nat /\ Len(inside) > 0
      /\ inside[Len(inside)] = s
  BY InsideFacts DEF StackInv, RunnerSound
<1>2. /\ DOMAIN handles = Suites
      /\ \A j \in 1 .. Len(inside) : AllLive(handles[inside[j]], ch)
  BY DEF HandlesInv, VariablesSound, HooksLive, hooksRun
<1>3. ASSUME NEW kind \in DOMAIN known PROVE Live(known, ch, kind)
  <2>1. InScope(handles, s, mine, kind)
    BY <1>1, <1>2, ScopeFacts
  <2>2. CASE kind \in DOMAIN mine
    <3>1. known[kind] = mine[kind]
      BY <2>1, <2>2 DEF InScope
    <3>2. Len(inside) \in 1 .. Len(inside)
      BY <1>1
    <3>3. AllLive(mine, ch)
      BY <1>1, <1>2, <3>2
    <3>. HIDE DEF mine, known, ch
    <3>. QED  BY <2>2, <3>1, <3>3 DEF AllLive, Live
  <2>3. CASE kind \notin DOMAIN mine
    <3>. DEFINE i == Max(holdersAround(handles, s, kind))
    <3>1. i \in holdersAround(handles, s, kind) /\ known[kind] = handles[path[s][i]][kind]
      BY <1>3, <2>1, <2>3 DEF InScope
    <3>. HIDE DEF i
    <3>2. i \in 1 .. (Len(path[s]) - 1) /\ kind \in DOMAIN handles[path[s][i]]
      BY <3>1 DEF holdersAround
    <3>. DEFINE outer == handles[path[s][i]]
    <3>3. AllLive(outer, ch) /\ kind \in DOMAIN outer /\ known[kind] = outer[kind]
      BY <1>1, <1>2, <3>1, <3>2
    <3>. HIDE DEF outer, known, ch
    <3>. QED  BY <3>3 DEF AllLive, Live
  <2>. QED  BY <2>2, <2>3
<1>. QED  BY <1>3 DEF HandlesLive, Live

\* Live handles stay live while contracts are added.
LEMMA LiveExtends ==
    ASSUME NEW h, NEW ch, NEW longer, AllLive(h, ch), Extends(longer, ch)
    PROVE  AllLive(h, longer)
BY DEF AllLive, Live, Extends

\* The path of a hooked suite is that of the runner up to it.
LEMMA HookedPath ==
    ASSUME StackInv, mocha.stage = "beforeEach"
    PROVE  Len(path[hooked]) = mocha.hook /\ \A i \in 1 .. mocha.hook : path[hooked][i] = inside[i]
<1>1. /\ MochaTypeOK /\ mocha.hook \in 1 .. Len(inside) /\ hooked = inside[mocha.hook]
      /\ mocha.suite \in Suites /\ inside = path[mocha.suite]
  BY HookedFacts, InsideFacts, NestingAssumption DEF StackInv
<1>. QED  BY <1>1, PathFacts DEF PathOK

\* The variables around a hook that is going to run are live on the chain.
LEMMA AroundIsLive ==
    ASSUME StackInv, HandlesInv, mocha.stage = "beforeEach"
    PROVE  /\ \A i \in 1 .. (mocha.hook - 1) : AllLive(handles[inside[i]], node.chain)
           /\ \A plan : ReadsLive(handles, hooked, plan, node.chain)
<1>1. \A i \in 1 .. (mocha.hook - 1) : AllLive(handles[inside[i]], node.chain)
  BY DEF HandlesInv, HooksLive, hooksRun
<1>2. mocha.hook \in Nat
  BY DEF StackInv, MochaTypeOK
<1>3. Len(path[hooked]) = mocha.hook /\ \A i \in 1 .. (mocha.hook - 1) : path[hooked][i] = inside[i]
  BY <1>2, HookedPath
<1>4. \A i \in 1 .. (Len(path[hooked]) - 1) : AllLive(handles[path[hooked][i]], node.chain)
  BY <1>1, <1>3
<1>. HIDE DEF hooked, inside
<1>5. ASSUME NEW plan PROVE ReadsLive(handles, hooked, plan, node.chain)
  BY <1>4 DEF ReadsLive, AllLive
<1>. QED  BY <1>1, <1>5

\* After a hook that returns it is one of those that have run.
LEMMA HookHasRun ==
    ASSUME StackInv, mocha.stage = "beforeEach", Returned, NEW chain, Noted(chain)
    PROVE  hooksRun' = mocha.hook /\ mocha'.failed = NoSuite
<1>1. inside' = inside /\ mocha.hook \in Nat
  BY DEF Returned, inside, StackInv, MochaTypeOK
<1>2. CASE mocha'.stage = "beforeEach" /\ mocha'.hook = mocha.hook + 1
  BY <1>1, <1>2 DEF hooksRun, Returned, RunnerSound
<1>3. CASE mocha'.stage = "test" /\ mocha.hook = Len(inside)
  BY <1>1, <1>3 DEF hooksRun, Returned, RunnerSound
<1>. QED  BY <1>2, <1>3 DEF Returned, Noted

\* No suite of a file with cached suites is initialized in `before'.
LEMMA NoneLasting ==
    ASSUME StackInv, mocha.suite # Root, Style[inside[1]] = "cache"
    PROVE  \A j \in 1 .. Len(inside) : ~Lasting(inside[j])
<1>1. mocha.suite \in Suites /\ inside = path[mocha.suite] /\ inside \in Seq(Suites)
  BY InsideFacts DEF StackInv
<1>. SUFFICES ASSUME NEW j \in 1 .. Len(inside), Lasting(inside[j]) PROVE FALSE
  OBVIOUS
<1>. DEFINE c == inside[j]
<1>2. c \in Suites /\ Len(path[c]) = j /\ (\A i \in 1 .. j : path[c][i] = inside[i]) /\ 1 \in 1 .. j
  BY <1>1, PathFacts DEF PathOK
<1>3. path[c] \in Seq(Suites)
  BY <1>2, PathFacts DEF PathOK
<1>4. Style[path[c][1]] = "cache" /\ 1 \in DOMAIN path[c]
  <2>. HIDE DEF c, inside
  <2>. QED  BY <1>2, <1>3
<1>5. CASE Style[c] = "before"
  BY <1>2, <1>4, <1>5, SuitesAssumption
<1>6. CASE Style[c] = "snapshot"
  <2>1. j = 1
    BY <1>6, SnapshotHookIsFirst
  <2>. QED  BY <1>6, <2>1
<1>. QED  BY <1>5, <1>6 DEF Lasting

\* A step within a suite keeps the variables when it assigns those of plain suites only, as their
\* initializers do.
LEMMA VariablesWithin ==
    ASSUME VariablesSound, mocha'.suite = mocha.suite, pushed' = pushed, mocha.failed = NoSuite \/ mocha'.failed = mocha.failed,
           NEW s \in Suites, \E i \in 1 .. Len(inside) : s = inside[i],
           handles' = handles \/ (Style[s] = "plain" /\ \E mine :
                /\ handles' = [handles EXCEPT ![s] = mine]
                /\ \A t \in Suites : \A plan \in Initializers[s][t] : DOMAIN mine \subseteq assigns(plan))
    PROVE  VariablesSound'
<1>1. inside' = inside
  BY DEF inside
<1>. HIDE DEF inside, pushed
<1>2. \A t \in Suites : t # mocha'.failed => t # mocha.failed
  BY NestingAssumption
<1>3. CASE handles' = handles
  BY <1>1, <1>2, <1>3 DEF VariablesSound
<1>4. CASE Style[s] = "plain" /\ \E mine :
                /\ handles' = [handles EXCEPT ![s] = mine]
                /\ \A t \in Suites : \A plan \in Initializers[s][t] : DOMAIN mine \subseteq assigns(plan)
  <2>1. /\ DOMAIN handles' = Suites /\ \A u \in Suites : u # s => handles'[u] = handles[u]
        /\ \A t \in Suites : \A plan \in Initializers[s][t] : DOMAIN handles'[s] \subseteq assigns(plan)
    BY <1>4 DEF VariablesSound
  <2>2. \A u \in Suites : (\A i \in 1 .. Len(inside) : u # inside[i]) => handles'[u] = <<>>
    BY <2>1 DEF VariablesSound
  <2>3. \A u \in Suites : Style[u] = "cache" /\ u \notin pushed' /\ u # mocha'.failed => handles'[u] = <<>>
    BY <1>2, <1>4, <2>1 DEF VariablesSound
  <2>4. ASSUME NEW u \in Suites, NEW t \in Suites, Style[u] = "plain", NEW plan \in Initializers[u][t]
        PROVE  DOMAIN handles'[u] \subseteq assigns(plan)
    BY <2>1, <2>4 DEF VariablesSound
  <2>. QED  BY <1>1, <2>1, <2>2, <2>3, <2>4 DEF VariablesSound
<1>. QED  BY <1>3, <1>4

\* Such a step keeps what is live when the chain for the next test has grown, if at all.
LEMMA LiveWithin ==
    ASSUME StackInv, CacheLive, LastingLive, SameSandbox,
           \A s \in Suites : Style[s] # "plain" => handles'[s] = handles[s],
           Extends(home', home) \/ \A j \in 1 .. Len(inside) : ~Lasting(inside[j])
    PROVE  CacheLive' /\ LastingLive'
<1>1. inside' = inside
  BY DEF SameSandbox, inside
<1>2. /\ Len(SNAPSHOTS) \in Nat /\ Len(SNAPSHOTS) <= Len(inside)
      /\ \A i \in 1 .. Len(SNAPSHOTS) : Style[inside[i]] = "cache"
      /\ inside \in Seq(Suites)
  BY InsideFacts DEF StackInv, StackMatches
<1>. HIDE DEF inside, kept, home, inSnapshotFile
<1>3. CacheLive'
  <2>. SUFFICES ASSUME NEW i \in 1 .. Len(SNAPSHOTS), NEW j \in 1 .. i
                PROVE  AllLive(handles'[inside[j]], kept[i])
    BY <1>1 DEF CacheLive, SameSandbox
  <2>1. inside[j] \in Suites /\ Style[inside[j]] = "cache"
    BY <1>2
  <2>. QED  BY <2>1 DEF CacheLive
<1>4. LastingLive'
  <2>. SUFFICES ASSUME NEW j \in 1 .. Len(inside), Lasting(inside[j])
                PROVE  AllLive(handles'[inside[j]], home')
    BY <1>1 DEF LastingLive
  <2>1. inside[j] \in Suites /\ Style[inside[j]] # "plain"
    BY <1>2 DEF Lasting
  <2>2. AllLive(handles[inside[j]], home) /\ Extends(home', home)
    BY DEF LastingLive
  <2>. QED  BY <2>1, <2>2, LiveExtends
<1>. QED  BY <1>3, <1>4

\* What a call of an initializer leaves: a chain with what was on it, and live handles, unless it
\* threw before it had assigned all that it held.
InitializerLeft(s, outcome) ==
    /\ SoundChain(outcome.state.node.chain) /\ Extends(outcome.state.node.chain, node.chain)
    /\ Style[s] = "plain" => \A t \in Suites : \A plan \in Initializers[s][t] :
                                DOMAIN outcome.state.handles \subseteq assigns(plan)
    /\ handles[s] = <<>> \/ ~outcome.thrown =>
          AllLive(outcome.state.handles, outcome.state.node.chain)

\* The plan of a plain suite's initializer for a test of t.
LEMMA PlainPlan ==
    ASSUME NEW s \in Suites, Style[s] = "plain", NEW t \in Suites
    PROVE  \E plan \in Initializers[s][t] :
              /\ Initializers[s][t] = {plan} /\ AssignsFirst(plan) /\ plan \in Seq(Step)
              /\ \A u \in Suites : \A other \in Initializers[s][u] : assigns(other) = assigns(plan)
<1>1. PICK plan \in Initializers[s][t] :
         /\ Initializers[s][t] = {plan}
         /\ \A u \in Suites : \A other \in Initializers[s][u] : assigns(other) = assigns(plan)
         /\ \A i, j \in DOMAIN plan : i <= j => writes(plan[j]) \cap reads(plan[i]) = {}
  BY SuitesAssumption
<1>2. plan \in Seq(Step)
  BY SuitesAssumption
<1>. QED  BY <1>1, <1>2 DEF AssignsFirst

\* An initializer leaves that when what it reads of the variables around it is live.
LEMMA InitializerSound ==
    ASSUME IsNode(node), ChainsSound, VariablesSound, NEW s \in Suites, NEW t \in Suites,
           NEW outcome \in outcomes(s, t), handles[s] = <<>> \/ Style[s] = "plain",
           \A plan \in Initializers[s][t] : ReadsLive(handles, s, plan, node.chain)
    PROVE  InitializerLeft(s, outcome)
<1>. DEFINE mine == handles[s]
            start == [node |-> node, handles |-> mine]
<1>1. PICK plan \in Initializers[s][t] : \E n \in 0 .. Len(plan) :
          \E state \in steps(handles, s, plan, start)[n] :
              outcome = [thrown |-> n < Len(plan), state |-> state]
  BY DEF outcomes
<1>2. PICK n \in 0 .. Len(plan) : \E state \in steps(handles, s, plan, start)[n] :
              outcome = [thrown |-> n < Len(plan), state |-> state]
  BY <1>1
<1>3. PICK state \in steps(handles, s, plan, start)[n] :
              outcome = [thrown |-> n < Len(plan), state |-> state]
  BY <1>2
<1>4. plan \in Seq(Step) /\ Len(plan) \in Nat
  BY SuitesAssumption
<1>5. outcome.state = state /\ (~outcome.thrown => n = Len(plan))
  <2>1. outcome.state = state /\ outcome.thrown = (n < Len(plan))
    BY <1>3
  <2>2. ~outcome.thrown => ~(n < Len(plan))
    BY <2>1
  <2>. QED  BY <1>4, <2>1, <2>2
<1>6. /\ IsState(start) /\ start.node = node /\ start.handles = mine
  <2>1. start \in [node : {node}, handles : {mine}] /\ start.node = node /\ start.handles = mine
    <3>. HIDE DEF mine
    <3>. QED  OBVIOUS
  <2>. QED  BY <2>1 DEF IsState
<1>7. DOMAIN handles = Suites
  BY DEF VariablesSound
<1>8. DOMAIN mine \subseteq assigns(plan) /\ (DOMAIN mine # {} => AssignsFirst(plan))
  <2>1. CASE mine = <<>>
    BY <2>1
  <2>2. CASE Style[s] = "plain"
    <3>1. DOMAIN mine \subseteq assigns(plan)
      BY <2>2 DEF VariablesSound
    <3>2. AssignsFirst(plan)
      BY <2>2, PlainPlan
    <3>. QED  BY <3>1, <3>2
  <2>. QED  BY <2>1, <2>2
<1>9. SoundChain(start.node.chain) /\ ReadsLive(handles, s, plan, start.node.chain)
  BY <1>6 DEF ChainsSound
<1>. HIDE DEF start, mine
<1>10. SoundState(state, plan, n, start)
  BY <1>3, <1>4, <1>6, <1>7, <1>8, <1>9, RunLive
<1>11. mine = <<>> \/ n = Len(plan) => DOMAIN mine \cap later(plan, n) = {}
  <2>1. CASE mine = <<>>
    BY <2>1
  <2>2. CASE n = Len(plan)
    BY <1>4, <2>2, LaterFacts
  <2>. QED  BY <2>1, <2>2
<1>12. mine = <<>> \/ n = Len(plan) => AllLive(state.handles, state.node.chain)
  BY <1>6, <1>10, <1>11 DEF SoundState, AllLive
<1>13. SoundChain(state.node.chain) /\ Extends(state.node.chain, node.chain)
       /\ DOMAIN state.handles \subseteq assigns(plan)
  BY <1>6, <1>8, <1>10 DEF SoundState
<1>14. Style[s] = "plain" => \A u \in Suites : \A other \in Initializers[s][u] :
                                assigns(other) = assigns(plan)
  BY PlainPlan
<1>. QED  BY <1>5, <1>12, <1>13, <1>14 DEF InitializerLeft, mine

\* What the body of a test does leaves a chain, with what was on it.
LEMMA TestLeavesChain ==
    ASSUME IsNode(node), SoundChain(node.chain), RunTest
    PROVE  SoundChain(node'.chain) /\ Extends(node'.chain, node.chain)
<1>. DEFINE viewer == [kind |-> "ProtocolViewer", args |-> <<>>, libraries |-> <<>>]
<1>1. \/ node' = evm_deploy(node, viewer, <<>>)
      \/ \E t : node' = [node EXCEPT !.chain = withTime(node.chain, t)]
      \/ node' = evm_mine(node, 3)
  BY DEF RunTest, increaseTimeAsync, setNextBlockTimestamp, waitBlocksAsync, evm_increaseTime,
         evm_setNextBlockTimestamp, withTime
<1>. HIDE DEF viewer
<1>2. CASE node' = evm_deploy(node, viewer, <<>>)
  <2>1. node'.chain = minedChain(node.chain, viewer, <<>>) /\ IsChain(node.chain)
    BY <1>2, DeployChain DEF SoundChain
  <2>. QED  BY <2>1, WiredDeploy, ViewerIsWired, MinedChain DEF viewer
<1>3. CASE node' = evm_mine(node, 3)
  BY <1>3, MineChain, MinedIsSound
<1>4. ASSUME NEW t, node' = [node EXCEPT !.chain = withTime(node.chain, t)]
      PROVE  SoundChain(node'.chain) /\ Extends(node'.chain, node.chain)
  <2>1. node'.chain = withTime(node.chain, t)
    BY <1>4, ChainOnly
  <2>2. SoundChain(node'.chain) /\ node'.chain.contracts = node.chain.contracts
    BY <2>1, OtherFields
  <2>. QED  BY <2>2 DEF Extends
<1>. QED  BY <1>1, <1>2, <1>3, <1>4

\* A step within a suite that assigns nothing and leaves the runner where no hook has run.
LEMMA BetweenHooks ==
    ASSUME StackInv, HandlesInv, SameSandbox, UNCHANGED handles, pushed' = pushed,
           mocha'.failed = mocha.failed, ChainsSound', mocha.suite # Root,
           Extends(home', home), hooksRun' = 0,
           mocha'.stage \in {"beforeEach", "test"} => Extends(node'.chain, home')
    PROVE  HandlesInv'
<1>1. CacheLive' /\ LastingLive'
  BY LiveWithin DEF HandlesInv
<1>2. VariablesSound'
  <2>1. mocha.suite \in Suites /\ \E i \in 1 .. Len(inside) : mocha.suite = inside[i]
    BY InsideFacts DEF StackInv
  <2>. QED  BY <2>1, VariablesWithin DEF HandlesInv, SameSandbox
<1>3. HooksLive'
  BY DEF HooksLive
<1>. QED  BY <1>1, <1>2, <1>3 DEF HandlesInv

\* A step within a suite that does not touch the snapshot of the file, if any: the chain that its
\* tests are given grows with the chain, or stays as it is.
LEMMA HomeGrows ==
    ASSUME SameSandbox, inSnapshotFile \/ Extends(node'.chain, node.chain)
    PROVE  Extends(home', home)
<1>1. CASE inSnapshotFile
  <2>1. home' = home
    BY <1>1 DEF SameSandbox
  <2>. QED  BY <2>1 DEF Extends
<1>2. CASE ~inSnapshotFile
  BY <1>2 DEF SameSandbox, home
<1>. QED  BY <1>1, <1>2

\* Starting a test touches nothing.
LEMMA StartTestKeepsHandles ==
    ASSUME StackInv, SandboxInv, HandlesInv, StartTest
    PROVE  HandlesInv'
<1>1. /\ mocha.stage = "suite" /\ mocha.suite # Root
      /\ mocha' = [mocha EXCEPT !.stage = "beforeEach", !.hook = 1]
      /\ UNCHANGED <<node, SNAPSHOTS, initialized, blockchains, handles>>
  BY DEF StartTest
<1>2. /\ mocha'.suite = mocha.suite /\ mocha'.left = mocha.left /\ mocha'.stage = "beforeEach"
      /\ mocha'.hook = 1 /\ mocha'.failed = mocha.failed
  BY <1>1 DEF StackInv, MochaTypeOK
<1>3. pushed' = pushed /\ hooksRun' = 0
  BY <1>1, <1>2 DEF pushed, hooksRun
<1>4. ChainsSound'
  BY <1>1 DEF HandlesInv, ChainsSound
<1>5. SameSandbox /\ home' = home /\ home = node.chain
  BY <1>1, StartTestKeepsSandbox DEF home, betweenTests
<1>6. Extends(home', home) /\ Extends(node'.chain, home')
  <2>. HIDE DEF home
  <2>. QED  BY <1>1, <1>5 DEF Extends
<1>. QED  BY <1>1, <1>2, <1>3, <1>4, <1>5, <1>6, BetweenHooks

\* A test does not touch what the sandboxes hold.
LEMMA RunTestKeepsHandles ==
    ASSUME StackInv, SandboxInv, HandlesInv, RunTest
    PROVE  HandlesInv'
<1>0. MochaTypeOK /\ RunnerSound /\ IsNode(node)
  BY DEF StackInv, StackKnown
<1>1. /\ mocha.stage = "test" /\ UNCHANGED <<SNAPSHOTS, initialized, blockchains, handles>>
      /\ mocha' = [mocha EXCEPT !.stage = "afterEach", !.ran[mocha.suite] = @ + 1]
  BY DEF RunTest
<1>2. /\ mocha'.suite = mocha.suite /\ mocha'.left = mocha.left /\ mocha'.stage = "afterEach"
      /\ mocha'.failed = mocha.failed /\ mocha.suite # Root
  BY <1>0, <1>1 DEF MochaTypeOK, RunnerSound
<1>3. SameSandbox /\ SameSnapshots(node', node)
  BY RunTestKeepsSandbox
<1>4. pushed' = pushed /\ hooksRun' = 0
  BY <1>1, <1>2 DEF pushed, hooksRun
<1>5. SoundChain(node'.chain) /\ Extends(node'.chain, node.chain)
  BY <1>0, TestLeavesChain DEF HandlesInv, ChainsSound
<1>6. ChainsSound'
  BY <1>3, <1>5 DEF HandlesInv, ChainsSound, SameSnapshots
<1>7. Extends(home', home)
  BY <1>3, <1>5, HomeGrows
<1>. QED  BY <1>1, <1>2, <1>3, <1>4, <1>6, <1>7, BetweenHooks

\* The chains of a node.
ChainsIn(n) == SoundChain(n.chain) /\ \A id \in DOMAIN n.snapshots : SoundChain(n.snapshots[id])

\* Snapshots are taken of chains, and a revert goes back to one.
LEMMA ChainsOfNode ==
    ASSUME NEW n, IsNode(n), ChainsIn(n)
    PROVE  /\ ChainsIn(evm_snapshot(n))
           /\ \A id \in DOMAIN n.snapshots : ChainsIn(evm_revert(n, id))
<1>1. ChainsIn(evm_snapshot(n))
  BY SnapshotTaken DEF ChainsIn
<1>2. ASSUME NEW id \in DOMAIN n.snapshots PROVE ChainsIn(evm_revert(n, id))
  BY Reverted DEF ChainsIn
<1>. QED  BY <1>1, <1>2

\* What the afterEach hooks send only adds to the chain, and restoreAfterEach takes it back.
LEMMA AfterEachKeepsHandles ==
    ASSUME StackInv, SandboxInv, HandlesInv, AfterEach
    PROVE  HandlesInv'
<1>0. MochaTypeOK /\ RunnerSound /\ IsNode(node) /\ FileKept /\ SoundChain(node.chain)
      /\ SameSnapshots(leftNode, node) /\ IsNode(leftNode)
  BY SentKeepsSnapshots DEF StackInv, StackKnown, SandboxInv, HandlesInv, ChainsSound, leftNode, SameSnapshots
<1>1. /\ mocha.stage = "afterEach" /\ UNCHANGED <<SNAPSHOTS, initialized, blockchains, handles>>
      /\ mocha' = [mocha EXCEPT !.stage = "suite"]
      /\ node' = IF Style[Head(path[mocha.suite])] = "snapshot"
                 THEN revertAsync(blockchains[Head(path[mocha.suite])], leftNode) ELSE leftNode
  BY DEF AfterEach, leftNode
<1>2. /\ mocha'.suite = mocha.suite /\ mocha'.left = mocha.left /\ mocha'.stage = "suite"
      /\ mocha'.failed = mocha.failed /\ mocha.suite # Root
  BY <1>0, <1>1 DEF MochaTypeOK, RunnerSound
<1>3. SameSandbox /\ (~inSnapshotFile => node' = leftNode)
  BY AfterEachKeepsSandbox
<1>4. pushed' = pushed /\ hooksRun' = 0
  BY <1>1, <1>2 DEF pushed, hooksRun
<1>5. SoundChain(leftNode.chain) /\ Extends(leftNode.chain, node.chain)
  BY <1>0, SentIsSound DEF leftNode
<1>6. ChainsIn(leftNode)
  BY <1>0, <1>5 DEF HandlesInv, ChainsSound, ChainsIn, SameSnapshots
<1>7. ChainsIn(node')
  <2>1. CASE inSnapshotFile
    <3>1. Head(path[mocha.suite]) = inside[1]
      BY <1>0, <1>2, InsideFacts
    <3>2. node' = evm_revert(leftNode, fileSnapshot)
      BY <1>1, <2>1, <3>1 DEF inSnapshotFile, fileSnapshot, revertAsync
    <3>3. fileSnapshot \in DOMAIN leftNode.snapshots
      BY <1>0, <1>1, <2>1 DEF FileKept, betweenTests, SameSnapshots
    <3>. QED  BY <1>0, <1>6, <3>2, <3>3, ChainsOfNode
  <2>2. CASE ~inSnapshotFile
    BY <1>3, <1>6, <2>2
  <2>. QED  BY <2>1, <2>2
<1>8. ChainsSound'
  BY <1>7 DEF ChainsSound, ChainsIn
<1>9. Extends(home', home)
  BY <1>3, <1>5, HomeGrows
<1>. QED  BY <1>1, <1>2, <1>3, <1>4, <1>8, <1>9, BetweenHooks

\* A hook that returns, and leaves a chain that has grown with its own handles live on it.
LEMMA HookLeavesLive ==
    ASSUME StackInv, HandlesInv, SameSandbox, mocha.stage = "beforeEach",
           Returned, NEW chain, Noted(chain), Extends(node'.chain, node.chain),
           \A s \in Suites : s # hooked => handles'[s] = handles[s],
           AllLive(handles'[hooked], node'.chain)
    PROVE  HooksLive'
<1>. DEFINE h == mocha.hook
<1>1. /\ h \in 1 .. Len(inside) /\ hooked = inside[h] /\ hooked \in Suites /\ Len(inside) \in Nat
      /\ inside \in Seq(Suites) /\ \A i, j \in 1 .. Len(inside) : inside[i] = inside[j] => i = j
  BY HookPlace, InsideFacts DEF StackInv
<1>2. hooksRun' = h /\ inside' = inside
  BY HookHasRun DEF Returned, inside
<1>3. \A i \in 1 .. (h - 1) : AllLive(handles[inside[i]], node.chain)
  BY AroundIsLive
<1>4. Extends(node.chain, home) /\ (~inSnapshotFile' => home' = node'.chain)
  BY DEF HandlesInv, HooksLive, home
<1>. HIDE DEF inside, hooked, home, inSnapshotFile
<1>5. Extends(node'.chain, home')
  BY <1>4 DEF SameSandbox, Extends
<1>6. ASSUME NEW j \in 1 .. h PROVE AllLive(handles'[inside[j]], node'.chain)
  <2>1. CASE j = h
    BY <1>1, <2>1
  <2>2. CASE j # h
    <3>1. j \in 1 .. (h - 1) /\ inside[j] \in Suites /\ inside[j] # inside[h]
      BY <1>1, <2>2
    <3>2. handles'[inside[j]] = handles[inside[j]]
      BY <1>1, <3>1
    <3>. QED  BY <1>3, <3>1, <3>2, LiveExtends
  <2>. QED  BY <2>1, <2>2
<1>. QED  BY <1>2, <1>5, <1>6 DEF HooksLive

\* addSnapshotBeforeRestoreAfterEach takes a snapshot of the chain that the file's handles are for.
LEMMA SnapshotBeforeEachKeepsHandles ==
    ASSUME StackInv, SandboxInv, HandlesInv, SnapshotBeforeEach
    PROVE  HandlesInv'
<1>1. /\ mocha.stage = "beforeEach" /\ Style[hooked] = "snapshot" /\ node' = evm_snapshot(node)
      /\ UNCHANGED <<SNAPSHOTS, initialized, handles>>
  BY DEF SnapshotBeforeEach, saveSnapshotAsync
<1>2. /\ SameSandbox /\ Returned /\ Noted(node'.chain) /\ inSnapshotFile /\ mocha.hook = 1
      /\ node'.chain = node.chain /\ home = node.chain
  BY SnapshotBeforeEachKeepsSandbox
<1>3. /\ mocha.hook \in 1 .. Len(inside) /\ hooked = inside[mocha.hook] /\ hooked \in Suites
      /\ mocha.failed = NoSuite
  BY <1>1, HookPlace DEF StackInv, RunnerSound
<1>4. pushed' = pushed /\ mocha'.suite = mocha.suite /\ mocha'.failed = NoSuite
  BY <1>1, <1>2, HookHasRun DEF Returned, pushed
<1>5. VariablesSound'
  BY <1>1, <1>3, <1>4, VariablesWithin DEF HandlesInv
<1>6. Extends(node'.chain, node.chain)
  BY <1>2 DEF Extends
<1>7. CacheLive' /\ LastingLive'
  BY <1>1, <1>2, <1>6, HomeGrows, LiveWithin DEF HandlesInv
<1>8. AllLive(handles'[hooked], node'.chain)
  <2>1. AllLive(handles[hooked], home)
    BY <1>1, <1>3 DEF HandlesInv, LastingLive, Lasting
  <2>. QED  BY <1>1, <1>2, <2>1
<1>9. HooksLive'
  BY <1>1, <1>2, <1>6, <1>8, HookLeavesLive
<1>10. ChainsSound'
  <2>1. ChainsIn(node')
    BY <1>1, ChainsOfNode DEF HandlesInv, ChainsSound, ChainsIn, StackInv, StackKnown
  <2>. QED  BY <2>1 DEF ChainsSound, ChainsIn
<1>. QED  BY <1>5, <1>7, <1>9, <1>10 DEF HandlesInv

\* The handles of a suite that was initialized in `before' are live on the chain that its test gets.
LEMMA NoBeforeEachKeepsHandles ==
    ASSUME StackInv, SandboxInv, HandlesInv, NoBeforeEach
    PROVE  HandlesInv'
<1>1. /\ mocha.stage = "beforeEach" /\ Style[hooked] = "before" /\ hookReturns(node)
      /\ UNCHANGED <<node, SNAPSHOTS, initialized, blockchains, handles>>
  BY DEF NoBeforeEach
<1>2. SameSandbox /\ Returned /\ Noted(node.chain)
  BY <1>1, NoBeforeEachKeepsSandbox, HookReturned, HookNotes DEF StackInv
<1>3. /\ mocha.hook \in 1 .. Len(inside) /\ hooked = inside[mocha.hook] /\ hooked \in Suites
      /\ mocha.failed = NoSuite
  BY <1>1, HookPlace DEF StackInv, RunnerSound
<1>4. pushed' = pushed /\ mocha'.suite = mocha.suite /\ mocha'.failed = NoSuite
  BY <1>1, <1>2, HookHasRun DEF Returned, pushed
<1>5. VariablesSound'
  BY <1>1, <1>3, <1>4, VariablesWithin DEF HandlesInv
<1>6. Extends(node'.chain, node.chain)
  BY <1>1 DEF Extends
<1>7. CacheLive' /\ LastingLive'
  BY <1>1, <1>2, <1>6, HomeGrows, LiveWithin DEF HandlesInv
<1>8. AllLive(handles'[hooked], node'.chain)
  <2>1. AllLive(handles[hooked], home) /\ Extends(node.chain, home)
    BY <1>1, <1>3 DEF HandlesInv, LastingLive, Lasting, HooksLive
  <2>. HIDE DEF hooked, home
  <2>. QED  BY <1>1, <2>1, LiveExtends
<1>9. HooksLive'
  BY <1>1, <1>2, <1>6, <1>8, HookLeavesLive
<1>10. ChainsSound'
  BY <1>1 DEF HandlesInv, ChainsSound
<1>. QED  BY <1>5, <1>7, <1>9, <1>10 DEF HandlesInv

\* A plain hook assigns the handles of its own suite, which is not on the stack.
LEMMA PlainBeforeEachKeepsHandles ==
    ASSUME StackInv, SandboxInv, HandlesInv, PlainBeforeEach
    PROVE  HandlesInv'
<1>1. /\ mocha.stage = "beforeEach" /\ Style[hooked] = "plain"
      /\ UNCHANGED <<SNAPSHOTS, initialized, blockchains>>
  BY DEF PlainBeforeEach
<1>2. PICK outcome \in outcomes(hooked, mocha.suite) :
          /\ node' = outcome.state.node
          /\ handles' = [handles EXCEPT ![hooked] = outcome.state.handles]
          /\ IF outcome.thrown THEN hookThrows ELSE hookReturns(outcome.state.node)
  BY DEF PlainBeforeEach
<1>3. /\ mocha.hook \in 1 .. Len(inside) /\ hooked = inside[mocha.hook] /\ hooked \in Suites
      /\ mocha.suite \in Suites /\ mocha.suite # Root /\ mocha.failed = NoSuite
      /\ IsNode(node) /\ MochaTypeOK /\ RunnerSound
      /\ ChainsSound /\ VariablesSound /\ CacheLive /\ LastingLive /\ HooksLive
  BY <1>1, HookPlace DEF StackInv, StackKnown, RunnerSound, HandlesInv
<1>4. SameSandbox /\ SameSnapshots(node', node)
  BY PlainBeforeEachKeepsSandbox
<1>5. InitializerLeft(hooked, outcome)
  <2>1. \A plan : ReadsLive(handles, hooked, plan, node.chain)
    BY <1>1, AroundIsLive
  <2>. HIDE DEF hooked
  <2>. QED  BY <1>1, <1>3, <2>1, InitializerSound
<1>. DEFINE own == outcome.state.handles
<1>6. /\ SoundChain(node'.chain) /\ Extends(node'.chain, node.chain)
      /\ ~outcome.thrown => AllLive(own, node'.chain)
      /\ \A t \in Suites : \A plan \in Initializers[hooked][t] : DOMAIN own \subseteq assigns(plan)
  BY <1>1, <1>2, <1>5 DEF InitializerLeft
<1>7. /\ handles' = [handles EXCEPT ![hooked] = own]
      /\ DOMAIN handles' = Suites /\ handles'[hooked] = own
      /\ \A t \in Suites : t # hooked => handles'[t] = handles[t]
  BY <1>2, <1>3 DEF VariablesSound
<1>. HIDE DEF own
<1>8. ChainsSound'
  BY <1>3, <1>4, <1>6 DEF ChainsSound, SameSnapshots
<1>9. mocha'.suite = mocha.suite /\ pushed' = pushed /\ HooksLive'
  <2>1. CASE outcome.thrown
    <3>1. hookThrows
      BY <1>2, <2>1
    <3>2. mocha'.suite = mocha.suite /\ mocha'.left = mocha.left /\ mocha'.stage = "afterEach"
      BY <1>1, <1>3, <3>1, HookThrew
    <3>3. pushed' = pushed
      BY <1>1, <3>2 DEF pushed
    <3>4. HooksLive'
      BY <3>2 DEF HooksLive, hooksRun
    <3>. QED  BY <3>2, <3>3, <3>4
  <2>2. CASE ~outcome.thrown
    <3>1. hookReturns(node')
      BY <1>2, <2>2
    <3>2. Returned /\ Noted(node'.chain)
      BY <1>1, <1>3, <3>1, HookReturned, HookNotes
    <3>3. mocha'.suite = mocha.suite /\ mocha'.left = mocha.left
      BY <3>2 DEF Returned
    <3>4. pushed' = pushed
      BY <1>1, <3>3 DEF pushed
    <3>5. HooksLive'
      <4>1. AllLive(handles'[hooked], node'.chain)
        BY <1>6, <1>7, <2>2
      <4>. QED  BY <1>1, <1>4, <1>6, <1>7, <3>2, <4>1, HookLeavesLive
    <3>. QED  BY <3>3, <3>4, <3>5
  <2>. QED  BY <2>1, <2>2
<1>10. VariablesSound'
  <2>. HIDE DEF hooked
  <2>. QED  BY <1>1, <1>3, <1>6, <1>7, <1>9, VariablesWithin
<1>11. CacheLive' /\ LastingLive'
  <2>1. Extends(home', home)
    BY <1>4, <1>6, HomeGrows
  <2>2. \A s \in Suites : Style[s] # "plain" => handles'[s] = handles[s]
    BY <1>1, <1>7
  <2>. QED  BY <1>3, <1>4, <2>1, <2>2, LiveWithin
<1>. QED  BY <1>8, <1>9, <1>10, <1>11 DEF HandlesInv

\* cacheBeforeEach, later: the handles were live on the chain on top, and they still are.
LEMMA RestoreKeepsHandles ==
    ASSUME StackInv, SandboxInv, HandlesInv, mocha.stage = "beforeEach", Style[hooked] = "cache",
           initialized[hooked], cacheRestore(hooked)
    PROVE  HandlesInv'
<1>. DEFINE k == Len(SNAPSHOTS)
            reverted == revertByIdAsync(node, Last(SNAPSHOTS))
<1>0. /\ MochaTypeOK /\ RunnerSound /\ StackMatches /\ StackKnown /\ IsNode(node)
      /\ ChainsIn(node) /\ VariablesSound /\ CacheLive /\ LastingLive /\ mocha.failed = NoSuite
  BY DEF StackInv, HandlesInv, ChainsSound, ChainsIn, StackKnown, RunnerSound
<1>1. /\ mocha.suite # Root /\ mocha.hook \in 1 .. Len(inside) /\ hooked = inside[mocha.hook]
      /\ hooked \in Suites /\ mocha.hook <= k
  BY HookPlace
<1>2. /\ SameSandbox /\ Returned /\ Noted(node'.chain)
      /\ k \in Nat \ {0} /\ node'.chain = kept[k]
  BY RestoreKeepsSandbox
<1>3. UNCHANGED <<handles, initialized>> /\ node' = evm_snapshot(reverted)
  BY DEF cacheRestore, saveSnapshotAsync
<1>4. mocha'.suite = mocha.suite /\ pushed' = pushed /\ hooksRun' = mocha.hook /\ inside' = inside
  BY <1>2, <1>3, HookHasRun DEF Returned, pushed, inside
<1>5. ChainsSound'
  <2>1. SNAPSHOTS[k] \in DOMAIN node.snapshots /\ Last(SNAPSHOTS) = SNAPSHOTS[k]
    <3>1. SNAPSHOTS \in Seq(Nat) /\ k > 0
      BY <1>0, <1>2 DEF StackMatches
    <3>2. Last(SNAPSHOTS) = SNAPSHOTS[k]
      BY <3>1, PopFacts
    <3>3. SNAPSHOTS[k] \in DOMAIN node.snapshots
      BY <1>0, <1>2 DEF StackKnown
    <3>. QED  BY <3>2, <3>3
  <2>2. reverted = evm_revert(node, SNAPSHOTS[k])
    BY <2>1 DEF revertByIdAsync
  <2>3. ChainsIn(reverted) /\ IsNode(reverted)
    BY <1>0, <2>1, <2>2, ChainsOfNode, Reverted
  <2>. HIDE DEF reverted
  <2>4. ChainsIn(node')
    BY <1>3, <2>3, ChainsOfNode
  <2>. QED  BY <2>4 DEF ChainsSound, ChainsIn
<1>6. VariablesSound'
  BY <1>0, <1>1, <1>3, <1>4, VariablesWithin
<1>7. Style[inside[1]] = "cache"
  BY <1>0, <1>1, CachedInCached
<1>8. CacheLive' /\ LastingLive'
  BY <1>0, <1>1, <1>2, <1>3, <1>7, NoneLasting, LiveWithin
<1>9. ~inSnapshotFile'
  BY <1>2, CachedFile DEF SameSandbox
<1>10. home' = node'.chain
  BY <1>9 DEF home
<1>11. \A j \in 1 .. mocha.hook : AllLive(handles[inside[j]], kept[k])
  <2>. HIDE DEF kept, inside
  <2>1. k \in 1 .. k /\ \A j \in 1 .. mocha.hook : j \in 1 .. k
    BY <1>1, <1>2
  <2>. QED  BY <1>0, <2>1 DEF CacheLive
<1>12. HooksLive'
  <2>. HIDE DEF kept, inside, home
  <2>. QED  BY <1>2, <1>3, <1>4, <1>10, <1>11 DEF HooksLive, Extends
<1>. QED  BY <1>5, <1>6, <1>8, <1>12 DEF HandlesInv

\* cacheBeforeEach, first time: the handles that the initializer assigns are live on the chain
\* that is pushed, and so are those of the suites around.
LEMMA InitializeKeepsHandles ==
    ASSUME StackInv, SandboxInv, HandlesInv, mocha.stage = "beforeEach", Style[hooked] = "cache",
           ~initialized[hooked], cacheInitializer(hooked)
    PROVE  HandlesInv'
<1>. DEFINE k == Len(SNAPSHOTS)
            h == mocha.hook
<1>0. /\ MochaTypeOK /\ RunnerSound /\ StackMatches /\ IsNode(node) /\ mocha.failed = NoSuite
      /\ ChainsSound /\ VariablesSound /\ CacheLive /\ LastingLive
  BY DEF StackInv, HandlesInv, StackKnown, RunnerSound
<1>1. /\ mocha.suite \in Suites /\ mocha.suite # Root
      /\ h \in 1 .. Len(inside) /\ hooked = inside[h] /\ hooked \in Suites
      /\ k \in Nat /\ h = k + 1 /\ Len(inside) \in Nat /\ ~inSnapshotFile
  BY HookPlace, CachedFile
<1>2. /\ inside \in Seq(Suites) /\ \A i, j \in 1 .. Len(inside) : inside[i] = inside[j] => i = j
      /\ hooked \notin mocha.left /\ initialized \in [Suites -> BOOLEAN]
  BY <1>0, <1>1, InsideFacts DEF RunnerSound, StackMatches
<1>3. PICK outcome \in outcomes(hooked, mocha.suite) :
        /\ node'.chain = outcome.state.node.chain
        /\ handles' = [handles EXCEPT ![hooked] = outcome.state.handles]
        /\ \/ /\ hookThrows /\ SameSandbox /\ node' = outcome.state.node
              /\ UNCHANGED <<SNAPSHOTS, initialized, blockchains>>
           \/ /\ ~outcome.thrown /\ Returned /\ Noted(node'.chain)
              /\ node' = evm_snapshot(outcome.state.node)
              /\ initialized' = [initialized EXCEPT ![hooked] = TRUE]
              /\ PushedOn(Len(SNAPSHOTS), node'.chain)
  BY InitializeKeepsSandbox
<1>. DEFINE made == outcome.state.node
            own == outcome.state.handles
<1>4. SameSnapshots(made, node)
  BY <1>0, <1>1, InitializerKeepsSnapshots
<1>5. handles[hooked] = <<>>
  <2>1. hooked \notin pushed
    BY DEF pushed
  <2>2. hooked # mocha.failed
    BY <1>0, <1>1, NestingAssumption
  <2>. QED  BY <1>0, <1>1, <2>1, <2>2 DEF VariablesSound
<1>6. SoundChain(made.chain) /\ Extends(made.chain, node.chain) /\ AllLive(own, made.chain)
  <2>1. \A plan : ReadsLive(handles, hooked, plan, node.chain)
    BY AroundIsLive
  <2>2. InitializerLeft(hooked, outcome)
    <3>. HIDE DEF hooked
    <3>. QED  BY <1>0, <1>1, <1>5, <2>1, InitializerSound
  <2>. QED  BY <1>5, <2>2 DEF InitializerLeft
<1>7. /\ DOMAIN handles' = Suites /\ handles'[hooked] = own
      /\ \A t \in Suites : t # hooked => handles'[t] = handles[t]
  BY <1>0, <1>1, <1>3 DEF VariablesSound
<1>8. \A i \in 1 .. k : inside[i] # hooked /\ inside[i] \in Suites
  <2>. HIDE DEF inside, hooked, h, k
  <2>1. \A i \in 1 .. k : i \in 1 .. Len(inside) /\ i # h
    BY <1>1
  <2>. QED  BY <1>1, <1>2, <2>1
<1>9. \A j \in 1 .. k : AllLive(handles'[inside[j]], made.chain)
  <2>. TAKE j \in 1 .. k
  <2>1. AllLive(handles[inside[j]], node.chain)
    BY <1>1, AroundIsLive
  <2>. DEFINE outer == handles[inside[j]]
  <2>2. handles'[inside[j]] = outer
    BY <1>7, <1>8
  <2>. HIDE DEF outer, made
  <2>. QED  BY <1>6, <2>1, <2>2, LiveExtends DEF outer
<1>. HIDE DEF made, own
<1>10. ChainsIn(made) /\ IsNode(made)
  BY <1>0, <1>4, <1>6 DEF ChainsIn, ChainsSound, SameSnapshots
<1>11. \A j \in 1 .. Len(inside) : ~Lasting(inside[j])
  <2>1. Style[inside[1]] = "cache"
    BY <1>0, <1>1, CachedInCached
  <2>. QED  BY <1>1, <2>1, NoneLasting
<1>12. ASSUME mocha'.suite = mocha.suite, pushed \subseteq pushed',
              hooked \in pushed' \/ hooked = mocha'.failed
       PROVE  VariablesSound' /\ ~inSnapshotFile' /\ inside' = inside /\ LastingLive'
  <2>1. inside' = inside /\ ~inSnapshotFile'
    BY <1>1, <1>12 DEF inside, inSnapshotFile
  <2>2. \A t \in Suites : t # mocha.failed
    BY <1>0, NestingAssumption
  <2>. HIDE DEF inside, pushed, hooked, inSnapshotFile
  <2>3. DOMAIN handles' = Suites
    BY <1>7
  <2>4. \A s \in Suites : (\A i \in 1 .. Len(inside') : s # inside'[i]) => handles'[s] = <<>>
    BY <1>0, <1>1, <1>7, <2>1 DEF VariablesSound
  <2>5. \A s \in Suites : Style[s] = "cache" /\ s \notin pushed' /\ s # mocha'.failed => handles'[s] = <<>>
    BY <1>0, <1>7, <1>12, <2>2 DEF VariablesSound
  <2>6. \A s, t \in Suites : Style[s] = "plain" =>
          \A plan \in Initializers[s][t] : DOMAIN handles'[s] \subseteq assigns(plan)
    BY <1>0, <1>7 DEF VariablesSound
  <2>7. VariablesSound'
    BY <2>3, <2>4, <2>5, <2>6 DEF VariablesSound
  <2>8. LastingLive'
    BY <1>11, <2>1 DEF LastingLive
  <2>. QED  BY <2>1, <2>7, <2>8
<1>13. ASSUME node' = made, hookThrows, SameSandbox, UNCHANGED <<SNAPSHOTS, initialized>>
       PROVE  HandlesInv'
  <2>1. /\ mocha'.suite = mocha.suite /\ mocha'.left = mocha.left /\ mocha'.stage = "afterEach"
    BY <1>0, <1>13, HookThrew
  <2>2. mocha'.failed = hooked
    BY <1>0, <1>13 DEF hookThrows, MochaTypeOK
  <2>3. pushed' = pushed
    BY <1>13, <2>1 DEF pushed
  <2>4. VariablesSound' /\ inside' = inside /\ LastingLive'
    BY <1>12, <2>1, <2>2, <2>3
  <2>5. ChainsSound'
    BY <1>10, <1>13 DEF ChainsSound, ChainsIn
  <2>6. HooksLive'
    BY <2>1 DEF HooksLive, hooksRun
  <2>. HIDE DEF inside, pushed, hooked, inSnapshotFile, kept, home
  <2>7. \A i \in 1 .. k : \A j \in 1 .. i : AllLive(handles'[inside[j]], kept[i])
    <3>. TAKE i \in 1 .. k
    <3>. TAKE j \in 1 .. i
    <3>1. j \in 1 .. k
      BY <1>1
    <3>. QED  BY <1>0, <1>7, <1>8, <3>1 DEF CacheLive
  <2>8. CacheLive'
    BY <1>13, <2>4, <2>7 DEF CacheLive, SameSandbox
  <2>. QED  BY <2>4, <2>5, <2>6, <2>8 DEF HandlesInv
<1>14. ASSUME node'.chain = made.chain, node' = evm_snapshot(made), Returned, Noted(node'.chain),
              initialized' = [initialized EXCEPT ![hooked] = TRUE], PushedOn(k, node'.chain)
       PROVE  HandlesInv'
  <2>1. /\ Len(SNAPSHOTS') = k + 1 /\ kept'[k + 1] = made.chain
        /\ \A i \in 1 .. k : kept'[i] = kept[i]
    BY <1>14 DEF PushedOn
  <2>2. mocha'.suite = mocha.suite /\ mocha'.left = mocha.left /\ hooksRun' = k + 1
    BY <1>1, <1>14, HookHasRun DEF Returned
  <2>3. pushed \subseteq pushed' /\ hooked \in pushed'
    <3>1. \A s \in Suites : initialized[s] \/ s = hooked => initialized'[s]
      BY <1>1, <1>2, <1>14
    <3>. QED  BY <1>1, <1>2, <2>2, <3>1 DEF pushed
  <2>4. VariablesSound' /\ ~inSnapshotFile' /\ inside' = inside /\ LastingLive'
    BY <1>12, <2>2, <2>3
  <2>5. ChainsSound'
    <3>1. ChainsIn(node')
      BY <1>10, <1>14, ChainsOfNode
    <3>. QED  BY <3>1 DEF ChainsSound, ChainsIn
  <2>6. home' = node'.chain
    BY <2>4 DEF home
  <2>. HIDE DEF inside, pushed, hooked, inSnapshotFile, kept, home
  <2>7. \A j \in 1 .. (k + 1) : AllLive(handles'[inside[j]], made.chain)
    <3>. TAKE j \in 1 .. (k + 1)
    <3>1. CASE j = k + 1
      BY <1>1, <1>6, <1>7, <3>1
    <3>2. CASE j # k + 1
      <4>1. j \in 1 .. k
        BY <1>1, <3>2
      <4>. QED  BY <1>9, <4>1
    <3>. QED  BY <3>1, <3>2
  <2>8. \A i \in 1 .. (k + 1) : \A j \in 1 .. i : AllLive(handles'[inside[j]], kept'[i])
    <3>. TAKE i \in 1 .. (k + 1)
    <3>. TAKE j \in 1 .. i
    <3>1. CASE i = k + 1
      BY <2>1, <2>7, <3>1
    <3>2. CASE i # k + 1
      <4>1. i \in 1 .. k /\ j \in 1 .. k
        BY <1>1, <3>2
      <4>2. AllLive(handles[inside[j]], kept[i])
        BY <1>0, <4>1 DEF CacheLive
      <4>. QED  BY <1>7, <1>8, <2>1, <4>1, <4>2
    <3>. QED  BY <3>1, <3>2
  <2>9. CacheLive'
    BY <2>1, <2>4, <2>8 DEF CacheLive
  <2>10. HooksLive'
    BY <1>14, <2>2, <2>4, <2>6, <2>7 DEF HooksLive, Extends
  <2>. QED  BY <2>4, <2>5, <2>9, <2>10 DEF HandlesInv
<1>. QED  BY <1>3, <1>13, <1>14 DEF made

\* What `before' does when a suite is entered: it runs the initializer, or sends transactions.
BeforeHook(s) ==
    \/ Lasting(s) /\ \E outcome \in outcomes(s, s) :
         /\ node' = outcome.state.node
         /\ handles' = [handles EXCEPT ![s] = outcome.state.handles]
    \/ ~Lasting(s) /\ UNCHANGED handles /\ \E b : node' = sent(node, b)

\* `before' runs on variables around that it does not read, or that are live.
LEMMA BeforeReadsLive ==
    ASSUME StackInv, SandboxInv, HandlesInv, EnterSuite, Lasting(mocha'.suite)
    PROVE  \A plan \in Initializers[mocha'.suite][mocha'.suite] :
              ReadsLive(handles, mocha'.suite, plan, node.chain)
<1>. DEFINE s == mocha'.suite
<1>1. /\ s \in Suites /\ Parent(s) = mocha.suite /\ Len(inside') = Len(inside) + 1
      /\ \A i \in 1 .. Len(inside) : inside'[i] = inside[i]
  BY EnterSuiteKeepsStack DEF StepIn
<1>2. /\ inside' = path[s] /\ path[s] \in Seq(Suites)
      /\ Len(inside) \in Nat /\ inside \in Seq(Suites)
  <2>1. MochaTypeOK' /\ mocha'.suite # Root /\ MochaTypeOK
    BY <1>1, EnterSuiteKeepsStack, NestingAssumption DEF StackInv
  <2>2. inside' = path[s]
    BY <1>1, <2>1 DEF inside, around
  <2>. QED  BY <1>1, <2>1, <2>2, InsideFacts, PathFacts DEF PathOK
<1>3. home = node.chain
  BY EnterSuiteKeepsSandbox
<1>. SUFFICES ASSUME NEW plan \in Initializers[s][s], NEW n \in DOMAIN plan,
                     NEW kind \in reads(plan[n]), NEW i \in 1 .. (Len(path[s]) - 1),
                     kind \in DOMAIN handles[path[s][i]]
              PROVE  Live(handles[path[s][i]], node.chain, kind)
  BY DEF ReadsLive
<1>. DEFINE outer == path[s][i]
<1>4. i \in 1 .. Len(inside) /\ outer = inside[i] /\ outer \in Suites /\ i \in DOMAIN path[s]
  <2>. HIDE DEF inside, s
  <2>. QED  BY <1>1, <1>2
<1>5. Style[s] = "before"
  <2>. SUFFICES ASSUME Style[s] = "snapshot" PROVE FALSE
    BY DEF Lasting
  <2>1. path[s] = <<s>>
    BY <1>1, SuitesAssumption, PathUnfolds
  <2>. QED  BY <2>1
<1>6. Style[outer] # "cache"
  BY <1>1, <1>4, <1>5, SuitesAssumption
<1>7. Style[outer] # "plain"
  <2>. SUFFICES ASSUME Style[outer] = "plain" PROVE FALSE
    OBVIOUS
  <2>1. PICK hook \in Initializers[outer][s] : hook \in Seq(Step)
    BY <1>1, <1>4, PlainPlan
  <2>2. DOMAIN handles[outer] \subseteq assigns(hook)
    BY <1>1, <1>4 DEF HandlesInv, VariablesSound
  <2>3. reads(plan[n]) \cap assigns(hook) = {}
    BY <1>1, <1>4, <1>5, SuitesAssumption
  <2>. QED  BY <2>2, <2>3
<1>8. Lasting(outer)
  <2>1. Style[outer] \in {"cache", "snapshot", "before", "plain"}
    BY <1>4, SuitesAssumption
  <2>. QED  BY <1>6, <1>7, <2>1 DEF Lasting
<1>9. AllLive(handles[outer], home)
  BY <1>4, <1>8 DEF HandlesInv, LastingLive
<1>. HIDE DEF outer
<1>. QED  BY <1>3, <1>9 DEF AllLive, outer

\* A suite that is entered holds no handle, unless its initializer has just run.
LEMMA EnterSuiteKeepsHandles ==
    ASSUME StackInv, SandboxInv, HandlesInv, EnterSuite
    PROVE  HandlesInv'
<1>. DEFINE s == mocha'.suite
            k == Len(SNAPSHOTS)
<1>0. /\ MochaTypeOK /\ StackMatches /\ IsNode(node) /\ StepIn
      /\ ChainsSound /\ VariablesSound /\ CacheLive /\ LastingLive
  BY EnterSuiteKeepsStack DEF StackInv, StackKnown, HandlesInv
<1>1. /\ s \in Suites /\ Parent(s) = mocha.suite /\ mocha.stage = "suite" /\ mocha'.stage = "suite"
      /\ Len(inside') = Len(inside) + 1 /\ inside'[Len(inside')] = s
      /\ \A i \in 1 .. Len(inside) : inside'[i] = inside[i]
      /\ SameSnapshots(node', node) /\ pushed' = pushed /\ UNCHANGED SNAPSHOTS
  BY <1>0 DEF StepIn
<1>2. mocha.failed = NoSuite /\ BeforeHook(s)
  <2>. DEFINE c == Children[mocha.suite][Min(waiting)]
  <2>1. /\ mocha.failed = NoSuite
        /\ \/ Lasting(c) /\ \E outcome \in outcomes(c, c) :
                /\ node' = outcome.state.node
                /\ handles' = [handles EXCEPT ![c] = outcome.state.handles]
                /\ mocha' = [mocha EXCEPT !.suite = c,
                                          !.failed = IF outcome.thrown THEN c ELSE NoSuite]
           \/ /\ ~Lasting(c) /\ UNCHANGED handles /\ mocha' = [mocha EXCEPT !.suite = c]
              /\ node' = sent(node, "before" \in Sends[c])
    BY DEF EnterSuite, Lasting
  <2>. HIDE DEF c
  <2>2. s = c
    BY <1>0, <2>1 DEF MochaTypeOK
  <2>. HIDE DEF s
  <2>. QED  BY <2>1, <2>2 DEF BeforeHook
<1>3. /\ Len(inside) \in Nat /\ inside \in Seq(Suites) /\ k \in Nat /\ k <= Len(inside)
  BY <1>0, InsideFacts DEF StackMatches
<1>4. \A i \in 1 .. Len(inside) : inside[i] # s /\ inside[i] \in Suites
  <2>1. \A i, j \in 1 .. Len(inside') : inside'[i] = inside'[j] => i = j
    BY <1>1, AroundDistinct DEF inside
  <2>2. \A i \in 1 .. Len(inside) : i \in 1 .. Len(inside') /\ i # Len(inside')
                                    /\ Len(inside') \in 1 .. Len(inside')
    BY <1>1, <1>3
  <2>. HIDE DEF inside
  <2>. QED  BY <1>1, <1>3, <2>1, <2>2
<1>5. handles[s] = <<>> /\ DOMAIN handles = Suites
  BY <1>0, <1>1, <1>4 DEF VariablesSound
<1>6. /\ DOMAIN handles' = Suites /\ \A t \in Suites : t # s => handles'[t] = handles[t]
      /\ ~Lasting(s) => handles' = handles
  BY <1>1, <1>2, <1>5 DEF BeforeHook
<1>7. /\ SoundChain(node'.chain) /\ Extends(node'.chain, node.chain)
      /\ Lasting(s) => AllLive(handles'[s], node'.chain)
  <2>1. CASE ~Lasting(s)
    BY <1>0, <1>2, <2>1, SentIsSound DEF ChainsSound, BeforeHook
  <2>2. CASE Lasting(s)
    <3>1. PICK outcome \in outcomes(s, s) :
              /\ node' = outcome.state.node
              /\ handles' = [handles EXCEPT ![s] = outcome.state.handles]
      BY <1>2, <2>2 DEF BeforeHook
    <3>2. \A plan \in Initializers[s][s] : ReadsLive(handles, s, plan, node.chain)
      BY <2>2, BeforeReadsLive
    <3>3. handles'[s] = outcome.state.handles
      BY <1>1, <1>5, <3>1
    <3>. HIDE DEF s
    <3>4. InitializerLeft(s, outcome)
      BY <1>0, <1>1, <1>5, <3>2, InitializerSound
    <3>. QED  BY <1>5, <3>1, <3>3, <3>4 DEF InitializerLeft
  <2>. QED  BY <2>1, <2>2
<1>8. kept' = kept /\ home = node.chain /\ home' = node'.chain
  BY EnterSuiteKeepsSandbox
<1>9. ChainsSound'
  BY <1>0, <1>1, <1>7 DEF ChainsSound, SameSnapshots
<1>10. HooksLive'
  BY <1>1 DEF HooksLive, hooksRun
<1>. HIDE DEF s, inside, pushed, kept, home, inSnapshotFile
<1>11. VariablesSound'
  <2>1. \A t \in Suites : (\A i \in 1 .. Len(inside') : t # inside'[i]) =>
                            t # s /\ \A i \in 1 .. Len(inside) : t # inside[i]
    BY <1>1, <1>3
  <2>2. \A t \in Suites : t # mocha.failed
    BY <1>2, NestingAssumption
  <2>3. \A t \in Suites : Style[t] \in {"cache", "plain"} => handles'[t] = handles[t]
    BY <1>6 DEF Lasting
  <2>4. \A t \in Suites : (\A i \in 1 .. Len(inside') : t # inside'[i]) => handles'[t] = <<>>
    BY <1>0, <1>6, <2>1 DEF VariablesSound
  <2>5. \A t \in Suites : Style[t] = "cache" /\ t \notin pushed' /\ t # mocha'.failed => handles'[t] = <<>>
    BY <1>0, <1>1, <2>2, <2>3 DEF VariablesSound
  <2>6. \A u, t \in Suites : Style[u] = "plain" =>
          \A plan \in Initializers[u][t] : DOMAIN handles'[u] \subseteq assigns(plan)
    BY <1>0, <2>3 DEF VariablesSound
  <2>. QED  BY <1>6, <2>4, <2>5, <2>6 DEF VariablesSound
<1>12. CacheLive'
  <2>. SUFFICES ASSUME NEW i \in 1 .. k, NEW j \in 1 .. i
                PROVE  AllLive(handles'[inside'[j]], kept'[i])
    BY <1>1 DEF CacheLive
  <2>1. j \in 1 .. Len(inside)
    BY <1>3
  <2>2. inside'[j] = inside[j] /\ handles'[inside[j]] = handles[inside[j]]
    BY <1>1, <1>4, <1>6, <2>1
  <2>. QED  BY <1>0, <1>8, <2>2 DEF CacheLive
<1>13. LastingLive'
  <2>. SUFFICES ASSUME NEW j \in 1 .. Len(inside'), Lasting(inside'[j])
                PROVE  AllLive(handles'[inside'[j]], node'.chain)
    BY <1>8 DEF LastingLive
  <2>1. CASE j = Len(inside')
    BY <1>1, <1>7, <2>1
  <2>2. CASE j # Len(inside')
    <3>1. j \in 1 .. Len(inside)
      BY <1>1, <1>3, <2>2
    <3>2. inside'[j] = inside[j] /\ handles'[inside[j]] = handles[inside[j]]
      BY <1>1, <1>4, <1>6, <3>1
    <3>3. AllLive(handles[inside[j]], node.chain)
      BY <1>0, <1>8, <3>1, <3>2 DEF LastingLive
    <3>. QED  BY <1>7, <3>2, <3>3, LiveExtends
  <2>. QED  BY <2>1, <2>2
<1>. QED  BY <1>9, <1>10, <1>11, <1>12, <1>13 DEF HandlesInv

\* A suite that is left holds nothing any more; the suites around it keep their handles.
LEMMA LeaveSuiteKeepsHandles ==
    ASSUME StackInv, SandboxInv, HandlesInv, LeaveSuite
    PROVE  HandlesInv'
<1>. DEFINE s == mocha.suite
<1>0. /\ MochaTypeOK /\ StackInv' /\ StepOut /\ IsNode(node)
      /\ ChainsSound /\ VariablesSound /\ CacheLive /\ LastingLive
      /\ handles' = [handles EXCEPT ![s] = <<>>] /\ s # Root
      /\ mocha' = [mocha EXCEPT !.suite = Parent(s), !.left = @ \cup {s},
                                !.failed = IF @ = s THEN NoSuite ELSE @]
      /\ node' = sent(node, "after" \in Sends[s])
  BY LeaveSuiteKeepsStack DEF StackInv, StackKnown, HandlesInv, LeaveSuite
<1>1. /\ s \in Suites /\ mocha'.suite = Parent(s) /\ mocha.stage = "suite" /\ mocha'.stage = "suite"
      /\ Len(inside) = Len(inside') + 1 /\ Len(inside') \in Nat /\ inside[Len(inside)] = s
      /\ \A i \in 1 .. Len(inside') : inside'[i] = inside[i] /\ inside[i] # s
      /\ pushed' = pushed \ {s} /\ SameSnapshots(node', node)
      /\ \A i \in 1 .. Len(SNAPSHOTS') : SNAPSHOTS'[i] = SNAPSHOTS[i] /\ i \in 1 .. Len(SNAPSHOTS)
  BY <1>0 DEF StepOut
<1>2. /\ home = node.chain /\ home' = node'.chain
      /\ \A i \in 1 .. Len(SNAPSHOTS') : kept'[i] = kept[i]
  BY LeaveSuiteKeepsSandbox
<1>3. Len(SNAPSHOTS') \in Nat /\ Len(SNAPSHOTS') <= Len(inside') /\ inside \in Seq(Suites)
  BY <1>0, InsideFacts DEF StackInv, StackMatches
<1>4. /\ DOMAIN handles' = Suites /\ handles'[s] = <<>>
      /\ \A t \in Suites : t # s => handles'[t] = handles[t]
  BY <1>0, <1>1 DEF VariablesSound
<1>5. \A t \in Suites : t # s /\ t # mocha'.failed => t # mocha.failed
  BY <1>0 DEF MochaTypeOK
<1>6. SoundChain(node'.chain) /\ Extends(node'.chain, node.chain)
  BY <1>0, SentIsSound DEF ChainsSound
<1>7. ChainsSound'
  BY <1>0, <1>1, <1>6 DEF ChainsSound, SameSnapshots
<1>8. HooksLive'
  BY <1>1 DEF HooksLive, hooksRun
<1>. HIDE DEF s, inside, kept, pushed, home, inSnapshotFile
<1>9. VariablesSound'
  <2>1. ASSUME NEW t \in Suites, \A i \in 1 .. Len(inside') : t # inside'[i]
        PROVE  handles'[t] = <<>>
    <3>. SUFFICES ASSUME t # s PROVE \A i \in 1 .. Len(inside) : t # inside[i]
      BY <1>0, <1>4 DEF VariablesSound
    <3>. TAKE i \in 1 .. Len(inside)
    <3>1. CASE i = Len(inside)
      BY <1>1, <3>1
    <3>2. CASE i # Len(inside)
      <4>1. i \in 1 .. Len(inside')
        BY <1>1, <3>2
      <4>. QED  BY <1>1, <2>1, <4>1
    <3>. QED  BY <3>1, <3>2
  <2>2. \A t \in Suites : Style[t] = "cache" /\ t \notin pushed' /\ t # mocha'.failed =>
            handles'[t] = <<>>
    BY <1>0, <1>1, <1>4, <1>5 DEF VariablesSound
  <2>3. \A u, t \in Suites : Style[u] = "plain" =>
            \A plan \in Initializers[u][t] : DOMAIN handles'[u] \subseteq assigns(plan)
    <3>1. DOMAIN handles'[s] = {}
      BY <1>4
    <3>. QED  BY <1>0, <1>4, <3>1 DEF VariablesSound
  <2>. QED  BY <1>4, <2>1, <2>2, <2>3 DEF VariablesSound
<1>10. CacheLive'
  <2>. SUFFICES ASSUME NEW i \in 1 .. Len(SNAPSHOTS'), NEW j \in 1 .. i
                PROVE  AllLive(handles'[inside'[j]], kept'[i])
    BY DEF CacheLive
  <2>1. j \in 1 .. Len(inside') /\ j \in 1 .. Len(inside) /\ i \in 1 .. Len(SNAPSHOTS)
    BY <1>1, <1>3
  <2>2. inside'[j] = inside[j] /\ handles'[inside[j]] = handles[inside[j]]
    BY <1>1, <1>3, <1>4, <2>1
  <2>. QED  BY <1>0, <1>2, <2>1, <2>2 DEF CacheLive
<1>11. LastingLive'
  <2>. SUFFICES ASSUME NEW j \in 1 .. Len(inside'), Lasting(inside'[j])
                PROVE  AllLive(handles'[inside'[j]], node'.chain)
    BY <1>2 DEF LastingLive
  <2>1. j \in 1 .. Len(inside)
    BY <1>1
  <2>2. inside'[j] = inside[j] /\ handles'[inside[j]] = handles[inside[j]]
    BY <1>1, <1>3, <1>4, <2>1
  <2>3. AllLive(handles[inside[j]], node.chain)
    BY <1>0, <1>2, <2>1, <2>2 DEF LastingLive
  <2>. QED  BY <1>6, <2>2, <2>3, LiveExtends
<1>. QED  BY <1>7, <1>8, <1>9, <1>10, <1>11 DEF HandlesInv

\* The handles are live at the start, and every step keeps them.
LEMMA HandlesInductive ==
    /\ Init => HandlesInv
    /\ StackInv /\ SandboxInv /\ HandlesInv /\ [Next]_vars => HandlesInv'
<1>1. Init => HandlesInv
  <2>. SUFFICES ASSUME Init PROVE HandlesInv
    OBVIOUS
  <2>1. /\ node = freshNode /\ SNAPSHOTS = <<>> /\ mocha = notStarted
        /\ handles = [s \in Suites |-> <<>>]
    BY DEF Init, TestInit
  <2>2. mocha.suite = Root /\ mocha.stage = "suite"
    BY <2>1 DEF notStarted
  <2>3. ChainsSound
    <3>1. node.chain = genesis /\ DOMAIN node.snapshots = {}
      BY <2>1 DEF freshNode
    <3>2. SoundChain(genesis)
      BY DEF SoundChain, IsChain, Wired, genesis
    <3>. QED  BY <3>1, <3>2 DEF ChainsSound
  <2>4. VariablesSound
    BY <2>1 DEF VariablesSound
  <2>5. Len(inside) = 0 /\ Len(SNAPSHOTS) = 0
    BY <2>1, <2>2 DEF inside, around
  <2>6. CacheLive /\ LastingLive /\ HooksLive
    BY <2>2, <2>5 DEF CacheLive, LastingLive, HooksLive, hooksRun
  <2>. QED  BY <2>3, <2>4, <2>6 DEF HandlesInv
<1>2. StackInv /\ SandboxInv /\ HandlesInv /\ [Next]_vars => HandlesInv'
  <2>. SUFFICES ASSUME StackInv, SandboxInv, HandlesInv, [Next]_vars PROVE HandlesInv'
    OBVIOUS
  <2>1. CASE UNCHANGED testVars
    <3>1. UNCHANGED <<node, SNAPSHOTS, initialized, blockchains, handles, mocha>>
      BY <2>1 DEF testVars
    <3>2. /\ inside' = inside /\ pushed' = pushed /\ kept' = kept /\ hooksRun' = hooksRun
          /\ (inSnapshotFile' <=> inSnapshotFile) /\ home' = home
      BY <3>1 DEF inside, pushed, kept, inSnapshotFile, betweenTests, fileSnapshot, home, hooksRun
    <3>. HIDE DEF inside, pushed, kept, inSnapshotFile, home, hooksRun
    <3>. QED  BY <3>1, <3>2 DEF HandlesInv, ChainsSound, VariablesSound, CacheLive, LastingLive, HooksLive
  <2>2. CASE CacheBeforeEach
    BY <2>2, RestoreKeepsHandles, InitializeKeepsHandles DEF CacheBeforeEach
  <2>3. CASE TestNext
    BY <2>2, <2>3, EnterSuiteKeepsHandles, StartTestKeepsHandles, SnapshotBeforeEachKeepsHandles,
       PlainBeforeEachKeepsHandles, NoBeforeEachKeepsHandles, RunTestKeepsHandles,
       AfterEachKeepsHandles, LeaveSuiteKeepsHandles DEF TestNext
  <2>. QED  BY <2>1, <2>2, <2>3 DEF Next, vars
<1>. QED  BY <1>1, <1>2

\* utils/test/testingUtils.ts restores chains and no variables.  In every tree of suites that
\* follows the conventions of SuitesAssumption - cached suites, snapshot files, plain beforeEach
\* hooks nested to any depth that may act on a flag of the test's suite, `before' below them - and
\* whatever the initializers deploy, look up, send or throw, each handle in scope of a test that
\* starts is the address of a contract of its kind on the chain the hooks have made for it.
THEOREM TestsSeeLiveHandles == Spec => []HandlesLive
BY StackInductive, SandboxInductive, HandlesInductive, ScopeIsLive, PTL DEF Spec
-----------------------------------------------------------------------------
(* The chains that tests start from. *)

\* How many suites around have their state restored from a snapshot before a test, and to which
\* chain: the cached ones on the stack, or the suite of a snapshot file.
floor == IF inSnapshotFile THEN 1 ELSE Len(SNAPSHOTS)
base == IF inSnapshotFile THEN home ELSE kept[Len(SNAPSHOTS)]

\* The initializer of p, called for a test of t with the suites around holding what they hold in H,
\* can take the chain from to the chain to and leave p with what it holds in H.
Makes(p, t, H, from, to) ==
    \E plan \in Initializers[p][t] : \E held, start, end :
        /\ DOMAIN held = Suites /\ HoldSame(p, held, H)
        /\ IsState(start) /\ start.node.chain = from /\ DOMAIN start.handles \subseteq assigns(plan)
        /\ end \in steps(held, p, plan, start)[Len(plan)]
        /\ end.node.chain = to /\ Alike(end.handles, H[p])

\* The hooks after the first b of a test of s, up to the m-th, take chain C[b] to C[m].
Hook(s, C, H, i) ==
    IF Style[path[s][i]] = "plain" THEN Makes(path[s][i], s, H, C[i - 1], C[i]) ELSE C[i] = C[i - 1]

Replay(s, C, H, b, m) == \A i \in (b + 1) .. m : Hook(s, C, H, i)

\* Suites that are not plain hold the same.
SameRest(s, H1, H2) ==
    \A i \in 1 .. Len(path[s]) : Style[path[s][i]] # "plain" => Alike(H1[path[s][i]], H2[path[s][i]])

\* Whatever the plain suites around s held, the hooks after the first b of its tests take the chain
\* from to the chain to.
Ends(s, b, from, held, to) ==
    \A C, H : /\ DOMAIN H = Suites /\ SameRest(s, H, held)
              /\ C[b] = from /\ Replay(s, C, H, b, Len(path[s]))
              => C[Len(path[s])] = to

\* Equal handles are alike, and being alike is symmetric and transitive.
LEMMA AlikeFacts ==
    ASSUME NEW h1, NEW h2, NEW h3
    PROVE  /\ Alike(h1, h1) /\ (Alike(h1, h2) => Alike(h2, h1))
           /\ Alike(h1, h2) /\ Alike(h2, h3) => Alike(h1, h3)
BY DEF Alike, Agree

\* What a plain initializer makes is settled by the chain and by what the suites around hold.
LEMMA MakesOnce ==
    ASSUME NEW p \in Suites, NEW t \in Suites, Style[p] = "plain", NEW H1, NEW H2,
           HoldSame(p, H1, H2), NEW from, NEW to1, NEW to2,
           Makes(p, t, H1, from, to1), Makes(p, t, H2, from, to2)
    PROVE  to1 = to2 /\ Alike(H1[p], H2[p])
<1>1. PICK plan \in Initializers[p][t] :
         Initializers[p][t] = {plan} /\ AssignsFirst(plan) /\ plan \in Seq(Step)
  BY PlainPlan
<1>2. PICK held1, start1, end1 :
        /\ DOMAIN held1 = Suites /\ HoldSame(p, held1, H1)
        /\ IsState(start1) /\ start1.node.chain = from /\ DOMAIN start1.handles \subseteq assigns(plan)
        /\ end1 \in steps(held1, p, plan, start1)[Len(plan)]
        /\ end1.node.chain = to1 /\ Alike(end1.handles, H1[p])
  BY <1>1 DEF Makes
<1>3. PICK held2, start2, end2 :
        /\ DOMAIN held2 = Suites /\ HoldSame(p, held2, H2)
        /\ IsState(start2) /\ start2.node.chain = from /\ DOMAIN start2.handles \subseteq assigns(plan)
        /\ end2 \in steps(held2, p, plan, start2)[Len(plan)]
        /\ end2.node.chain = to2 /\ Alike(end2.handles, H2[p])
  BY <1>1 DEF Makes
<1>4. HoldSame(p, held1, held2)
  <2>. SUFFICES ASSUME NEW i \in 1 .. (Len(path[p]) - 1)
                PROVE  Alike(held1[path[p][i]], held2[path[p][i]])
    BY DEF HoldSame
  <2>. DEFINE q == path[p][i]
  <2>1. Alike(held1[q], H1[q]) /\ Alike(H1[q], H2[q]) /\ Alike(held2[q], H2[q])
    BY <1>2, <1>3 DEF HoldSame
  <2>. HIDE DEF q
  <2>2. Alike(held1[q], H2[q]) /\ Alike(H2[q], held2[q])
    BY <2>1, AlikeFacts
  <2>3. Alike(held1[q], held2[q])
    BY <2>2, AlikeFacts
  <2>. QED  BY <2>3 DEF q
<1>5. end1.node.chain = end2.node.chain /\ Alike(end1.handles, end2.handles)
  BY <1>1, <1>2, <1>3, <1>4, RunSame
<1>6. Alike(H1[p], end1.handles) /\ Alike(end1.handles, H2[p])
  BY <1>2, <1>3, <1>5, AlikeFacts
<1>7. Alike(H1[p], H2[p])
  BY <1>6, AlikeFacts
<1>. QED  BY <1>2, <1>3, <1>5, <1>7

\* What is made does not depend on suites that are not around.
LEMMA MakesSame ==
    ASSUME NEW p, NEW t, NEW H1, NEW H2, NEW from, NEW to, Makes(p, t, H1, from, to),
           \A i \in 1 .. (Len(path[p]) - 1) : H1[path[p][i]] = H2[path[p][i]], H1[p] = H2[p]
    PROVE  Makes(p, t, H2, from, to)
<1>1. \A held : HoldSame(p, held, H1) => HoldSame(p, held, H2)
  BY DEF HoldSame
<1>. QED  BY <1>1 DEF Makes

\* The hooks for a test of s do the same every time: those of plain suites assign what they read,
\* and what the others have left is the same.
LEMMA ReplaysAgree ==
    ASSUME NEW s \in Suites, NEW b \in 0 .. Len(path[s]), \A i \in 1 .. b : Style[path[s][i]] # "plain",
           NEW C1, NEW H1, NEW C2, NEW H2, SameRest(s, H1, H2), C1[b] = C2[b],
           Replay(s, C1, H1, b, Len(path[s])), Replay(s, C2, H2, b, Len(path[s]))
    PROVE  C1[Len(path[s])] = C2[Len(path[s])]
<1>. DEFINE n == Len(path[s])
            Same(i) == C1[i] = C2[i] /\ \A j \in 1 .. i : Alike(H1[path[s][j]], H2[path[s][j]])
            T == {i \in Nat : b <= i /\ i <= n => Same(i)}
<1>1. PathOK(s) /\ path[s] \in Seq(Suites) /\ n \in Nat /\ b \in Nat /\ b <= n
  BY PathFacts DEF PathOK
<1>2. Same(b)
  <2>1. \A j \in 1 .. b : j \in 1 .. n
    BY <1>1
  <2>. QED  BY <2>1 DEF SameRest
<1>3. ASSUME NEW i \in Nat, b <= i, i + 1 <= n, Same(i) PROVE Same(i + 1)
  <2>. DEFINE p == path[s][i + 1]
  <2>1. /\ i + 1 \in (b + 1) .. n /\ (i + 1) - 1 = i /\ i + 1 \in 1 .. n
    BY <1>1, <1>3
  <2>2. Hook(s, C1, H1, i + 1) /\ Hook(s, C2, H2, i + 1)
    BY <2>1 DEF Replay
  <2>3. p \in Suites /\ Len(path[p]) = i + 1 /\ \A j \in 1 .. (i + 1) : path[p][j] = path[s][j]
    BY <1>1, <2>1 DEF PathOK
  <2>4. C1[i + 1] = C2[i + 1] /\ Alike(H1[p], H2[p])
    <3>1. CASE Style[p] = "plain"
      <4>1. Makes(p, s, H1, C1[i], C1[i + 1]) /\ Makes(p, s, H2, C1[i], C2[i + 1])
        BY <1>3, <2>1, <2>2, <3>1 DEF Hook
      <4>2. HoldSame(p, H1, H2)
        <5>1. \A j \in 1 .. (Len(path[p]) - 1) : j \in 1 .. i /\ path[p][j] = path[s][j]
          BY <2>3
        <5>. QED  BY <1>3, <5>1 DEF HoldSame
      <4>. HIDE DEF p
      <4>. QED  BY <2>3, <3>1, <4>1, <4>2, MakesOnce
    <3>2. CASE Style[p] # "plain"
      <4>1. C1[i + 1] = C1[i] /\ C2[i + 1] = C2[i]
        BY <2>1, <2>2, <3>2 DEF Hook
      <4>2. Alike(H1[p], H2[p])
        BY <2>1, <3>2 DEF SameRest
      <4>. QED  BY <1>3, <4>1, <4>2
    <3>. QED  BY <3>1, <3>2
  <2>5. \A j \in 1 .. (i + 1) : j \in 1 .. i \/ j = i + 1
    BY <1>3
  <2>. QED  BY <1>3, <2>4, <2>5
<1>. HIDE DEF Same
<1>4. 0 \in T
  <2>1. b <= 0 => b = 0
    BY <1>1
  <2>. QED  BY <1>2, <2>1
<1>5. ASSUME NEW i \in Nat, i \in T PROVE i + 1 \in T
  <2>. SUFFICES ASSUME b <= i + 1, i + 1 <= n PROVE Same(i + 1)
    OBVIOUS
  <2>1. CASE b = i + 1
    BY <1>2, <2>1
  <2>2. CASE b # i + 1
    <3>1. b <= i /\ i <= n
      BY <1>1, <2>2
    <3>. QED  BY <1>3, <1>5, <3>1
  <2>. QED  BY <2>1, <2>2
<1>. HIDE DEF T
<1>6. n \in T
  BY <1>1, <1>4, <1>5, NumberInduction
<1>7. Same(n)
  BY <1>1, <1>6 DEF T
<1>. QED  BY <1>7 DEF Same

\* So one replay shows where they all end.
LEMMA ReplayEnds ==
    ASSUME NEW s \in Suites, NEW b \in 0 .. Len(path[s]), \A i \in 1 .. b : Style[path[s][i]] # "plain",
           NEW C, NEW held, Replay(s, C, held, b, Len(path[s]))
    PROVE  Ends(s, b, C[b], held, C[Len(path[s])])
<1>. SUFFICES ASSUME NEW C2, NEW H2, SameRest(s, H2, held), C2[b] = C[b],
                     Replay(s, C2, H2, b, Len(path[s]))
              PROVE  C2[Len(path[s])] = C[Len(path[s])]
  BY DEF Ends
<1>. QED  BY ReplaysAgree

\* Where they end depends on the suites that are not plain only.
LEMMA EndsSame ==
    ASSUME NEW s, NEW b, NEW from, NEW to, NEW held1, NEW held2, Ends(s, b, from, held1, to),
           \A i \in 1 .. Len(path[s]) : Style[path[s][i]] # "plain" => held1[path[s][i]] = held2[path[s][i]]
    PROVE  Ends(s, b, from, held2, to)
<1>1. \A H : SameRest(s, H, held2) => SameRest(s, H, held1)
  BY DEF SameRest
<1>. QED  BY <1>1 DEF Ends

\* All cached suites around have their snapshot.
AllPushed == \A i \in 1 .. Len(inside) : Style[inside[i]] = "cache" => i <= Len(SNAPSHOTS)

\* The runner is in a file with a sandbox, and another test of a suite whose first has started is
\* to come or under way.
repeats ==
    /\ mocha.suite # Root /\ Style[inside[1]] \in {"cache", "snapshot"}
    /\ firstChain[mocha.suite] # NoChain
    /\ mocha.stage = "suite" => mocha.ran[mocha.suite] < Tests[mocha.suite]

\* The tests of a suite come before the suites below it.
OuterDone == \A i \in 1 .. (Len(inside) - 1) : mocha.ran[inside[i]] = Tests[inside[i]]

\* The hooks will do again what they did for the suite's first test.
PastKept ==
    repeats => AllPushed /\ Ends(mocha.suite, floor, base, handles, firstChain[mocha.suite])

\* The hooks that have run since the sandbox was restored took its chain to where the chain is.
NowKept ==
    floor > 0 /\ hooksRun >= floor =>
        \E C : /\ C[floor] = base /\ C[hooksRun] = node.chain
               /\ Replay(mocha.suite, C, handles, floor, hooksRun)

TestStarted ==
    mocha.stage = "test" => AllPushed /\ (floor > 0 => node.chain = firstChain[mocha.suite])

StartInv == OuterDone /\ PastKept /\ NowKept /\ TestStarted

\* Where the sandbox is on the path.
LEMMA FloorFacts ==
    ASSUME StackInv
    PROVE  /\ floor \in Nat /\ Len(SNAPSHOTS) \in Nat /\ Len(inside) \in Nat /\ floor <= Len(inside)
           /\ \A i \in 1 .. floor : Style[inside[i]] # "plain"
           /\ mocha.suite # Root /\ Style[inside[1]] \in {"cache", "snapshot"} /\ AllPushed => floor > 0
           /\ floor > 0 => mocha.suite # Root /\ Style[inside[1]] \in {"cache", "snapshot"}
<1>1. /\ Len(inside) \in Nat /\ Len(SNAPSHOTS) \in Nat /\ Len(SNAPSHOTS) <= Len(inside)
      /\ \A i \in 1 .. Len(SNAPSHOTS) : Style[inside[i]] = "cache"
      /\ mocha.suite # Root => Len(inside) > 0
      /\ mocha.suite = Root => Len(inside) = 0
  BY InsideFacts DEF StackInv, StackMatches
<1>. HIDE DEF inside
<1>2. CASE inSnapshotFile
  <2>1. floor = 1 /\ mocha.suite # Root /\ Style[inside[1]] = "snapshot"
    BY <1>2 DEF floor, inSnapshotFile
  <2>2. \A i \in 1 .. 1 : i = 1
    OBVIOUS
  <2>. QED  BY <1>1, <2>1, <2>2
<1>3. CASE ~inSnapshotFile
  <2>1. floor = Len(SNAPSHOTS)
    BY <1>3 DEF floor
  <2>2. floor > 0 => 1 \in 1 .. Len(SNAPSHOTS)
    BY <1>1, <2>1
  <2>3. mocha.suite # Root => 1 \in 1 .. Len(inside)
    BY <1>1
  <2>4. mocha.suite # Root /\ Style[inside[1]] \in {"cache", "snapshot"} /\ AllPushed => floor > 0
    BY <1>1, <1>3, <2>1, <2>3 DEF AllPushed, inSnapshotFile
  <2>5. floor > 0 => mocha.suite # Root /\ Style[inside[1]] \in {"cache", "snapshot"}
    BY <1>1, <2>1, <2>2
  <2>. QED  BY <1>1, <2>1, <2>4, <2>5
<1>. QED  BY <1>2, <1>3

LEMMA SameFloor ==
    ASSUME StackInv, SameSandbox
    PROVE  /\ inside' = inside /\ mocha'.suite = mocha.suite /\ floor' = floor
           /\ AllPushed' <=> AllPushed
           /\ floor > 0 => base' = base
<1>1. inside' = inside /\ mocha'.suite = mocha.suite /\ Len(SNAPSHOTS') = Len(SNAPSHOTS)
      /\ (inSnapshotFile' <=> inSnapshotFile) /\ Len(SNAPSHOTS) \in Nat
  BY DEF SameSandbox, inside, StackInv, StackMatches
<1>2. inSnapshotFile => home' = home
  BY DEF SameSandbox
<1>3. \A i \in 1 .. Len(SNAPSHOTS) : kept'[i] = kept[i]
  BY DEF SameSandbox
<1>. HIDE DEF inside, kept, inSnapshotFile, home
<1>4. floor' = floor /\ (AllPushed' <=> AllPushed)
  BY <1>1 DEF floor, AllPushed
<1>5. floor > 0 => base' = base
  <2>1. CASE inSnapshotFile
    BY <1>1, <1>2, <2>1 DEF base
  <2>2. CASE ~inSnapshotFile
    <3>1. floor > 0 => Len(SNAPSHOTS) \in 1 .. Len(SNAPSHOTS)
      BY <1>1, <2>2 DEF floor
    <3>. QED  BY <1>1, <1>3, <2>2, <3>1 DEF base
  <2>. QED  BY <2>1, <2>2
<1>. QED  BY <1>1, <1>4, <1>5

\* A step that keeps the sandbox and what the suites hold that are not plain.
LEMMA PastWithin ==
    ASSUME StackInv, StartInv, SameSandbox, firstChain'[mocha.suite] = firstChain[mocha.suite],
           repeats' => repeats,
           \A s \in Suites : Style[s] # "plain" => handles'[s] = handles[s]
    PROVE  PastKept'
<1>. SUFFICES ASSUME repeats'
              PROVE  AllPushed' /\ Ends(mocha'.suite, floor', base', handles', firstChain'[mocha'.suite])
  BY DEF PastKept
<1>. DEFINE s == mocha.suite
            first == firstChain[s]
<1>1. repeats /\ AllPushed /\ Ends(s, floor, base, handles, first)
  BY DEF StartInv, PastKept
<1>2. inside' = inside /\ mocha'.suite = s /\ floor' = floor /\ AllPushed' /\ base' = base
  BY <1>1, SameFloor, FloorFacts DEF repeats
<1>3. s \in Suites /\ path[s] \in Seq(Suites)
  BY <1>1, InsideFacts DEF StackInv, repeats
<1>. DEFINE from == base
            f == floor
            held1 == handles
            held2 == handles'
<1>4. \A i \in 1 .. Len(path[s]) : Style[path[s][i]] # "plain" => held1[path[s][i]] = held2[path[s][i]]
  BY <1>3
<1>5. Ends(s, f, from, held1, first)
  BY <1>1
<1>. HIDE DEF from, f, held1, held2, first, s
<1>6. Ends(s, f, from, held2, first)
  BY <1>4, <1>5, EndsSame
<1>. QED  BY <1>2, <1>6 DEF from, f, held2, first, s

\* While no hooks have run nothing is said of the chain.
LEMMA NoHooks ==
    ASSUME StackInv', hooksRun' = 0, mocha'.stage # "test"
    PROVE  NowKept' /\ TestStarted'
<1>1. floor' \in Nat
  <2>. HIDE DEF inSnapshotFile
  <2>. QED  BY DEF StackInv, StackMatches, floor
<1>. HIDE DEF floor, hooksRun, Replay, base
<1>. QED  BY <1>1 DEF NowKept, TestStarted

\* The same, for the state after a step.
FloorSound ==
    /\ floor \in Nat /\ Len(inside) \in Nat /\ floor <= Len(inside)
    /\ \A i \in 1 .. floor : Style[inside[i]] # "plain"
    /\ mocha.suite # Root /\ Style[inside[1]] \in {"cache", "snapshot"} /\ AllPushed => floor > 0
    /\ floor > 0 => mocha.suite # Root /\ Style[inside[1]] \in {"cache", "snapshot"}

LEMMA FloorIsSound == StackInv => FloorSound
BY FloorFacts DEF FloorSound

\* A step in a suite after which no hook has run.
LEMMA WithinSuite ==
    ASSUME StackInv, StackInv', StartInv, SameSandbox, UNCHANGED firstChain, hooksRun' = 0,
           mocha'.stage # "test", repeats' => repeats,
           \A s \in Suites : s # mocha.suite => mocha'.ran[s] = mocha.ran[s],
           \A s \in Suites : Style[s] # "plain" => handles'[s] = handles[s]
    PROVE  StartInv'
<1>1. inside' = inside
  BY SameFloor
<1>2. OuterDone'
  <2>1. /\ inside \in Seq(Suites) /\ Len(inside) \in Nat
        /\ \A i, j \in 1 .. Len(inside) : inside[i] = inside[j] => i = j
        /\ mocha.suite # Root => Len(inside) > 0 /\ inside[Len(inside)] = mocha.suite
        /\ mocha.suite = Root => Len(inside) = 0
    BY InsideFacts DEF StackInv
  <2>. HIDE DEF inside
  <2>. SUFFICES ASSUME NEW i \in 1 .. (Len(inside) - 1)
                PROVE  mocha'.ran[inside[i]] = Tests[inside[i]]
    BY <1>1 DEF OuterDone
  <2>2. i \in 1 .. Len(inside) /\ Len(inside) \in 1 .. Len(inside) /\ i # Len(inside)
    BY <2>1
  <2>3. inside[i] \in Suites /\ inside[i] # mocha.suite
    BY <2>1, <2>2
  <2>. QED  BY <2>3 DEF StartInv, OuterDone
<1>3. PastKept'
  BY PastWithin
<1>4. NowKept' /\ TestStarted'
  BY NoHooks
<1>. QED  BY <1>2, <1>3, <1>4 DEF StartInv

\* The sandbox has just been restored, or hooks are to come that restore it further in.
LEMMA Restored ==
    ASSUME floor' \in Nat, hooksRun' \in Nat, hooksRun' <= floor', hooksRun' = floor' => base' = node'.chain
    PROVE  NowKept'
<1>. DEFINE C == [i \in Nat |-> node'.chain]
<1>. SUFFICES ASSUME hooksRun' = floor'
              PROVE  \E D : /\ D[floor'] = base' /\ D[hooksRun'] = node'.chain
                            /\ Replay(mocha'.suite, D, handles', floor', hooksRun')
  BY DEF NowKept
<1>1. C[floor'] = base' /\ C[hooksRun'] = node'.chain
  OBVIOUS
<1>2. Replay(mocha'.suite, C, handles', floor', hooksRun')
  <2>1. \A n \in Nat : \A i \in (n + 1) .. n : FALSE
    OBVIOUS
  <2>2. \A i \in (floor' + 1) .. floor' : FALSE
    BY <2>1
  <2>. QED  BY <2>2 DEF Replay
<1>. HIDE DEF C
<1>. QED  BY <1>1, <1>2

\* A hook that leaves the sandbox alone goes on with the replay.
LEMMA ReplayGrows ==
    ASSUME StackInv, NowKept, mocha.stage = "beforeEach", Style[hooked] \notin {"cache", "snapshot"},
           SameSandbox, hooksRun' = mocha.hook,
           \A s \in Suites : s # hooked => handles'[s] = handles[s],
           IF Style[hooked] = "plain"
           THEN Makes(hooked, mocha.suite, handles', node.chain, node'.chain)
           ELSE node'.chain = node.chain
    PROVE  NowKept'
<1>. DEFINE s == mocha.suite
            h == mocha.hook
            b == floor
<1>1. /\ s \in Suites /\ s # Root /\ h \in 1 .. Len(inside) /\ hooked = inside[h] /\ hooked \in Suites
      /\ Len(inside) \in Nat /\ inside = path[s] /\ inside \in Seq(Suites)
      /\ \A i, j \in 1 .. Len(inside) : inside[i] = inside[j] => i = j
  BY HookPlace, InsideFacts DEF StackInv
<1>2. b \in Nat /\ b < h
  <2>1. inSnapshotFile => h > 1
    BY HookPlace
  <2>2. h > Len(SNAPSHOTS) /\ Len(SNAPSHOTS) \in Nat
    BY HookPlace
  <2>. HIDE DEF inSnapshotFile, inside
  <2>. QED  BY <1>1, <2>1, <2>2 DEF floor
<1>3. mocha'.suite = s /\ floor' = b /\ (b > 0 => base' = base)
  BY SameFloor
<1>4. hooksRun = h - 1
  BY DEF hooksRun
<1>. SUFFICES ASSUME b > 0
              PROVE  \E D : /\ D[b] = base /\ D[h] = node'.chain /\ Replay(s, D, handles', b, h)
  BY <1>3 DEF NowKept
<1>5. PICK C : /\ C[b] = base /\ C[h - 1] = node.chain /\ Replay(s, C, handles, b, h - 1)
  BY <1>1, <1>2, <1>4 DEF NowKept
<1>. DEFINE D == [i \in Nat |-> IF i = h THEN node'.chain ELSE C[i]]
<1>6. D[b] = base /\ D[h] = node'.chain /\ D[h - 1] = node.chain
  BY <1>1, <1>2, <1>5
<1>7. ASSUME NEW i \in (b + 1) .. h PROVE Hook(s, D, handles', i)
  <2>1. CASE i = h
    <3>1. path[s][h] = hooked
      BY <1>1
    <3>. HIDE DEF D, hooked
    <3>. QED  BY <1>6, <2>1, <3>1 DEF Hook
  <2>2. CASE i # h
    <3>. DEFINE p == path[s][i]
    <3>1. /\ i \in (b + 1) .. (h - 1) /\ i \in Nat /\ i - 1 \in Nat /\ i - 1 # h /\ i < h
          /\ i \in 1 .. Len(inside)
      BY <1>1, <1>2, <2>2
    <3>2. Hook(s, C, handles, i) /\ D[i] = C[i] /\ D[i - 1] = C[i - 1]
      BY <1>5, <2>2, <3>1 DEF Replay
    <3>3. CASE Style[p] = "plain"
      <4>1. Len(path[p]) = i /\ \A j \in 1 .. i : path[p][j] = path[s][j] /\ j \in 1 .. Len(inside) /\ j # h
        BY <1>1, <3>1, PathFacts DEF PathOK
      <4>2. \A j \in 1 .. i : path[s][j] \in Suites /\ path[s][j] # hooked
        <5>. HIDE DEF hooked, inside
        <5>. QED  BY <1>1, <4>1
      <4>3. \A j \in 1 .. i : handles[path[s][j]] = handles'[path[s][j]]
        BY <4>2
      <4>4. \A j \in 1 .. (Len(path[p]) - 1) : j \in 1 .. i /\ path[p][j] = path[s][j]
        BY <3>1, <4>1
      <4>5. i \in 1 .. i
        BY <3>1
      <4>. DEFINE from == C[i - 1]
                  to == C[i]
                  H1 == handles
                  H2 == handles'
      <4>6. Makes(p, s, H1, from, to)
        BY <3>2, <3>3 DEF Hook
      <4>7. /\ \A j \in 1 .. (Len(path[p]) - 1) : H1[path[p][j]] = H2[path[p][j]]
            /\ H1[p] = H2[p]
        BY <4>3, <4>4, <4>5
      <4>. HIDE DEF from, to, H1, H2, p, s
      <4>8. Makes(p, s, H2, from, to)
        BY <4>6, <4>7, MakesSame
      <4>. USE DEF from, to, H2, p, s
      <4>. HIDE DEF D
      <4>. QED  BY <3>2, <3>3, <4>8 DEF Hook
    <3>4. CASE Style[p] # "plain"
      <4>. HIDE DEF D
      <4>. QED  BY <3>2, <3>4 DEF Hook
    <3>. QED  BY <3>3, <3>4
  <2>. QED  BY <2>1, <2>2
<1>8. Replay(s, D, handles', b, h)
  <2>. HIDE DEF D
  <2>. QED  BY <1>7 DEF Replay
<1>. HIDE DEF D
<1>. QED  BY <1>6, <1>8

\* A hook has returned; if it was the last one, the test starts where the first one did.
LEMMA Reached ==
    ASSUME StackInv, StackInv', SandboxInv, StartInv, HandlesInv', NowKept',
           mocha.stage = "beforeEach", Returned, Noted(node'.chain), mocha'.ran = mocha.ran,
           \A i \in 1 .. mocha.hook : Style[inside[i]] = "cache" => i <= Len(SNAPSHOTS'),
           repeats => /\ AllPushed'
                      /\ Ends(mocha.suite, floor', base', handles', firstChain[mocha.suite])
    PROVE  StartInv'
<1>. DEFINE s == mocha.suite
            n == Len(path[s])
            first == firstChain[s]
            b == floor'
            held == handles'
            at == node'.chain
            from == base'
<1>1. /\ mocha'.suite = s /\ inside' = inside /\ s \in Suites /\ s # Root /\ inside = path[s]
      /\ DOMAIN handles' = Suites /\ n \in Nat
  BY HookPlace, InsideFacts DEF Returned, inside, StackInv, HandlesInv, VariablesSound
<1>2. OuterDone'
  BY <1>1 DEF StartInv, OuterDone
<1>3. FloorSound'
  BY FloorIsSound, PTL
<1>4. hooksRun' = mocha.hook
  BY HookHasRun
<1>5. /\ mocha'.stage = "beforeEach" => firstChain' = firstChain
      /\ mocha'.stage = "test" => firstChain'[s] = IF first = NoChain THEN at ELSE first
  BY <1>1, FirstNoted DEF StackInv, SandboxInv
<1>6. CASE mocha'.stage = "beforeEach"
  <2>1. repeats' => repeats
    BY <1>1, <1>5, <1>6 DEF repeats
  <2>2. PastKept'
    <3>. HIDE DEF floor, base, inside
    <3>. QED  BY <1>1, <1>5, <1>6, <2>1 DEF PastKept
  <2>. QED  BY <1>2, <1>6, <2>2 DEF StartInv, TestStarted
<1>7. CASE mocha'.stage = "test"
  <2>1. mocha.hook = Len(inside)
    BY <1>7 DEF Noted
  <2>2. AllPushed'
    BY <1>1, <2>1 DEF AllPushed
  <2>3. b \in 0 .. n /\ \A i \in 1 .. b : Style[path[s][i]] # "plain"
    <3>. HIDE DEF floor, inside
    <3>. QED  BY <1>1, <1>3 DEF FloorSound
  <2>4. ASSUME b > 0 PROVE at = firstChain'[s] /\ Ends(s, b, from, held, firstChain'[s])
    <3>1. hooksRun' = n
      BY <1>1, <1>4, <2>1
    <3>2. PICK C : C[b] = from /\ C[n] = at /\ Replay(s, C, held, b, n)
      <4>1. b > 0 /\ n >= b
        BY <1>1, <2>3, <2>4
      <4>. HIDE DEF floor, base, hooksRun
      <4>. QED  BY <1>1, <3>1, <4>1 DEF NowKept
    <3>3. CASE first = NoChain
      <4>1. firstChain'[s] = at
        BY <1>5, <1>7, <3>3
      <4>2. Ends(s, b, C[b], held, C[n])
        <5>1. s \in Suites /\ b \in 0 .. Len(path[s]) /\ Replay(s, C, held, b, Len(path[s]))
          BY <1>1, <2>3, <3>2
        <5>. HIDE DEF s, b, held
        <5>. QED  BY <2>3, <5>1, ReplayEnds
      <4>. QED  BY <3>2, <4>1, <4>2
    <3>4. CASE first # NoChain
      <4>1. firstChain'[s] = first
        BY <1>5, <1>7, <3>4
      <4>2. repeats
        <5>. HIDE DEF floor, inside
        <5>. QED  BY <1>1, <1>3, <2>4, <3>4 DEF FloorSound, repeats
      <4>3. Ends(s, b, from, held, first)
        BY <4>2
      <4>4. DOMAIN held = Suites /\ SameRest(s, held, held)
        BY <1>1, AlikeFacts DEF SameRest
      <4>. HIDE DEF s, b, held, from, first
      <4>5. C[n] = first
        BY <3>2, <4>3, <4>4 DEF Ends
      <4>. QED  BY <3>2, <4>1, <4>3, <4>5
    <3>. QED  BY <3>3, <3>4
  <2>5. repeats' => b > 0
    <3>. HIDE DEF floor, inside
    <3>. QED  BY <1>3, <2>2 DEF FloorSound, repeats
  <2>. HIDE DEF floor, base, Ends, AllPushed
  <2>6. PastKept'
    BY <1>1, <2>2, <2>4, <2>5 DEF PastKept
  <2>7. TestStarted'
    BY <1>1, <2>2, <2>4 DEF TestStarted
  <2>. QED  BY <1>2, <2>6, <2>7 DEF StartInv
<1>. QED  BY <1>6, <1>7 DEF Returned

\* Hooks count no test.
LEMMA HooksKeepRan ==
    ASSUME MochaTypeOK, mocha.stage = "beforeEach",
           (\E n : hookReturns(n)) \/ hookThrows
    PROVE  mocha'.ran = mocha.ran
BY DEF hookReturns, hookThrows, MochaTypeOK

\* A hook that leaves the sandbox alone has returned.
LEMMA ReachedWithin ==
    ASSUME StackInv, StackInv', SandboxInv, StartInv, HandlesInv', SameSandbox, NowKept',
           mocha.stage = "beforeEach", hookReturns(node'),
           Style[hooked] = "cache" => initialized[hooked], Returned, Noted(node'.chain),
           \A s \in Suites : Style[s] # "plain" => handles'[s] = handles[s]
    PROVE  StartInv'
<1>1. mocha'.ran = mocha.ran
  BY HooksKeepRan DEF StackInv
<1>2. Len(SNAPSHOTS') = Len(SNAPSHOTS) /\ (AllPushed' <=> AllPushed)
  BY SameFloor DEF SameSandbox
<1>3. ASSUME NEW i \in 1 .. mocha.hook, Style[inside[i]] = "cache" PROVE i <= Len(SNAPSHOTS')
  <2>1. /\ mocha.hook \in Nat /\ hooked = inside[mocha.hook]
        /\ Style[hooked] = "cache" /\ initialized[hooked] => mocha.hook <= Len(SNAPSHOTS)
    BY HookPlace
  <2>2. \A j \in 1 .. (mocha.hook - 1) : Style[inside[j]] = "cache" => j <= Len(SNAPSHOTS)
    BY DEF StackInv, StackMatches
  <2>. HIDE DEF inside, hooked
  <2>3. CASE i = mocha.hook
    BY <1>2, <1>3, <2>1, <2>3
  <2>4. CASE i # mocha.hook
    <3>1. i \in 1 .. (mocha.hook - 1)
      BY <2>1, <2>4
    <3>. QED  BY <1>2, <1>3, <2>2, <3>1
  <2>. QED  BY <2>3, <2>4
<1>4. ASSUME repeats
      PROVE  AllPushed' /\ Ends(mocha.suite, floor', base', handles', firstChain[mocha.suite])
  <2>. DEFINE s == mocha.suite
              first == firstChain[s]
              from == base
              f == floor
              held1 == handles
              held2 == handles'
  <2>1. AllPushed /\ Ends(s, f, from, held1, first)
    BY <1>4 DEF StartInv, PastKept
  <2>2. floor' = f /\ base' = from
    BY <1>4, <2>1, SameFloor, FloorFacts DEF repeats
  <2>3. s \in Suites /\ path[s] \in Seq(Suites)
    BY HookPlace, PathFacts DEF PathOK
  <2>4. \A i \in 1 .. Len(path[s]) : Style[path[s][i]] # "plain" => held1[path[s][i]] = held2[path[s][i]]
    BY <2>3
  <2>. HIDE DEF from, f, held1, held2, first, s
  <2>5. Ends(s, f, from, held2, first)
    BY <2>1, <2>4, EndsSame
  <2>. QED  BY <1>2, <2>1, <2>2, <2>5 DEF from, f, held2, first, s
<1>. QED  BY <1>1, <1>3, <1>4, Reached

LEMMA StartTestStartsAlike ==
    ASSUME StackInv, StackInv', SandboxInv, StartInv, StartTest
    PROVE  StartInv'
<1>1. /\ mocha.stage = "suite" /\ mocha.suite # Root /\ mocha.ran[mocha.suite] < Tests[mocha.suite]
      /\ mocha' = [mocha EXCEPT !.stage = "beforeEach", !.hook = 1]
      /\ UNCHANGED <<handles, firstChain>>
  BY DEF StartTest
<1>2. mocha'.stage = "beforeEach" /\ mocha'.hook = 1 /\ mocha'.ran = mocha.ran /\ mocha'.suite = mocha.suite
  BY <1>1 DEF StackInv, MochaTypeOK
<1>3. SameSandbox
  BY StartTestKeepsSandbox
<1>4. inside' = inside
  BY <1>3, SameFloor
<1>5. hooksRun' = 0 /\ (repeats' => repeats)
  BY <1>1, <1>2, <1>4 DEF hooksRun, repeats
<1>. QED  BY <1>1, <1>2, <1>3, <1>5, WithinSuite

LEMMA RunTestStartsAlike ==
    ASSUME StackInv, StackInv', SandboxInv, StartInv, RunTest
    PROVE  StartInv'
<1>1. /\ mocha.stage = "test" /\ UNCHANGED <<handles, firstChain>>
      /\ mocha' = [mocha EXCEPT !.stage = "afterEach", !.ran[mocha.suite] = @ + 1]
  BY DEF RunTest
<1>2. /\ mocha'.stage = "afterEach" /\ mocha'.suite = mocha.suite
      /\ \A s \in Suites : s # mocha.suite => mocha'.ran[s] = mocha.ran[s]
  BY <1>1 DEF StackInv, MochaTypeOK
<1>3. SameSandbox
  BY RunTestKeepsSandbox
<1>4. inside' = inside
  BY <1>3, SameFloor
<1>5. hooksRun' = 0 /\ (repeats' => repeats)
  BY <1>1, <1>2, <1>4 DEF hooksRun, repeats
<1>. QED  BY <1>1, <1>2, <1>3, <1>5, WithinSuite

LEMMA AfterEachStartsAlike ==
    ASSUME StackInv, StackInv', SandboxInv, StartInv, AfterEach
    PROVE  StartInv'
<1>1. /\ mocha.stage = "afterEach" /\ UNCHANGED <<handles, firstChain>>
      /\ mocha' = [mocha EXCEPT !.stage = "suite"]
  BY DEF AfterEach
<1>2. mocha'.stage = "suite" /\ mocha'.suite = mocha.suite /\ mocha'.ran = mocha.ran
  BY <1>1 DEF StackInv, MochaTypeOK
<1>3. SameSandbox
  BY AfterEachKeepsSandbox
<1>4. inside' = inside
  BY <1>3, SameFloor
<1>5. hooksRun' = 0 /\ (repeats' => repeats)
  BY <1>1, <1>2, <1>4 DEF hooksRun, repeats
<1>. QED  BY <1>1, <1>2, <1>3, <1>5, WithinSuite

\* A hook that throws after it has left the sandbox alone.
LEMMA ThrowStartsAlike ==
    ASSUME StackInv, StackInv', StartInv, mocha.stage = "beforeEach", hookThrows, SameSandbox,
           \A s \in Suites : Style[s] # "plain" => (s = hooked /\ ~repeats) \/ handles'[s] = handles[s]
    PROVE  StartInv'
<1>1. /\ mocha'.stage = "afterEach" /\ mocha'.suite = mocha.suite /\ mocha'.ran = mocha.ran
      /\ firstChain' = firstChain
  BY HookThrew, HooksKeepRan DEF StackInv, hookThrows
<1>2. inside' = inside
  BY SameFloor
<1>3. hooksRun' = 0 /\ (repeats' => repeats)
  BY <1>1, <1>2 DEF hooksRun, repeats
<1>4. CASE repeats
  BY <1>1, <1>3, <1>4, WithinSuite
<1>5. CASE ~repeats
  <2>1. OuterDone'
    BY <1>1, <1>2 DEF StartInv, OuterDone
  <2>2. PastKept'
    BY <1>3, <1>5 DEF PastKept
  <2>3. NowKept' /\ TestStarted'
    BY <1>1, <1>3, NoHooks
  <2>. QED  BY <2>1, <2>2, <2>3 DEF StartInv
<1>. QED  BY <1>4, <1>5

LEMMA SnapshotBeforeEachStartsAlike ==
    ASSUME StackInv, StackInv', SandboxInv, HandlesInv', StartInv, SnapshotBeforeEach
    PROVE  StartInv'
<1>1. mocha.stage = "beforeEach" /\ Style[hooked] = "snapshot" /\ hookReturns(node') /\ handles' = handles
  BY DEF SnapshotBeforeEach
<1>2. /\ SameSandbox /\ Returned /\ Noted(node'.chain)
      /\ inSnapshotFile /\ mocha.hook = 1
      /\ node'.chain = node.chain /\ home = node.chain
  BY SnapshotBeforeEachKeepsSandbox
<1>3. NowKept'
  <2>1. hooksRun' = 1
    BY <1>1, <1>2, HookHasRun
  <2>2. floor' = 1 /\ base' = node'.chain
    <3>1. inSnapshotFile' /\ home' = home
      BY <1>2 DEF SameSandbox
    <3>. HIDE DEF inSnapshotFile, home
    <3>. QED  BY <1>2, <3>1 DEF floor, base
  <2>. QED  BY <2>1, <2>2, Restored
<1>. QED  BY <1>1, <1>2, <1>3, ReachedWithin

LEMMA NoBeforeEachStartsAlike ==
    ASSUME StackInv, StackInv', SandboxInv, HandlesInv', StartInv, NoBeforeEach
    PROVE  StartInv'
<1>1. /\ mocha.stage = "beforeEach" /\ Style[hooked] = "before" /\ hookReturns(node')
      /\ handles' = handles /\ node' = node
  BY DEF NoBeforeEach
<1>2. SameSandbox /\ Returned /\ Noted(node'.chain)
  BY <1>1, NoBeforeEachKeepsSandbox, HookReturned, HookNotes DEF StackInv
<1>3. NowKept'
  <2>1. hooksRun' = mocha.hook
    BY <1>1, <1>2, HookHasRun
  <2>. HIDE DEF hooked
  <2>. QED  BY <1>1, <1>2, <2>1, ReplayGrows DEF StartInv
<1>. QED  BY <1>1, <1>2, <1>3, ReachedWithin

\* What a plain hook has made.
LEMMA PlainMakes ==
    ASSUME StackInv, VariablesSound, mocha.stage = "beforeEach", Style[hooked] = "plain",
           NEW outcome \in outcomes(hooked, mocha.suite), ~outcome.thrown,
           node' = outcome.state.node,
           handles' = [handles EXCEPT ![hooked] = outcome.state.handles]
    PROVE  Makes(hooked, mocha.suite, handles', node.chain, node'.chain)
<1>. DEFINE s == hooked
            t == mocha.suite
            mine == handles[s]
            start == [node |-> node, handles |-> mine]
<1>1. s \in Suites /\ t \in Suites /\ IsNode(node) /\ DOMAIN handles = Suites
  BY HookPlace DEF StackInv, StackKnown, VariablesSound
<1>2. PICK plan \in Initializers[s][t] : \E n \in 0 .. Len(plan) :
          \E state \in steps(handles, s, plan, start)[n] :
              outcome = [thrown |-> n < Len(plan), state |-> state]
  BY DEF outcomes
<1>3. PICK n \in 0 .. Len(plan) : \E state \in steps(handles, s, plan, start)[n] :
              outcome = [thrown |-> n < Len(plan), state |-> state]
  BY <1>2
<1>4. PICK state \in steps(handles, s, plan, start)[n] :
              outcome = [thrown |-> n < Len(plan), state |-> state]
  BY <1>3
<1>5. plan \in Seq(Step) /\ Len(plan) \in Nat
  BY <1>1, SuitesAssumption
<1>6. outcome.state = state /\ n = Len(plan)
  <2>1. outcome.state = state /\ outcome.thrown = (n < Len(plan))
    BY <1>4
  <2>2. ~(n < Len(plan))
    BY <2>1
  <2>. QED  BY <1>5, <2>1, <2>2
<1>7. IsState(start) /\ start.node = node /\ start.handles = mine
  <2>1. start \in [node : {node}, handles : {mine}] /\ start.node = node /\ start.handles = mine
    <3>. HIDE DEF mine
    <3>. QED  OBVIOUS
  <2>. QED  BY <1>1, <2>1 DEF IsState
<1>8. DOMAIN mine \subseteq assigns(plan)
  BY <1>1 DEF VariablesSound
<1>9. HoldSame(s, handles, handles')
  <2>. SUFFICES ASSUME NEW i \in 1 .. (Len(path[s]) - 1)
                PROVE  Alike(handles[path[s][i]], handles'[path[s][i]])
    BY DEF HoldSame
  <2>1. /\ Len(path[s]) = mocha.hook /\ \A j \in 1 .. mocha.hook : path[s][j] = inside[j]
        /\ mocha.hook \in 1 .. Len(inside) /\ s = inside[mocha.hook] /\ Len(inside) \in Nat
    BY HookedPath, HookPlace
  <2>2. \A j, k \in 1 .. Len(inside) : inside[j] = inside[k] => j = k
    BY InsideFacts DEF StackInv
  <2>3. inside \in Seq(Suites)
    BY InsideFacts DEF StackInv
  <2>. HIDE DEF s, inside
  <2>4. i \in 1 .. mocha.hook /\ i \in 1 .. Len(inside) /\ i # mocha.hook
    BY <2>1
  <2>5. path[s][i] # s /\ path[s][i] \in Suites
    BY <2>1, <2>2, <2>3, <2>4
  <2>6. handles[path[s][i]] = handles'[path[s][i]]
    BY <1>1, <2>5 DEF s
  <2>. QED  BY <2>6, AlikeFacts
<1>10. handles'[s] = state.handles /\ node'.chain = state.node.chain
  BY <1>1, <1>6
<1>. DEFINE H == handles'
            from == node.chain
            to == node'.chain
            held == handles
<1>11. /\ DOMAIN held = Suites /\ HoldSame(s, held, H)
       /\ start.node.chain = from /\ DOMAIN start.handles \subseteq assigns(plan)
       /\ state \in steps(held, s, plan, start)[Len(plan)]
       /\ state.node.chain = to /\ Alike(state.handles, H[s])
  BY <1>1, <1>4, <1>6, <1>7, <1>8, <1>9, <1>10, AlikeFacts
<1>. HIDE DEF H, from, to, held, start, s, t
<1>12. Makes(s, t, H, from, to)
  BY <1>2, <1>7, <1>11 DEF Makes
<1>. QED  BY <1>12 DEF H, from, to, s, t

LEMMA PlainBeforeEachStartsAlike ==
    ASSUME StackInv, StackInv', SandboxInv, HandlesInv, HandlesInv', StartInv, PlainBeforeEach
    PROVE  StartInv'
<1>1. mocha.stage = "beforeEach" /\ Style[hooked] = "plain"
  BY DEF PlainBeforeEach
<1>2. PICK outcome \in outcomes(hooked, mocha.suite) :
          /\ node' = outcome.state.node
          /\ handles' = [handles EXCEPT ![hooked] = outcome.state.handles]
          /\ IF outcome.thrown THEN hookThrows ELSE hookReturns(outcome.state.node)
  BY DEF PlainBeforeEach
<1>3. SameSandbox
  BY PlainBeforeEachKeepsSandbox
<1>4. VariablesSound /\ DOMAIN handles = Suites /\ hooked \in Suites
  BY <1>1, HookPlace DEF HandlesInv, VariablesSound
<1>5. \A s \in Suites : s # hooked => handles'[s] = handles[s]
  <2>. HIDE DEF hooked
  <2>. QED  BY <1>2, <1>4
<1>6. \A s \in Suites : Style[s] # "plain" => handles'[s] = handles[s]
  BY <1>1, <1>5
<1>7. CASE outcome.thrown
  <2>1. hookThrows
    BY <1>2, <1>7
  <2>. QED  BY <1>1, <1>3, <1>6, <2>1, ThrowStartsAlike
<1>8. CASE ~outcome.thrown
  <2>1. hookReturns(node')
    BY <1>2, <1>8
  <2>2. Returned /\ Noted(node'.chain)
    BY <1>1, <2>1, HookReturned, HookNotes DEF StackInv
  <2>3. hooksRun' = mocha.hook
    BY <1>1, <2>2, HookHasRun
  <2>4. Makes(hooked, mocha.suite, handles', node.chain, node'.chain)
    BY <1>1, <1>2, <1>4, <1>8, PlainMakes
  <2>5. NowKept'
    <3>. HIDE DEF hooked
    <3>. QED  BY <1>1, <1>3, <1>5, <2>3, <2>4, ReplayGrows DEF StartInv
  <2>. QED  BY <1>1, <1>3, <1>6, <2>1, <2>2, <2>5, ReachedWithin
<1>. QED  BY <1>7, <1>8

\* Each time an outer hook restores a snapshot of an inner suite; the chain is the inner one's
\* until the inner one's own hook restores it again.
LEMMA RestoreStartsAlike ==
    ASSUME StackInv, StackInv', SandboxInv, HandlesInv', StartInv, mocha.stage = "beforeEach",
           Style[hooked] = "cache", initialized[hooked], cacheRestore(hooked)
    PROVE  StartInv'
<1>1. hookReturns(node') /\ handles' = handles
  BY DEF cacheRestore
<1>2. /\ SameSandbox /\ Returned /\ Noted(node'.chain)
      /\ Len(SNAPSHOTS) \in Nat \ {0} /\ node'.chain = kept[Len(SNAPSHOTS)]
  BY RestoreKeepsSandbox
<1>3. NowKept'
  <2>1. hooksRun' = mocha.hook /\ mocha.hook \in Nat /\ mocha.hook <= Len(SNAPSHOTS)
    BY <1>2, HookHasRun, HookPlace
  <2>2. ~inSnapshotFile
    BY CachedFile
  <2>. HIDE DEF inSnapshotFile, kept
  <2>3. floor = Len(SNAPSHOTS) /\ base = node'.chain
    BY <1>2, <2>2 DEF floor, base
  <2>4. floor' = Len(SNAPSHOTS) /\ base' = node'.chain
    BY <1>2, <2>3, SameFloor
  <2>. QED  BY <1>2, <2>1, <2>4, Restored
<1>. QED  BY <1>1, <1>2, <1>3, ReachedWithin

LEMMA InitializeStartsAlike ==
    ASSUME StackInv, StackInv', SandboxInv, HandlesInv, HandlesInv', StartInv,
           mocha.stage = "beforeEach", Style[hooked] = "cache", ~initialized[hooked],
           cacheInitializer(hooked)
    PROVE  StartInv'
<1>. DEFINE k == Len(SNAPSHOTS)
<1>1. /\ mocha.hook = k + 1 /\ k \in Nat /\ mocha.hook \in 1 .. Len(inside) /\ hooked = inside[mocha.hook]
      /\ hooked \in Suites
  BY HookPlace
<1>2. ~repeats
  <2>1. ~AllPushed
    <3>. HIDE DEF inside, hooked
    <3>. QED  BY <1>1 DEF AllPushed
  <2>. QED  BY <2>1 DEF StartInv, PastKept
<1>3. mocha'.ran = mocha.ran
  <2>1. (\E n : hookReturns(n)) \/ hookThrows
    BY DEF cacheInitializer
  <2>. QED  BY <2>1, HooksKeepRan DEF StackInv
<1>4. PICK outcome \in outcomes(hooked, mocha.suite) :
        /\ node'.chain = outcome.state.node.chain
        /\ handles' = [handles EXCEPT ![hooked] = outcome.state.handles]
        /\ \/ /\ hookThrows /\ SameSandbox /\ node' = outcome.state.node
              /\ UNCHANGED <<SNAPSHOTS, initialized, blockchains>>
           \/ /\ ~outcome.thrown /\ Returned /\ Noted(node'.chain)
              /\ node' = evm_snapshot(outcome.state.node)
              /\ initialized' = [initialized EXCEPT ![hooked] = TRUE]
              /\ PushedOn(k, node'.chain)
  BY InitializeKeepsSandbox
<1>5. CASE hookThrows /\ SameSandbox
  <2>1. \A s \in Suites : s # hooked => handles'[s] = handles[s]
    <3>1. DOMAIN handles = Suites
      BY DEF HandlesInv, VariablesSound
    <3>. HIDE DEF hooked
    <3>. QED  BY <1>4, <3>1
  <2>. QED  BY <1>2, <1>5, <2>1, ThrowStartsAlike
<1>6. CASE Returned /\ Noted(node'.chain) /\ PushedOn(k, node'.chain)
  <2>1. Len(SNAPSHOTS') = k + 1 /\ kept'[k + 1] = node'.chain
    BY <1>6 DEF PushedOn
  <2>2. ~inSnapshotFile'
    <3>1. ~inSnapshotFile
      BY CachedFile
    <3>. QED  BY <1>6, <3>1 DEF Returned, inSnapshotFile, inside
  <2>3. floor' = k + 1 /\ base' = node'.chain
    <3>. HIDE DEF inSnapshotFile, kept
    <3>. QED  BY <2>1, <2>2 DEF floor, base
  <2>4. hooksRun' = k + 1
    BY <1>1, <1>6, HookHasRun
  <2>5. NowKept'
    BY <1>1, <2>3, <2>4, Restored
  <2>6. \A i \in 1 .. mocha.hook : i <= Len(SNAPSHOTS')
    BY <1>1, <2>1
  <2>. QED  BY <1>2, <1>3, <1>6, <2>5, <2>6, Reached
<1>. QED  BY <1>4, <1>5, <1>6

\* No test of the suite that is entered has started.
LEMMA EnterSuiteStartsAlike ==
    ASSUME StackInv, StackInv', SandboxInv, StartInv, EnterSuite
    PROVE  StartInv'
<1>1. StepIn /\ firstChain'[mocha'.suite] = NoChain
  BY EnterSuiteKeepsStack, EnterSuiteKeepsSandbox
<1>2. /\ mocha'.suite \in Suites /\ mocha'.stage = "suite" /\ Len(inside') = Len(inside) + 1
      /\ \A i \in 1 .. Len(inside) : inside'[i] = inside[i]
  BY <1>1 DEF StepIn
<1>3. mocha'.ran = mocha.ran
  BY DEF EnterSuite, StackInv, MochaTypeOK
<1>4. mocha.suite # Root => mocha.ran[mocha.suite] = Tests[mocha.suite]
  BY DEF EnterSuite
<1>5. OuterDone'
  <2>1. /\ Len(inside) \in Nat /\ (mocha.suite = Root => Len(inside) = 0)
        /\ mocha.suite # Root => inside[Len(inside)] = mocha.suite
    BY InsideFacts DEF StackInv
  <2>2. \A i \in 1 .. (Len(inside) - 1) : mocha.ran[inside[i]] = Tests[inside[i]]
    BY DEF StartInv, OuterDone
  <2>. HIDE DEF inside
  <2>. SUFFICES ASSUME NEW i \in 1 .. (Len(inside') - 1)
                PROVE  mocha'.ran[inside'[i]] = Tests[inside'[i]]
    BY DEF OuterDone
  <2>3. i \in 1 .. Len(inside)
    BY <1>2, <2>1
  <2>4. i = Len(inside) \/ i \in 1 .. (Len(inside) - 1)
    BY <2>1, <2>3
  <2>5. mocha.suite # Root
    BY <2>1, <2>3
  <2>. QED  BY <1>2, <1>3, <1>4, <2>1, <2>2, <2>3, <2>4, <2>5
<1>6. PastKept'
  BY <1>1 DEF PastKept, repeats
<1>7. NowKept' /\ TestStarted'
  <2>1. hooksRun' = 0
    BY <1>2 DEF hooksRun
  <2>. QED  BY <1>2, <2>1, NoHooks
<1>. QED  BY <1>5, <1>6, <1>7 DEF StartInv

\* All tests of the suite that is returned to have run.
LEMMA LeaveSuiteStartsAlike ==
    ASSUME StackInv, StackInv', SandboxInv, StartInv, LeaveSuite
    PROVE  StartInv'
<1>1. StepOut
  BY LeaveSuiteKeepsStack
<1>2. /\ mocha'.stage = "suite" /\ Len(inside) = Len(inside') + 1 /\ Len(inside') \in Nat
      /\ \A i \in 1 .. Len(inside') : inside'[i] = inside[i]
  BY <1>1 DEF StepOut
<1>3. mocha'.ran = mocha.ran
  BY DEF LeaveSuite, StackInv, MochaTypeOK
<1>4. \A i \in 1 .. (Len(inside) - 1) : mocha.ran[inside[i]] = Tests[inside[i]]
  BY DEF StartInv, OuterDone
<1>5. mocha'.suite # Root => Len(inside') > 0 /\ inside'[Len(inside')] = mocha'.suite
  <2>1. mocha'.suite \in Suites \cup {Root}
    BY DEF StackInv, MochaTypeOK
  <2>2. mocha'.suite # Root => PathOK(mocha'.suite) /\ inside' = path[mocha'.suite]
    BY <2>1, PathFacts DEF inside, around
  <2>. QED  BY <2>2 DEF PathOK
<1>. HIDE DEF inside
<1>6. \A i \in 1 .. Len(inside') : mocha'.ran[inside'[i]] = Tests[inside'[i]]
  <2>1. \A i \in 1 .. Len(inside') : i \in 1 .. (Len(inside) - 1)
    BY <1>2
  <2>. QED  BY <1>2, <1>3, <1>4, <2>1
<1>7. OuterDone'
  <2>1. \A i \in 1 .. (Len(inside') - 1) : i \in 1 .. Len(inside')
    BY <1>2
  <2>. QED  BY <1>6, <2>1 DEF OuterDone
<1>8. PastKept'
  <2>1. mocha'.suite # Root => mocha'.ran[mocha'.suite] = Tests[mocha'.suite]
    <3>1. mocha'.suite # Root => Len(inside') \in 1 .. Len(inside')
      BY <1>2, <1>5
    <3>. QED  BY <1>5, <1>6, <3>1
  <2>2. mocha'.suite # Root => Tests[mocha'.suite] \in Nat
    BY SuitesAssumption DEF StackInv, MochaTypeOK
  <2>3. ~repeats'
    BY <1>2, <2>1, <2>2 DEF repeats
  <2>. QED  BY <2>3 DEF PastKept
<1>9. NowKept' /\ TestStarted'
  <2>1. hooksRun' = 0
    BY <1>2 DEF hooksRun
  <2>. QED  BY <1>2, <2>1, NoHooks
<1>. QED  BY <1>7, <1>8, <1>9 DEF StartInv

\* Before the tests, and while nothing of them happens.
LEMMA StartInductive ==
    /\ Init => StartInv
    /\ /\ StackInv /\ StackInv' /\ SandboxInv /\ HandlesInv /\ HandlesInv' /\ StartInv /\ [Next]_vars
       => StartInv'
<1>1. Init => StartInv
  <2>. SUFFICES ASSUME Init PROVE StartInv
    OBVIOUS
  <2>1. mocha.suite = Root /\ mocha.stage = "suite" /\ SNAPSHOTS = <<>>
    BY DEF Init, TestInit, notStarted
  <2>2. inside = <<>> /\ Len(inside) = 0
    BY <2>1 DEF inside, around
  <2>3. floor = 0
    BY <2>1 DEF floor, inSnapshotFile
  <2>. HIDE DEF inside, floor
  <2>. QED  BY <2>1, <2>2, <2>3 DEF StartInv, OuterDone, PastKept, NowKept, TestStarted, repeats
<1>2. ASSUME StackInv, StackInv', SandboxInv, HandlesInv, HandlesInv', StartInv, [Next]_vars
      PROVE  StartInv'
  <2>1. CASE TestNext
    <3>1. CASE EnterSuite
      BY <1>2, <3>1, EnterSuiteStartsAlike
    <3>2. CASE StartTest
      BY <1>2, <3>2, StartTestStartsAlike
    <3>3. CASE CacheBeforeEach
      <4>1. mocha.stage = "beforeEach" /\ Style[hooked] = "cache"
            /\ IF initialized[hooked] THEN cacheRestore(hooked) ELSE cacheInitializer(hooked)
        BY <3>3 DEF CacheBeforeEach
      <4>. QED  BY <1>2, <4>1, RestoreStartsAlike, InitializeStartsAlike
    <3>4. CASE SnapshotBeforeEach
      BY <1>2, <3>4, SnapshotBeforeEachStartsAlike
    <3>5. CASE PlainBeforeEach
      BY <1>2, <3>5, PlainBeforeEachStartsAlike
    <3>6. CASE NoBeforeEach
      BY <1>2, <3>6, NoBeforeEachStartsAlike
    <3>7. CASE RunTest
      BY <1>2, <3>7, RunTestStartsAlike
    <3>8. CASE AfterEach
      BY <1>2, <3>8, AfterEachStartsAlike
    <3>9. CASE LeaveSuite
      BY <1>2, <3>9, LeaveSuiteStartsAlike
    <3>. QED  BY <2>1, <3>1, <3>2, <3>3, <3>4, <3>5, <3>6, <3>7, <3>8, <3>9 DEF TestNext
  <2>2. CASE UNCHANGED testVars
    <3>1. UNCHANGED <<node, SNAPSHOTS, blockchains, handles, mocha, firstChain>>
      BY <2>2 DEF testVars
    <3>2. /\ inside' = inside /\ kept' = kept /\ (inSnapshotFile' <=> inSnapshotFile) /\ home' = home
          /\ hooksRun' = hooksRun
      BY <3>1 DEF inside, kept, inSnapshotFile, home, betweenTests, fileSnapshot, hooksRun
    <3>. HIDE DEF inside, kept, inSnapshotFile, home, hooksRun
    <3>3. floor' = floor /\ base' = base /\ (AllPushed' <=> AllPushed)
      BY <3>1, <3>2 DEF floor, base, AllPushed
    <3>. HIDE DEF floor, base, AllPushed
    <3>4. OuterDone'
      BY <1>2, <3>1, <3>2 DEF StartInv, OuterDone
    <3>5. PastKept'
      BY <1>2, <3>1, <3>2, <3>3 DEF StartInv, PastKept, repeats
    <3>6. NowKept'
      BY <1>2, <3>1, <3>2, <3>3 DEF StartInv, NowKept
    <3>7. TestStarted'
      BY <1>2, <3>1, <3>3 DEF StartInv, TestStarted
    <3>. QED  BY <3>4, <3>5, <3>6, <3>7 DEF StartInv
  <2>. QED  BY <1>2, <2>1, <2>2 DEF Next, vars
<1>. QED  BY <1>1, <1>2

LEMMA SuitesStartAlike == StackInv /\ StartInv => TestsStartAlike
<1>. SUFFICES ASSUME StackInv, StartInv, mocha.stage = "test",
                     Style[Head(path[mocha.suite])] \in {"cache", "snapshot"}
              PROVE  node.chain = firstChain[mocha.suite]
  BY DEF TestsStartAlike
<1>1. mocha.suite # Root
  BY DEF StackInv, RunnerSound
<1>2. inside = path[mocha.suite] /\ inside \in Seq(Suites) /\ Len(inside) > 0
  BY <1>1, InsideFacts DEF StackInv
<1>3. Head(path[mocha.suite]) = inside[1]
  BY <1>2
<1>4. AllPushed /\ (floor > 0 => node.chain = firstChain[mocha.suite])
  BY DEF StartInv, TestStarted
<1>5. floor > 0
  BY <1>1, <1>3, <1>4, FloorFacts
<1>. QED  BY <1>4, <1>5

\* cacheBeforeEach and addSnapshotBeforeRestoreAfterEach of utils/test/testingUtils.ts: for every
\* tree of suites that keeps the conventions of the test files (SuitesAssumption), with any number
\* of plain suites below one another and below the sandbox, whatever the tests and the hooks after
\* them do to the chain and whichever initializers throw, each test of a suite in a file with a
\* sandbox starts from the chain that the suite's first test started from.
THEOREM EveryTestStartsAlike == Spec => []TestsStartAlike
BY StackInductive, SandboxInductive, HandlesInductive, StartInductive, SuitesStartAlike, PTL DEF Spec

\* utils/deploys: whatever helpers the initializers of whatever suites call, and whichever snapshots
\* are restored in between, every contract on the chain that keeps a controller was given one that
\* was there before it at the place where its constructor reads it, and every library is linked at
\* the address of that library.
THEOREM EveryDeploymentIsWired == Spec => []DeploymentsWired
<1>1. HandlesInv => DeploymentsWired
  BY DEF HandlesInv, ChainsSound, SoundChain, Wired, DeploymentsWired
<1>. QED  BY <1>1, StackInductive, SandboxInductive, HandlesInductive, PTL DEF Spec
=============================================================================
