----------------------------- MODULE BuildTasks -----------------------------
(***************************************************************************)
(* The build: the hardhat tasks of hardhat.config.ts, the two subtasks of  *)
(* tasks/subtasks.ts that hook into compilation and type generation, and   *)
(* the scripts of package.json that run them.  An ABI is its two kinds of  *)
(* entries, each with or without a gas field; an artifact file holds one.  *)
(* A process runs one script's commands in order and works on one file at  *)
(* a time; it may die between any two files.                               *)
(***************************************************************************)
EXTENDS Integers, Sequences, FiniteSets

CONSTANTS
    Contracts,    \* contracts the repository compiles
    External,     \* files of external/abi/perp, the one directory of externalGasMods
    Networks,     \* networks with and without a gas setting: "hardhat", "kovan"
    NoFile,       \* a file that does not exist
    MaxScripts    \* bound: scripts started

ASSUME BuildAssumption == Contracts \cap External = {} /\ MaxScripts \in Nat

VARIABLES
    artifacts,    \* the ABI in each contract's artifact, or NoFile
    external,     \* the ABI in each external artifact
    types,        \* the ABI in each generated factory, or NoFile
    process,      \* the script being run
    scripts       \* number of scripts started

buildVars == <<artifacts, external, types, process, scripts>>

plainAbi == [function |-> FALSE, event |-> FALSE]

(***************************************************************************)
(* utils/tasks/artifactUtils.ts.  BigNumber.from("auto") throws: a network *)
(* without a number for gas cannot be used.                                *)
(***************************************************************************)
gasConfigured(network) == network = "hardhat"

addGasToAbiMethods(abi) == [abi EXCEPT !.function = TRUE]

\* Only entries of other types lose the field (mutant).
removeGasFromOtherEntries(abi) == [abi EXCEPT !.event = FALSE]

removeGasFromAbiMethods(abi) == [abi EXCEPT !.function = FALSE]

(***************************************************************************)
(* The scripts.  SKIP_ABI_GAS_MODS is set for one command only.            *)
(***************************************************************************)
command(task, skip, network) == [task |-> task, skip |-> skip, network |-> network]

build ==
    <<command("clean", FALSE, "hardhat"), command("compile", FALSE, "hardhat"),
      command("index:compile:all", FALSE, "hardhat"), command("typechain", FALSE, "hardhat")>>

buildNpmLatest ==
    <<command("clean", FALSE, "hardhat"), command("compile", TRUE, "hardhat"),
      command("index:compile:all", FALSE, "hardhat"), command("typechain", FALSE, "hardhat")>>

\* Commands a developer runs by hand.
byHand(task, network) == command(task, FALSE, network)

single == {<<byHand(task, network)>> :
             task \in {"index:compile:one", "typechain"}, network \in Networks}

(***************************************************************************)
(* The process.  stage is the part of the current command it is in, todo   *)
(* the files that part has left, compiled what the command compiled.       *)
(***************************************************************************)
idle(outcome) ==
    [commands |-> <<>>, stage |-> outcome, todo |-> {}, compiled |-> {}]

BuildInit ==
    /\ artifacts = [c \in Contracts |-> NoFile]
    /\ external = [f \in External |-> plainAbi]
    /\ types = [x \in Contracts \cup External |-> NoFile]
    /\ process = idle("none")
    /\ scripts = 0

running == process.stage \notin {"none", "completed", "failed"}

StartScript(script) ==
    /\ ~running
    /\ scripts < MaxScripts
    /\ scripts' = scripts + 1
    /\ process' = [commands |-> script, stage |-> "start", todo |-> {}, compiled |-> {}]
    /\ UNCHANGED <<artifacts, external, types>>

current == Head(process.commands)

enter(stage, todo) == process' = [process EXCEPT !.stage = stage, !.todo = todo]

nextCommand ==
    process' = IF Len(process.commands) = 1
               THEN idle("completed")
               ELSE [commands |-> Tail(process.commands), stage |-> "start", todo |-> {},
                     compiled |-> {}]

fail == process' = idle("failed")

\* scripts/clean.sh
Clean ==
    /\ process.stage = "start" /\ current.task = "clean"
    /\ artifacts' = [c \in Contracts |-> NoFile]
    /\ types' = [x \in Contracts \cup External |-> NoFile]
    /\ nextCommand
    /\ UNCHANGED <<external, scripts>>

\* hardhat compile: the files its cache does not know.
StartCompile ==
    /\ process.stage = "start" /\ current.task = "compile"
    /\ enter("compile", {c \in Contracts : artifacts[c] = NoFile})
    /\ UNCHANGED <<artifacts, external, types, scripts>>

\* index:compile:one reads the artifact of the contract it is given, and throws without one.
StartCompileOne(c) ==
    /\ process.stage = "start" /\ current.task = "index:compile:one"
    /\ IF artifacts[c] = NoFile THEN fail ELSE enter("compile", {c})
    /\ UNCHANGED <<artifacts, external, types, scripts>>

\* index:compile:all: every contract that has an artifact, one job at a time.
StartCompileAll ==
    /\ process.stage = "start" /\ current.task = "index:compile:all"
    /\ enter("compile", {c \in Contracts : artifacts[c] # NoFile})
    /\ UNCHANGED <<artifacts, external, types, scripts>>

StartTypechain ==
    /\ process.stage = "start" /\ current.task = "typechain"
    /\ enter("rewrite", External)
    /\ UNCHANGED <<artifacts, external, types, scripts>>

\* TASK_COMPILE_SOLIDITY_GET_ARTIFACT_FROM_COMPILATION_OUTPUT, for one contract of the job.
EmitArtifact(c) ==
    /\ process.stage = "compile" /\ c \in process.todo
    /\ IF ~current.skip /\ ~gasConfigured(current.network)
       THEN fail /\ UNCHANGED artifacts
       ELSE /\ artifacts' = [artifacts EXCEPT ![c] =
                               IF current.skip THEN plainAbi ELSE addGasToAbiMethods(plainAbi)]
            /\ process' = [process EXCEPT !.todo = @ \ {c}, !.compiled = @ \cup {c}]
    /\ UNCHANGED <<external, types, scripts>>

\* hardhat compile and index:compile:one go on to the types, index:compile:all does not.
FinishCompile ==
    /\ process.stage = "compile" /\ process.todo = {}
    /\ IF current.task = "index:compile:all" THEN nextCommand ELSE enter("rewrite", External)
    /\ UNCHANGED <<artifacts, external, types, scripts>>

\* TASK_TYPECHAIN_GENERATE_TYPES, first loop: one external artifact gets its gas.
RewriteArtifact(f) ==
    /\ process.stage = "rewrite" /\ f \in process.todo
    /\ IF gasConfigured(current.network)
       THEN /\ external' = [external EXCEPT ![f] = addGasToAbiMethods(@)]
            /\ process' = [process EXCEPT !.todo = @ \ {f}]
       ELSE fail /\ UNCHANGED external
    /\ UNCHANGED <<artifacts, types, scripts>>

\* runSuper(): compile generates for what it compiled, typechain for every artifact.
GenerateTypes ==
    /\ process.stage = "rewrite" /\ process.todo = {}
    /\ LET stale == IF current.task = "compile" THEN process.compiled ELSE Contracts
       IN  types' = [x \in Contracts \cup External |->
                       IF x \in External THEN external[x]
                       ELSE IF x \in stale THEN artifacts[x] ELSE types[x]]
    /\ enter("restore", External)
    /\ UNCHANGED <<artifacts, external, scripts>>

\* Second loop: the copy in memory, without gas, is written back.
RestoreArtifact(f) ==
    /\ process.stage = "restore" /\ f \in process.todo
    /\ external' = [external EXCEPT ![f] = removeGasFromAbiMethods(@)]
    /\ process' = [process EXCEPT !.todo = @ \ {f}]
    /\ UNCHANGED <<artifacts, types, scripts>>

FinishTypes ==
    /\ process.stage = "restore" /\ process.todo = {}
    /\ nextCommand
    /\ UNCHANGED <<artifacts, external, types, scripts>>

\* The compiler or typechain fails, or the process is killed: what is written stays.
Crash ==
    /\ running
    /\ fail
    /\ UNCHANGED <<artifacts, external, types, scripts>>

BuildNext ==
    \/ \E script \in single \cup {build, buildNpmLatest} : StartScript(script)
    \/ Clean
    \/ StartCompile
    \/ \E c \in Contracts : StartCompileOne(c) \/ EmitArtifact(c)
    \/ StartCompileAll
    \/ StartTypechain
    \/ FinishCompile
    \/ \E f \in External : RewriteArtifact(f) \/ RestoreArtifact(f)
    \/ GenerateTypes
    \/ FinishTypes
    \/ Crash

(***************************************************************************)
(* tasks/subtasks.ts: "Temporarily rewrites artifact so typechain picks up *)
(* the network specific gas requirement without introducing any git        *)
(* changes".  Whatever processes died before it and whatever they left in  *)
(* the files, a script that completes leaves no gas in an external         *)
(* artifact, gas in every factory generated from one, and factories that   *)
(* agree with the compiled artifacts.                                      *)
(***************************************************************************)
CompletedBuildIsConsistent ==
    process.stage = "completed" =>
        /\ \A f \in External : external[f] = plainAbi /\ types[f] = addGasToAbiMethods(plainAbi)
        /\ \A c \in Contracts : types[c] = artifacts[c]
=============================================================================
