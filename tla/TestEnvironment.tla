-------------------------- MODULE TestEnvironment --------------------------
(***************************************************************************)
(* A run of the test suite after a build: mocha walks the tree of suites,  *)
(* hooks of utils/test/testingUtils.ts sandbox the tests with snapshots of *)
(* one hardhat node, and initializers deploy contracts through the         *)
(* DeployHelper.  Contracts live on the node, which snapshots restore;     *)
(* the handles to them are JavaScript variables, which nothing restores.   *)
(***************************************************************************)
EXTENDS BuildTasks, Blockchain, DeployHelper, SequencesExt

CONSTANTS
    Suites,         \* describe blocks, without mocha's root
    Root,           \* mocha's root suite
    Children,       \* Suites \cup {Root} -> sequence of suites, in source order
    Style,          \* how a suite's initializer is hooked: "cache", "snapshot", "before" or "plain"
    Initializers,   \* suite, suite whose test is next -> sequences of steps the initializer may take
    Sends,          \* Suites -> its hooks of "before", "afterEach", "after" that send transactions only
    Tests,          \* Suites -> number of tests of its own
    NoChain         \* no test of the suite has started yet

\* Steps of an initializer: deployX, getX, createSetToken of the system fixture, or a transaction
\* to a contract that it has a handle of.
Step == {[call |-> "deploy", kind |-> c] : c \in DOMAIN deployer}
        \cup {[call |-> "get", kind |-> c] : c \in attachable}
        \cup {[call |-> "createSetToken", kind |-> "SetToken"]}
        \cup {[call |-> "transact", kind |-> c] : c \in DOMAIN deployer \cup {"SetToken"}}

\* The handles a step reads.
reads(what) ==
    CASE what.call = "deploy" -> needs(what.kind)
      [] what.call = "get" -> {what.kind}
      [] what.call = "createSetToken" -> {"SetTokenCreator"}
      [] what.call = "transact" -> {what.kind}

\* The handles a step assigns, and a whole plan.
writes(what) == IF what.call = "transact" THEN {} ELSE {what.kind}

assigns(plan) == UNION {writes(plan[i]) : i \in DOMAIN plan}

Parent(s) == CHOOSE p \in Suites \cup {Root} : s \in Range(Children[p])

\* path[s]: the suites around s, outermost first, s included.
path[s \in Suites] == IF Parent(s) = Root THEN <<s>> ELSE Append(path[Parent(s)], s)

NoSuite == "none"

(***************************************************************************)
(* Describe blocks nest: each stands in one place, inside a block or at    *)
(* the top of a file, and of any blocks one is not inside another of them. *)
(***************************************************************************)
ASSUME NestingAssumption ==
    /\ {Root, NoSuite} \cap Suites = {}
    /\ Children \in [Suites \cup {Root} -> Seq(Suites)]
    /\ \A s \in Suites : \E p \in Suites \cup {Root} : s \in Range(Children[p])
    /\ \A p, q \in Suites \cup {Root} : p # q => Range(Children[p]) \cap Range(Children[q]) = {}
    /\ \A S \in SUBSET Suites : S # {} => \E s \in S : Parent(s) \notin S

(***************************************************************************)
(* The conventions of the test files.  Cached suites are below cached ones *)
(* only, addSnapshotBeforeRestoreAfterEach stands at the top of its file.  *)
(* Plain beforeEach hooks nest freely.  What one does may depend on a flag *)
(* that the suite of the test sets in `before' and resets in `after'; the  *)
(* variables it assigns do not, and it reads none of them before it has    *)
(* assigned it.  A suite that keeps what `before' deployed is in no cached *)
(* file, and deploys it without the variables of plain suites around it.   *)
(***************************************************************************)
ASSUME SuitesAssumption ==
    /\ Style \in [Suites -> {"cache", "snapshot", "before", "plain"}]
    /\ Tests \in [Suites -> Nat]
    /\ \A s, t \in Suites : \A plan \in Initializers[s][t] : plan \in Seq(Step)
    /\ \A s \in Suites :
        /\ Style[s] = "cache" => \A i \in DOMAIN path[s] : Style[path[s][i]] = "cache"
        /\ Style[s] = "snapshot" => Parent(s) = Root
        /\ Style[s] = "before" =>
            \A i \in DOMAIN path[s] :
                /\ Style[path[s][i]] # "cache"
                /\ Style[path[s][i]] = "plain" =>
                    \A t \in Suites : \A plan \in Initializers[s][s], hook \in Initializers[path[s][i]][t] :
                        \A n \in DOMAIN plan : reads(plan[n]) \cap assigns(hook) = {}
        /\ Style[s] = "plain" =>
            \A t \in Suites : \E plan \in Initializers[s][t] :
                /\ Initializers[s][t] = {plan}
                /\ \A u \in Suites : \A other \in Initializers[s][u] : assigns(other) = assigns(plan)
                /\ \A i, j \in DOMAIN plan : i <= j => writes(plan[j]) \cap reads(plan[i]) = {}

VARIABLES
    node,          \* the hardhat node
    SNAPSHOTS,     \* the global stack of testingUtils.ts
    initialized,   \* per cached suite, the flag its hooks share
    blockchains,   \* per suite, its Blockchain instance
    handles,       \* per suite, the addresses its variables hold, by kind of contract
    mocha,         \* where the runner is
    firstChain     \* history: the chain the first test of each suite started from

testVars == <<node, SNAPSHOTS, initialized, blockchains, handles, mocha, firstChain>>
vars == <<buildVars, testVars>>

(***************************************************************************)
(* utils/common/protocolUtils.ts: the set created last in the latest       *)
(* block; the transaction hash it is given is not used.                    *)
(***************************************************************************)
getCreatedSetTokenAddress(chain) == Last(chain.logs)

(***************************************************************************)
(* Initializers: a state is the node and the handles of the suite.         *)
(***************************************************************************)
\* The handles in scope of suite s when its own are mine and the suites around it hold held:
\* an inner variable hides an outer one.
scope(held, s, mine) ==
    LET own(i) == [held EXCEPT ![s] = mine][path[s][i]]
        holders(kind) == {i \in DOMAIN path[s] : kind \in DOMAIN own(i)}
    IN  [kind \in UNION {DOMAIN own(i) : i \in DOMAIN path[s]} |-> own(Max(holders(kind)))[kind]]

\* The address a deployment is going to get.
nextAddress(n) == Len(n.chain.contracts) + 1

\* deployX with the addresses of the handles in scope.
deploySteps(state, known, kind) ==
    {[node |-> evm_deploy(state.node, deployed(c, known), <<>>),
      handles |-> put(state.handles, c, nextAddress(state.node))] :
        c \in {k \in {kind} : needs(k) \subseteq DOMAIN known}}

\* getX with the address of the handle in scope.
getSteps(state, known, kind) ==
    {[state EXCEPT !.handles = put(@, k, known[k])] : k \in {kind} \cap DOMAIN known}

\* SetTokenCreator.create emits SetTokenCreated; the handle is attached to what the log says.
createSetTokenSteps(state, known) ==
    {LET mined == evm_deploy(state.node,
                    [kind |-> "SetToken", args |-> <<0, 0, 0, storedController(creator), 0, 0, 0>>,
                     libraries |-> <<>>], <<nextAddress(state.node)>>)
     IN  [node |-> mined,
          handles |-> put(state.handles, "SetToken", getCreatedSetTokenAddress(mined.chain))] :
        creator \in {c \in Range(state.node.chain.contracts) :
                        /\ "SetTokenCreator" \in DOMAIN known
                        /\ known.SetTokenCreator \in DOMAIN state.node.chain.contracts
                        /\ c = state.node.chain.contracts[known.SetTokenCreator]
                        /\ c.kind = "SetTokenCreator"}}

\* A transaction to the contract of a handle in scope, in a block of its own.
transactSteps(state, known, kind) ==
    {[state EXCEPT !.node = evm_mine(@, 1)] : k \in {kind} \cap DOMAIN known}

\* One step; no outcome when a handle it needs is undefined: it throws.
step(held, s, state, what) ==
    LET known == scope(held, s, state.handles)
    IN  CASE what.call = "deploy" -> deploySteps(state, known, what.kind)
          [] what.call = "get" -> getSteps(state, known, what.kind)
          [] what.call = "createSetToken" -> createSetTokenSteps(state, known)
          [] what.call = "transact" -> transactSteps(state, known, what.kind)

\* The states after the first n steps of an initializer, for every n.
steps(held, s, plan, start) ==
    LET reached[n \in 0 .. Len(plan)] ==
            IF n = 0 THEN {start}
            ELSE UNION {step(held, s, state, plan[n]) : state \in reached[n - 1]}
    IN  reached

\* What a call of the initializer of s for a test of t may do: run to its end, or throw after some
\* of its steps.
outcomes(s, t) ==
    UNION {LET reached == steps(handles, s, plan, [node |-> node, handles |-> handles[s]])
           IN  UNION {{[thrown |-> n < Len(plan), state |-> state] : state \in reached[n]} :
                        n \in 0 .. Len(plan)} : plan \in Initializers[s][t]}

(***************************************************************************)
(* Mocha: mocha.suite is the suite being run, hook the next beforeEach     *)
(* hook of its path, ran the tests done, left the suites done with, and    *)
(* failed the suite one of whose hooks has thrown.                         *)
(***************************************************************************)
notStarted == [suite |-> Root, stage |-> "suite", hook |-> 0, failed |-> NoSuite, left |-> {},
               ran |-> [s \in Suites |-> 0]]

TestInit ==
    /\ node = freshNode
    /\ SNAPSHOTS = <<>>
    /\ initialized = [s \in Suites |-> FALSE]
    /\ blockchains = [s \in Suites |-> newBlockchain]
    /\ handles = [s \in Suites |-> <<>>]
    /\ mocha = notStarted
    /\ firstChain = [s \in Suites |-> NoChain]

\* The places of the suites below the current one that have not been run.
waiting == {i \in DOMAIN Children[mocha.suite] : Children[mocha.suite][i] \notin mocha.left}

\* A hook that sends transactions, without keeping anything of them, and one that does nothing.
sent(n, sends) == IF sends THEN evm_mine(n, 1) ELSE n

\* Describe blocks are entered one after the other, their tests first, then the blocks in them;
\* `before' runs the initializer of a snapshot file and of the suites that have it there.
EnterSuite ==
    /\ process.stage = "completed"
    /\ mocha.stage = "suite" /\ mocha.failed = NoSuite
    /\ mocha.suite # Root => mocha.ran[mocha.suite] = Tests[mocha.suite]
    /\ waiting # {}
    /\ LET s == Children[mocha.suite][Min(waiting)]
       IN  IF Style[s] \in {"snapshot", "before"}
           THEN \E outcome \in outcomes(s, s) :
                  /\ node' = outcome.state.node
                  /\ handles' = [handles EXCEPT ![s] = outcome.state.handles]
                  /\ mocha' = [mocha EXCEPT !.suite = s,
                                            !.failed = IF outcome.thrown THEN s ELSE NoSuite]
           ELSE /\ node' = sent(node, "before" \in Sends[s])
                /\ mocha' = [mocha EXCEPT !.suite = s]
                /\ UNCHANGED handles
    /\ UNCHANGED <<SNAPSHOTS, initialized, blockchains, firstChain>>

StartTest ==
    /\ mocha.stage = "suite" /\ mocha.failed = NoSuite /\ mocha.suite # Root
    /\ mocha.ran[mocha.suite] < Tests[mocha.suite]
    /\ mocha' = [mocha EXCEPT !.stage = "beforeEach", !.hook = 1]
    /\ UNCHANGED <<node, SNAPSHOTS, initialized, blockchains, handles, firstChain>>

hooked == path[mocha.suite][mocha.hook]

\* A hook is done: the next one, or the test.
hookReturns(nodeAfter) ==
    IF mocha.hook < Len(path[mocha.suite])
    THEN /\ mocha' = [mocha EXCEPT !.hook = @ + 1]
         /\ UNCHANGED firstChain
    ELSE /\ mocha' = [mocha EXCEPT !.stage = "test"]
         /\ firstChain' = [firstChain EXCEPT ![mocha.suite] =
                             IF @ = NoChain THEN nodeAfter.chain ELSE @]

\* A hook throws: the rest of the suite it belongs to is skipped.
hookThrows ==
    /\ mocha' = [mocha EXCEPT !.stage = "afterEach", !.failed = hooked]
    /\ UNCHANGED firstChain

\* The snapshot is taken before the initializer runs (mutant).
cacheInitializerLate(s) ==
    \E outcome \in outcomes(s, mocha.suite) :
        LET saved == evm_snapshot(node)
        IN  /\ ~outcome.thrown
            /\ node' = [saved EXCEPT !.chain = outcome.state.node.chain]
            /\ SNAPSHOTS' = Append(SNAPSHOTS, node.nextId)
            /\ handles' = [handles EXCEPT ![s] = outcome.state.handles]
            /\ initialized' = [initialized EXCEPT ![s] = TRUE]
            /\ hookReturns(node')
            /\ UNCHANGED blockchains

\* cacheBeforeEach, first time: run the initializer, push a snapshot of what it made.
cacheInitializer(s) ==
    \E outcome \in outcomes(s, mocha.suite) :
        /\ handles' = [handles EXCEPT ![s] = outcome.state.handles]
        /\ IF outcome.thrown
           THEN /\ node' = outcome.state.node
                /\ hookThrows
                /\ UNCHANGED <<SNAPSHOTS, initialized, blockchains>>
           ELSE LET saved == saveSnapshotAsync(blockchains[s], outcome.state.node)
                IN  /\ node' = saved.node
                    /\ blockchains' = [blockchains EXCEPT ![s] = saved.blockchain]
                    /\ SNAPSHOTS' = Append(SNAPSHOTS, saved.blockchain.snapshotId)
                    /\ initialized' = [initialized EXCEPT ![s] = TRUE]
                    /\ hookReturns(saved.node)

\* The consumed snapshot stays on the stack (mutant).
cacheRestoreKeepsId(s) ==
    LET reverted == revertByIdAsync(node, Last(SNAPSHOTS))
    IN  /\ node' = reverted
        /\ hookReturns(reverted)
        /\ UNCHANGED <<SNAPSHOTS, handles, initialized, blockchains>>

\* cacheBeforeEach, later: back to the snapshot on top, which a new one replaces.
cacheRestore(s) ==
    LET reverted == revertByIdAsync(node, Last(SNAPSHOTS))
        saved == saveSnapshotAsync(blockchains[s], reverted)
    IN  /\ node' = saved.node
        /\ blockchains' = [blockchains EXCEPT ![s] = saved.blockchain]
        /\ SNAPSHOTS' = Append(Front(SNAPSHOTS), saved.blockchain.snapshotId)
        /\ hookReturns(saved.node)
        /\ UNCHANGED <<handles, initialized>>

CacheBeforeEach ==
    /\ mocha.stage = "beforeEach" /\ Style[hooked] = "cache"
    /\ IF initialized[hooked] THEN cacheRestore(hooked) ELSE cacheInitializer(hooked)

\* addSnapshotBeforeRestoreAfterEach, before the test.
SnapshotBeforeEach ==
    /\ mocha.stage = "beforeEach" /\ Style[hooked] = "snapshot"
    /\ LET saved == saveSnapshotAsync(blockchains[hooked], node)
       IN  /\ node' = saved.node
           /\ blockchains' = [blockchains EXCEPT ![hooked] = saved.blockchain]
           /\ hookReturns(saved.node)
    /\ UNCHANGED <<SNAPSHOTS, initialized, handles>>

\* beforeEach as it is: the initializer runs again for every test of the suite and below.
PlainBeforeEach ==
    /\ mocha.stage = "beforeEach" /\ Style[hooked] = "plain"
    /\ \E outcome \in outcomes(hooked, mocha.suite) :
        /\ node' = outcome.state.node
        /\ handles' = [handles EXCEPT ![hooked] = outcome.state.handles]
        /\ IF outcome.thrown THEN hookThrows ELSE hookReturns(outcome.state.node)
    /\ UNCHANGED <<SNAPSHOTS, initialized, blockchains>>

\* A suite that was initialized by `before' has no beforeEach hook.
NoBeforeEach ==
    /\ mocha.stage = "beforeEach" /\ Style[hooked] = "before"
    /\ hookReturns(node)
    /\ UNCHANGED <<node, SNAPSHOTS, initialized, blockchains, handles>>

\* The body of a test: deploy something, or move the clock or the blocks.
RunTest ==
    /\ mocha.stage = "test"
    /\ node' \in {evm_deploy(node, [kind |-> "ProtocolViewer", args |-> <<>>,
                                    libraries |-> <<>>], <<>>),
                  increaseTimeAsync(node, 10),
                  setNextBlockTimestamp(node, node.chain.time + 5),
                  waitBlocksAsync(node, 3)}
    /\ mocha' = [mocha EXCEPT !.stage = "afterEach", !.ran[mocha.suite] = @ + 1]
    /\ UNCHANGED <<SNAPSHOTS, initialized, blockchains, handles, firstChain>>

\* afterEach hooks of the suites whose beforeEach hooks have been reached, innermost first: what they
\* send, then on the outermost suite of a snapshot file the way back.
AfterEach ==
    /\ mocha.stage = "afterEach"
    /\ LET file == Head(path[mocha.suite])
           left == sent(node, \E i \in 1 .. mocha.hook : "afterEach" \in Sends[path[mocha.suite][i]])
       IN  node' = IF Style[file] = "snapshot" THEN revertAsync(blockchains[file], left) ELSE left
    /\ mocha' = [mocha EXCEPT !.stage = "suite"]
    /\ UNCHANGED <<SNAPSHOTS, initialized, blockchains, handles, firstChain>>

\* The stack is popped whether or not the suite pushed on it (mutant).
afterCachePopsAlways(s) == SNAPSHOTS' = IF SNAPSHOTS = <<>> THEN SNAPSHOTS ELSE Front(SNAPSHOTS)

\* `after' of cacheBeforeEach.
afterCache(s) == SNAPSHOTS' = IF initialized[s] THEN Front(SNAPSHOTS) ELSE SNAPSHOTS

\* All tests and suites below are done, or a hook of this suite or of one around it has thrown.
\* The variables of the suite go out of scope.
LeaveSuite ==
    /\ mocha.stage = "suite" /\ mocha.suite # Root
    /\ \/ mocha.failed # NoSuite
       \/ mocha.ran[mocha.suite] = Tests[mocha.suite] /\ waiting = {}
    /\ afterCache(mocha.suite)
    /\ mocha' = [mocha EXCEPT !.suite = Parent(mocha.suite), !.left = @ \cup {mocha.suite},
                              !.failed = IF @ = mocha.suite THEN NoSuite ELSE @]
    /\ handles' = [handles EXCEPT ![mocha.suite] = <<>>]
    /\ firstChain' = [firstChain EXCEPT ![mocha.suite] = NoChain]
    /\ node' = sent(node, "after" \in Sends[mocha.suite])
    /\ UNCHANGED <<initialized, blockchains>>

TestNext ==
    \/ EnterSuite \/ StartTest \/ CacheBeforeEach \/ SnapshotBeforeEach \/ PlainBeforeEach
    \/ NoBeforeEach \/ RunTest \/ AfterEach \/ LeaveSuite

(***************************************************************************)
(* Tests start after a completed build and nothing is built meanwhile.     *)
(***************************************************************************)
Init == BuildInit /\ TestInit

Next ==
    \/ mocha = notStarted /\ BuildNext /\ UNCHANGED testVars
    \/ TestNext /\ UNCHANGED buildVars

Spec == Init /\ [][Next]_vars

(***************************************************************************)
(* Properties.                                                             *)
(***************************************************************************)
\* cacheBeforeEach's suites share one stack of snapshot ids, and on a later test of an inner
\* suite the hook of an outer one pops what the inner one pushed.  Nested as they are, and
\* whatever initializers throw, the stack always holds one snapshot for each suite that is
\* initialized and not left, outermost first, and the node still knows every one of them.
SnapshotStackSound ==
    /\ Len(SNAPSHOTS) = Cardinality({s \in Suites : initialized[s] /\ s \notin mocha.left})
    /\ \A i \in DOMAIN SNAPSHOTS : SNAPSHOTS[i] \in DOMAIN node.snapshots
    /\ \A i, j \in DOMAIN SNAPSHOTS : i < j => SNAPSHOTS[i] < SNAPSHOTS[j]

\* Both kinds of sandbox: in a file that has one, every test of a suite starts from the chain that
\* the suite's first test started from, its clock included, whatever the tests before it, their
\* afterEach hooks and the suites beside it did to the chain, and however many plain beforeEach
\* hooks run one after the other between the sandbox and the test.
TestsStartAlike ==
    mocha.stage = "test" /\ Style[Head(path[mocha.suite])] \in {"cache", "snapshot"} =>
        node.chain = firstChain[mocha.suite]

\* Snapshots restore the chain, not the variables: when a test starts, every handle in its
\* scope is the address of a contract of that kind on the chain as it has been restored.
HandlesLive ==
    mocha.stage = "test" =>
        LET known == scope(handles, mocha.suite, handles[mocha.suite])
            contracts == node.chain.contracts
        IN  \A kind \in DOMAIN known :
                known[kind] \in DOMAIN contracts /\ contracts[known[kind]].kind = kind

\* Whatever helper an initializer calls in whatever suite: a contract that keeps a controller
\* reads a Controller that is on the chain where its constructor reads it, and a library is
\* linked at the address of that library.
DeploymentsWired ==
    LET contracts == node.chain.contracts
    IN  \A i \in DOMAIN contracts :
            /\ keepsController(contracts[i].kind) =>
                 /\ storedController(contracts[i]) \in 1 .. (i - 1)
                 /\ contracts[storedController(contracts[i])].kind = "Controller"
            /\ \A library \in DOMAIN contracts[i].libraries :
                 /\ contracts[i].libraries[library] \in 1 .. (i - 1)
                 /\ contracts[contracts[i].libraries[library]].kind = library
=============================================================================
