--------------------------- MODULE ReleaseProofs ---------------------------
(***************************************************************************)
(* What npm is given, for any targets, versions, changes of the crate and  *)
(* number of release runs.                                                 *)
(*                                                                         *)
(* The properties are about the packages that wait for approval.  They     *)
(* rest on two chains: what CI compared is what is merged, and what is     *)
(* merged is what a tag points to (GoodInv); and what a run has built,     *)
(* checked and packed stays what it was of while its jobs fail and run     *)
(* again (RunInv).                                                         *)
(***************************************************************************)
EXTENDS Release, TLAPS

---------------------------------------------------------------------------
(* The inductive invariant *)

Run ==
    [job : {"none", "build", "packed", "staged", "failed"},
     event : {"push", "manual"}, stage : BOOLEAN, tag : 0 .. MaxVersion, sha : Commits,
     merged : BOOLEAN, artifacts : SUBSET Artifacts, tree : Commits]

StagedPackage ==
    [event : {"push", "manual"}, tag : 0 .. MaxVersion, merged : BOOLEAN,
     commit : Commits, libraries : SUBSET Artifacts]

TypeInv ==
    /\ work \in Commits /\ proposed \in Commits /\ main \in Commits
    /\ checked \in {"pending", "passed", "failed"}
    /\ run \in [Runs -> Run]
    /\ staged \subseteq StagedPackage

\* The bindings are those of the crate they are committed with, and patched.
Good(commit) ==
    commit.bindings.crate = commit.crate /\ commit.bindings.decoder = "native"

\* What CI has passed is good, and so is main.
GoodInv == (checked = "passed" => Good(proposed)) /\ Good(main)

\* A run of a tag on main is of a commit that was main.  Whatever attempt a library was
\* built in, it is of the run's commit; so is what is packed, with the libraries of both
\* platforms, and its tag was compared.
RunInv(i) ==
    /\ run[i].event = "push" /\ run[i].merged => Good(run[i].sha)
    /\ \A a \in run[i].artifacts : a.commit = run[i].sha
    /\ run[i].job \in {"packed", "staged"} =>
         /\ run[i].tree = run[i].sha
         /\ {a.platform : a \in run[i].artifacts} = Platforms
         /\ run[i].event = "push" => run[i].tag = run[i].sha.version

PackageInv == TaggedReleasesWork /\ PackagesAreOfOneCommit /\ TagsAreVersions

Inv == TypeInv /\ GoodInv /\ (\A i \in Runs : RunInv(i)) /\ PackageInv

---------------------------------------------------------------------------
(* The bindings *)

\* The script changes the decoder and nothing else, and a file it is done with calls the
\* native one.
LEMMA PostgenerateForcesTheDecoder ==
    ASSUME NEW b \in Bindings
    PROVE  /\ postgenerate(b).file \in Bindings
           /\ postgenerate(b).file.crate = b.crate
           /\ postgenerate(b).ok => postgenerate(b).file.decoder = "native"
BY DEF postgenerate, Bindings, Templates

\* ubrn writes the bindings of the tree it is run in.
LEMMA GeneratedAreOfTheTree ==
    ASSUME NEW tree \in Commits
    PROVE  ubrnGenerate(tree) \in Bindings /\ ubrnGenerate(tree).crate = tree.crate
BY DEF ubrnGenerate, Commits, Bindings

\* A tree stays one with any bindings.
LEMMA BindingsOfATree ==
    ASSUME NEW tree \in Commits, NEW b \in Bindings
    PROVE  [tree EXCEPT !.bindings = b] \in Commits
BY DEF Commits

---------------------------------------------------------------------------
(* Steps *)

\* Init establishes the invariant: main is good as it stands, and nothing runs.
LEMMA InitInv == Init => Inv
<1> SUFFICES ASSUME Init PROVE Inv
  OBVIOUS
<1>1. Start \in Commits /\ Good(Start) /\ Start.crate = 0
  BY ReleaseAssumption DEF Start, Commits, Bindings, Templates, Good
<1>2. NoRun \in Run
  BY <1>1, ReleaseAssumption DEF NoRun, Run
<1>3. \A i \in Runs : RunInv(i)
  BY <1>1 DEF Init, RunInv, NoRun
<1> QED
  BY <1>1, <1>2, <1>3
  DEF Init, Inv, TypeInv, GoodInv, PackageInv, TaggedReleasesWork, PackagesAreOfOneCommit,
      TagsAreVersions

\* A step of a contributor touches no run and no package.
LEMMA ContributeKeeps ==
    ASSUME Inv, Contribute
    PROVE  Inv'
<1>1. UNCHANGED <<run, staged>>
  BY DEF Contribute, Edit, Generate, Postgenerate, Propose, CheckBindings, Merge
<1>2. (\A i \in Runs : RunInv(i))' /\ PackageInv'
  BY <1>1
  DEF Inv, RunInv, PackageInv, TaggedReleasesWork, PackagesAreOfOneCommit, TagsAreVersions
<1>3. /\ work \in Commits /\ proposed \in Commits /\ main \in Commits
      /\ run \in [Runs -> Run] /\ staged \subseteq StagedPackage
      /\ work.bindings \in Bindings
  BY DEF Inv, TypeInv, Commits
<1>4. CASE Edit
  <2>1. work' \in Commits
    BY <1>3, <1>4, ReleaseAssumption DEF Edit, Commits, Templates
  <2> QED BY <1>1, <1>2, <1>4, <2>1 DEF Edit, Inv, TypeInv, GoodInv
<1>5. CASE Generate
  <2>1. work' \in Commits
    <3>1. /\ ubrnGenerate(work) \in Bindings
          /\ postgenerate(ubrnGenerate(work)).file \in Bindings
      BY <1>3, GeneratedAreOfTheTree, PostgenerateForcesTheDecoder
    <3> QED BY <1>3, <1>5, <3>1, BindingsOfATree DEF Generate
  <2> QED BY <1>1, <1>2, <1>5, <2>1 DEF Generate, Inv, TypeInv, GoodInv
<1>6. CASE Postgenerate
  <2>1. work' \in Commits
    BY <1>3, <1>6, BindingsOfATree, PostgenerateForcesTheDecoder DEF Postgenerate
  <2> QED BY <1>1, <1>2, <1>6, <2>1 DEF Postgenerate, Inv, TypeInv, GoodInv
<1>7. CASE Propose
  BY <1>1, <1>2, <1>7 DEF Propose, Inv, TypeInv, GoodInv
<1>8. CASE CheckBindings
  <2>1. checked' = "passed" => Good(proposed)
    <3> DEFINE generated == postgenerate(ubrnGenerate(proposed))
    <3>1. /\ generated.file.crate = proposed.crate
          /\ generated.ok => generated.file.decoder = "native"
      BY <1>3, GeneratedAreOfTheTree, PostgenerateForcesTheDecoder
    <3>2. checked' = "passed" => generated.ok /\ generated.file = proposed.bindings
      BY <1>8 DEF CheckBindings
    <3> QED BY <3>1, <3>2 DEF Good
  <2> QED BY <1>1, <1>2, <1>8, <2>1 DEF CheckBindings, Inv, TypeInv, GoodInv
<1>9. CASE Merge
  BY <1>1, <1>2, <1>9 DEF Merge, Inv, TypeInv, GoodInv
<1> QED BY <1>4, <1>5, <1>6, <1>7, <1>8, <1>9 DEF Contribute

\* A run that becomes another one, as the invariant wants it, and no package.
LEMMA OneRunKeeps ==
    ASSUME Inv, NEW i \in Runs, NEW new \in Run,
           run' = [run EXCEPT ![i] = new], RunInv(i)',
           UNCHANGED <<work, proposed, checked, main, staged>>
    PROVE  Inv'
<1>1. TypeInv'
  BY DEF Inv, TypeInv
<1>2. \A j \in Runs : j # i => run'[j] = run[j]
  BY DEF Inv, TypeInv
<1>3. (\A j \in Runs : RunInv(j))'
  BY <1>2 DEF Inv, RunInv
<1>4. GoodInv' /\ PackageInv'
  BY DEF Inv, GoodInv, PackageInv, TaggedReleasesWork, PackagesAreOfOneCommit,
         TagsAreVersions
<1> QED BY <1>1, <1>3, <1>4 DEF Inv

\* A run begins on a commit, a good one if a tag began it.
LEMMA TriggerKeeps ==
    ASSUME Inv, NEW i \in Runs, PushTag(i) \/ Dispatch(i)
    PROVE  Inv'
<1>1. main \in Commits /\ proposed \in Commits /\ Good(main) /\ run \in [Runs -> Run]
  BY DEF Inv, TypeInv, GoodInv
<1>2. NoRun = [job |-> "none", event |-> "manual", stage |-> FALSE, tag |-> 0, sha |-> Start,
               merged |-> FALSE, artifacts |-> {}, tree |-> Start]
  BY DEF NoRun
<1>3. 0 \in 0 .. MaxCrate /\ 0 \in 0 .. MaxVersion
  BY ReleaseAssumption
<1>4. Start \in Commits
  BY <1>3 DEF Start, Commits, Bindings, Templates
<1>5. CASE PushTag(i)
  <2>1. PICK tag \in 0 .. MaxVersion, commit \in {main, proposed} :
          Trigger(i, [NoRun EXCEPT !.job = "build", !.event = "push", !.tag = tag,
                                   !.sha = commit, !.merged = commit = main])
    BY <1>5 DEF PushTag
  <2> DEFINE new == [NoRun EXCEPT !.job = "build", !.event = "push", !.tag = tag,
                                  !.sha = commit, !.merged = commit = main]
  <2>2. new \in Run
    BY <1>1, <1>2, <1>3, <1>4, <2>1 DEF Run
  <2>3. run'[i] = new /\ run' = [run EXCEPT ![i] = new]
    BY <1>1, <2>1 DEF Trigger
  <2>4. RunInv(i)'
    BY <1>1, <1>2, <2>3 DEF RunInv, Good
  <2> QED BY <2>1, <2>2, <2>3, <2>4, OneRunKeeps DEF Trigger
<1>6. CASE Dispatch(i)
  <2>1. PICK stage \in BOOLEAN, commit \in {main, proposed} :
          Trigger(i, [NoRun EXCEPT !.job = "build", !.stage = stage, !.sha = commit])
    BY <1>6 DEF Dispatch
  <2> DEFINE new == [NoRun EXCEPT !.job = "build", !.stage = stage, !.sha = commit]
  <2>2. new \in Run
    BY <1>1, <1>2, <1>3, <1>4, <2>1 DEF Run
  <2>3. run'[i] = new /\ run' = [run EXCEPT ![i] = new]
    BY <1>1, <2>1 DEF Trigger
  <2>4. RunInv(i)'
    BY <1>2, <2>3 DEF RunInv
  <2> QED BY <2>1, <2>2, <2>3, <2>4, OneRunKeeps DEF Trigger
<1> QED BY <1>5, <1>6

\* What a build adds is of the run's commit.
LEMMA BuildKeeps ==
    ASSUME Inv, NEW i \in Runs, NEW platform \in Platforms, NEW abis \in SUBSET Targets,
           Build(i, platform, abis)
    PROVE  Inv'
<1> DEFINE artifact == [platform |-> platform, commit |-> run[i].sha, abis |-> abis]
           new == [run[i] EXCEPT !.artifacts = @ \cup {artifact}]
<1>1. /\ run \in [Runs -> Run] /\ run[i] \in Run /\ RunInv(i)
      /\ run[i].sha \in Commits /\ run[i].job = "build"
  BY DEF Inv, TypeInv, Run, Build
<1>2. artifact \in Artifacts /\ artifact.commit = run[i].sha
  BY <1>1 DEF Artifacts
<1>3. run' = [run EXCEPT ![i] = new]
  BY <1>1 DEF Build, checkout
<1> HIDE DEF artifact
<1>4. new \in Run /\ run'[i] = new
  BY <1>1, <1>2, <1>3 DEF Run
<1>5. RunInv(i)'
  BY <1>1, <1>2, <1>4 DEF RunInv, Run
<1>6. UNCHANGED <<work, proposed, checked, main, staged>>
  BY DEF Build
<1> QED BY <1>3, <1>4, <1>5, <1>6, OneRunKeeps

\* The builds, the checks, a failure and another attempt move one run along.
LEMMA JobsKeep ==
    ASSUME Inv, NEW i \in Runs,
           BuildAndroid(i) \/ BuildIos(i) \/ Package(i) \/ Fail(i) \/ RunAgain(i)
    PROVE  Inv'
<1>1. /\ run \in [Runs -> Run] /\ run[i] \in Run /\ RunInv(i)
      /\ run[i].sha \in Commits /\ run[i].artifacts \subseteq Artifacts
  BY DEF Inv, TypeInv, Run
<1>2. CASE BuildAndroid(i)
  BY <1>2, BuildKeeps DEF BuildAndroid, Platforms
<1>3. CASE BuildIos(i)
  BY <1>3, BuildKeeps DEF BuildIos, Platforms
<1>4. CASE Package(i)
  <2> DEFINE job == IF checkTag(i) /\ checkBinaries(i) THEN "packed" ELSE "failed"
             new == [run[i] EXCEPT !.job = job, !.tree = run[i].sha]
  <2>1. run' = [run EXCEPT ![i] = new]
    BY <1>1, <1>4 DEF Package, checkout, Run
  <2>2. {a.platform : a \in run[i].artifacts} = Platforms
    BY <1>1, <1>4 DEF Package, Uploaded, Artifacts
  <2>3. job \in {"packed", "failed"}
        /\ (job = "packed" => (run[i].event = "push" => run[i].tag = run[i].sha.version))
    BY DEF checkTag, checkout
  <2> HIDE DEF job
  <2>4. new \in Run /\ run'[i] = new
    BY <1>1, <2>1, <2>3 DEF Run
  <2>5. RunInv(i)'
    BY <1>1, <2>2, <2>3, <2>4 DEF RunInv, Run
  <2>6. UNCHANGED <<work, proposed, checked, main, staged>>
    BY <1>4 DEF Package
  <2> QED BY <2>1, <2>4, <2>5, <2>6, OneRunKeeps
<1>5. CASE Fail(i)
  <2> DEFINE new == [run[i] EXCEPT !.job = "failed"]
  <2>1. new \in Run /\ run' = [run EXCEPT ![i] = new] /\ run'[i] = new
    BY <1>1, <1>5 DEF Fail, Run
  <2>2. RunInv(i)'
    BY <1>1, <2>1 DEF RunInv, Run
  <2>3. UNCHANGED <<work, proposed, checked, main, staged>>
    BY <1>5 DEF Fail
  <2> QED BY <2>1, <2>2, <2>3, OneRunKeeps
<1>6. CASE RunAgain(i)
  <2>1. PICK kept \in {run[i].artifacts, {}} :
          run' = [run EXCEPT ![i].job = "build", ![i].artifacts = kept]
    BY <1>6 DEF RunAgain
  <2> DEFINE new == [run[i] EXCEPT !.job = "build", !.artifacts = kept]
  <2>2. kept \subseteq Artifacts /\ kept \subseteq run[i].artifacts
    BY <1>1
  <2>3. new \in Run /\ run' = [run EXCEPT ![i] = new] /\ run'[i] = new
    BY <1>1, <2>1, <2>2 DEF Run
  <2>4. RunInv(i)'
    BY <1>1, <2>2, <2>3 DEF RunInv, Run
  <2>5. UNCHANGED <<work, proposed, checked, main, staged>>
    BY <1>6 DEF RunAgain
  <2> QED BY <2>3, <2>4, <2>5, OneRunKeeps
<1> QED BY <1>2, <1>3, <1>4, <1>5, <1>6

\* What is staged is what the run has built, checked out and checked, of the commit it
\* began with.
LEMMA StageKeeps ==
    ASSUME Inv, NEW i \in Runs, Stage(i)
    PROVE  Inv'
<1> DEFINE new == [run[i] EXCEPT !.job = "staged"]
           package == [event |-> run[i].event, tag |-> run[i].tag, merged |-> run[i].merged,
                       commit |-> run[i].tree, libraries |-> run[i].artifacts]
<1>1. run \in [Runs -> Run] /\ run[i] \in Run /\ RunInv(i) /\ run[i].job = "packed"
  BY DEF Inv, TypeInv, Stage
<1>2. new \in Run /\ run' = [run EXCEPT ![i] = new] /\ run'[i] = new
  BY <1>1 DEF Stage, Run
<1>3. staged' = staged \cup {package} /\ package \in StagedPackage
  BY <1>1 DEF Stage, Run, StagedPackage
<1>4. /\ (package.event = "push" /\ package.merged) => Good(package.commit)
      /\ package.event = "push" => package.tag = package.commit.version
      /\ {a.platform : a \in package.libraries} = Platforms
      /\ \A a \in package.libraries : a.commit = package.commit
  BY <1>1 DEF RunInv
<1> HIDE DEF package
<1>5. PackageInv'
  <2>1. TaggedReleasesWork'
    BY <1>3, <1>4 DEF Inv, PackageInv, TaggedReleasesWork, Good
  <2>2. PackagesAreOfOneCommit'
    BY <1>3, <1>4 DEF Inv, PackageInv, PackagesAreOfOneCommit
  <2>3. TagsAreVersions'
    BY <1>3, <1>4 DEF Inv, PackageInv, TagsAreVersions
  <2> QED BY <2>1, <2>2, <2>3 DEF PackageInv
<1>6. RunInv(i)'
  BY <1>1, <1>2 DEF RunInv, Run
<1>7. \A j \in Runs : j # i => run'[j] = run[j]
  BY <1>1, <1>2
<1>8. (\A j \in Runs : RunInv(j))'
  BY <1>6, <1>7 DEF Inv, RunInv
<1>9. TypeInv' /\ GoodInv'
  BY <1>2, <1>3 DEF Inv, TypeInv, GoodInv, Stage
<1> QED BY <1>5, <1>8, <1>9 DEF Inv

\* Every step keeps the invariant.
LEMMA NextInv == Inv /\ [Next]_vars => Inv'
<1> SUFFICES ASSUME Inv, [Next]_vars PROVE Inv'
  OBVIOUS
<1>1. CASE Contribute
  BY <1>1, ContributeKeeps
<1>2. CASE \E i \in Runs : Workflow(i)
  BY <1>2, TriggerKeeps, JobsKeep, StageKeeps DEF Workflow
<1>3. CASE Decide
  BY <1>3
  DEF Decide, Inv, TypeInv, GoodInv, RunInv, PackageInv, TaggedReleasesWork,
      PackagesAreOfOneCommit, TagsAreVersions
<1>4. CASE UNCHANGED vars
  BY <1>4
  DEF vars, Inv, TypeInv, GoodInv, RunInv, PackageInv, TaggedReleasesWork,
      PackagesAreOfOneCommit, TagsAreVersions
<1> QED BY <1>1, <1>2, <1>3, <1>4 DEF Next

---------------------------------------------------------------------------

\* The inductive invariant: what CI passed, what main holds, what each run has built.
THEOREM SpecInv == Spec => []Inv
BY InitInv, NextInv, PTL DEF Spec

\* Every variable keeps its type.
THEOREM TypeCorrect == Spec => []TypeOK
<1>1. Inv => TypeOK
  BY DEF Inv, TypeInv, TypeOK, Run, StagedPackage
<1> QED BY <1>1, SpecInv, PTL

\* What a tag stages has the bindings of its libraries, patched, whatever was generated
\* by halves, proposed and merged before.
THEOREM TaggedReleasesAreGood == Spec => []TaggedReleasesWork
<1>1. Inv => TaggedReleasesWork
  BY DEF Inv, PackageInv
<1> QED BY <1>1, SpecInv, PTL

\* The Android libraries, the iOS libraries and the sources of a package are of one
\* commit, for any number of runs side by side, of attempts at their jobs and of targets.
THEOREM OneCommitPerPackage == Spec => []PackagesAreOfOneCommit
<1>1. Inv => PackagesAreOfOneCommit
  BY DEF Inv, PackageInv
<1> QED BY <1>1, SpecInv, PTL

\* A tag other than the version stages nothing, however often the run is run again.
THEOREM StagedTagsAreVersions == Spec => []TagsAreVersions
<1>1. Inv => TagsAreVersions
  BY DEF Inv, PackageInv
<1> QED BY <1>1, SpecInv, PTL

===========================================================================
