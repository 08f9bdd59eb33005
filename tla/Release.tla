------------------------------ MODULE Release ------------------------------
(***************************************************************************)
(* From a change of the Rust to a package on npm: the bindings are         *)
(* generated and committed by hand, CI regenerates them and compares, and  *)
(* the release workflow builds the libraries of a commit and stages them   *)
(* with the bindings of that commit.  Any step may fail half way.          *)
(*                                                                         *)
(* Pushing a tag or starting the workflow starts a run; its jobs take      *)
(* hours, while main moves on.  A run sees nothing of the other runs.      *)
(***************************************************************************)
EXTENDS Integers, FiniteSets

CONSTANTS
    Targets,     \* the ABIs of ubrn.config.yaml
    CheckedABI,  \* the one the workflow looks for
    MaxCrate,    \* Bound: changes of the exported functions
    MaxVersion,  \* Bound: versions in package.json
    Runs         \* Bound: runs of the release workflow

ASSUME ReleaseAssumption == CheckedABI \in Targets /\ {MaxCrate, MaxVersion} \subseteq Nat

VARIABLES
    work,       \* a contributor's working tree
    proposed,   \* the commit of the pull request that is open
    checked,    \* what CI has said of it: pending, passed or failed
    main,       \* the commit at the head of main
    run,        \* the runs of the release workflow
    staged      \* the packages npm holds for approval

vars == <<work, proposed, checked, main, run, staged>>

---------------------------------------------------------------------------
(* The bindings *)

\* template: whether ubrn's string helper still looks as the script expects.
Templates == {"known", "reshaped"}

\* The generated file: the crate it was generated from, the template, and whose
\* decoder it calls.
Bindings == [crate : 0 .. MaxCrate, template : Templates, decoder : {"js", "native"}]

Commits == [crate : 0 .. MaxCrate, template : Templates, version : 0 .. MaxVersion,
            bindings : Bindings]

\* What ubrn writes for a tree.
ubrnGenerate(tree) ==
    [crate |-> tree.crate, template |-> tree.template, decoder |-> "js"]

\* The slip its comment warns of: a template it does not know is skipped in silence.
postgenerateSkips(bindings) ==
    [ok |-> TRUE,
     file |-> IF bindings.template = "known" THEN [bindings EXCEPT !.decoder = "native"]
                                             ELSE bindings]

\* forceNativeStringDecoder.js: done already, not recognised, or patched.
postgenerate(bindings) ==
    IF bindings.decoder = "native" THEN [ok |-> TRUE, file |-> bindings]
    ELSE IF bindings.template # "known" THEN [ok |-> FALSE, file |-> bindings]
    ELSE [ok |-> TRUE, file |-> [bindings EXCEPT !.decoder = "native"]]

---------------------------------------------------------------------------

Start ==
    [crate |-> 0, template |-> "known", version |-> 0,
     bindings |-> [crate |-> 0, template |-> "known", decoder |-> "native"]]

Platforms == {"android", "ios"}

\* What a build job uploads: the libraries, with the commit they were built of.
Artifacts == [platform : Platforms, commit : Commits, abis : SUBSET Targets]

\* tree is what the packing job has checked out.
NoRun == [job |-> "none", event |-> "manual", stage |-> FALSE, tag |-> 0, sha |-> Start,
          merged |-> FALSE, artifacts |-> {}, tree |-> Start]

Init ==
    /\ work = Start /\ main = Start /\ proposed = Start
    /\ checked = "failed"
    /\ run = [i \in Runs |-> NoRun]
    /\ staged = {}

---------------------------------------------------------------------------
(* A contributor *)

Edit ==
    /\ \/ work.crate < MaxCrate /\ work' = [work EXCEPT !.crate = @ + 1]
       \/ work.version < MaxVersion /\ work' = [work EXCEPT !.version = @ + 1]
       \/ work.template = "known" /\ work' = [work EXCEPT !.template = "reshaped"]
    /\ UNCHANGED <<proposed, checked, main, run, staged>>

\* yarn bindings:generate, or ubrn's own --and-generate, which skips the script.  If the
\* script is not reached, or fails, the bindings ubrn wrote are there all the same.
Generate ==
    /\ work' \in {[work EXCEPT !.bindings = ubrnGenerate(work)],
                  [work EXCEPT !.bindings = postgenerate(ubrnGenerate(work)).file]}
    /\ UNCHANGED <<proposed, checked, main, run, staged>>

\* The script by hand, on whatever is there.
Postgenerate ==
    /\ work' = [work EXCEPT !.bindings = postgenerate(work.bindings).file]
    /\ UNCHANGED <<proposed, checked, main, run, staged>>

\* A pull request, or another commit on it: CI starts over.
Propose ==
    /\ proposed' = work
    /\ checked' = "pending"
    /\ UNCHANGED <<work, main, run, staged>>

\* The slip: what ubrn wrote is compared before the script has run on it.
CheckBindingsByCrate ==
    /\ checked = "pending"
    /\ checked' = IF proposed.bindings.crate = proposed.crate THEN "passed" ELSE "failed"
    /\ UNCHANGED <<work, proposed, main, run, staged>>

\* The job generates the bindings anew, script and all, and fails if a step does or if
\* the result is not what was committed.
CheckBindings ==
    LET generated == postgenerate(ubrnGenerate(proposed)) IN
    /\ checked = "pending"
    /\ checked' = IF generated.ok /\ generated.file = proposed.bindings
                  THEN "passed" ELSE "failed"
    /\ UNCHANGED <<work, proposed, main, run, staged>>

Merge ==
    /\ checked = "passed"
    /\ main' = proposed
    /\ UNCHANGED <<work, proposed, checked, run, staged>>

---------------------------------------------------------------------------
(* The release workflow *)

Trigger(i, event) ==
    /\ run[i].job = "none"
    /\ run' = [run EXCEPT ![i] = event]
    /\ UNCHANGED <<work, proposed, checked, main, staged>>

\* A tag is pushed, with whatever name, on main or on what is not merged.
PushTag(i) ==
    \E tag \in 0 .. MaxVersion, commit \in {main, proposed} :
        Trigger(i, [NoRun EXCEPT !.job = "build", !.event = "push", !.tag = tag,
                                 !.sha = commit, !.merged = commit = main])

\* The workflow is started by hand, on any branch, to stage or only to pack.
Dispatch(i) ==
    \E stage \in BOOLEAN, commit \in {main, proposed} :
        Trigger(i, [NoRun EXCEPT !.job = "build", !.stage = stage, !.sha = commit])

\* The slip: the branch is checked out where it is by now.
checkoutLatest(i) == main

\* Each job, and each attempt at it, checks out the commit that the run was started on.
checkout(i) == run[i].sha

Uploaded(i, platform) == {a \in run[i].artifacts : a.platform = platform}

\* A job checks out, builds and uploads.
Build(i, platform, abis) ==
    /\ run[i].job = "build"
    /\ Uploaded(i, platform) = {}
    /\ run' = [run EXCEPT ![i].artifacts = @ \cup
                 {[platform |-> platform, commit |-> checkout(i), abis |-> abis]}]
    /\ UNCHANGED <<work, proposed, checked, main, staged>>

\* A target that ubrn.config.yaml or the job does not list is left out, and nothing
\* fails; only a build of nothing cannot be uploaded.
BuildAndroid(i) == \E abis \in (SUBSET Targets) \ {{}} : Build(i, "android", abis)

BuildIos(i) == Build(i, "ios", {})

\* The slip: the tag is looked at where there is no stage input.
checkTagNever(i) == run[i].event = "manual" \/ ~run[i].stage

\* The tag is compared with the version only if a tag started the run.
checkTag(i) == run[i].event = "push" => run[i].tag = checkout(i).version

\* One library of each platform is looked for.
checkBinaries(i) == \E a \in Uploaded(i, "android") : CheckedABI \in a.abis

\* The job needs both builds, and stops at the first check that fails.  What it packs is
\* a checkout of its own and the libraries of the builds.
Package(i) ==
    /\ run[i].job = "build"
    /\ \A platform \in Platforms : Uploaded(i, platform) # {}
    /\ run' = [run EXCEPT ![i].job = IF checkTag(i) /\ checkBinaries(i)
                                     THEN "packed" ELSE "failed",
                          ![i].tree = checkout(i)]
    /\ UNCHANGED <<work, proposed, checked, main, staged>>

\* npm stage publish.
Stage(i) ==
    /\ run[i].job = "packed"
    /\ run[i].event = "push" \/ run[i].stage
    /\ staged' = staged \cup {[event |-> run[i].event, tag |-> run[i].tag,
                               merged |-> run[i].merged, commit |-> run[i].tree,
                               libraries |-> run[i].artifacts]}
    /\ run' = [run EXCEPT ![i].job = "staged"]
    /\ UNCHANGED <<work, proposed, checked, main>>

\* The slip: a job that was cancelled counts as neither done nor failed.
FailAsCancelled(i) ==
    /\ run[i].job \in {"build", "packed", "staged"}
    /\ run' = [run EXCEPT ![i].job = "cancelled"]
    /\ UNCHANGED <<work, proposed, checked, main, staged>>

\* A step of any job fails, also the summary after the package was staged.
Fail(i) ==
    /\ run[i].job \in {"build", "packed", "staged"}
    /\ run' = [run EXCEPT ![i].job = "failed"]
    /\ UNCHANGED <<work, proposed, checked, main, staged>>

\* The failed jobs are run again, on what the others have uploaded, or all of them.
RunAgain(i) ==
    /\ run[i].job = "failed"
    /\ \E kept \in {run[i].artifacts, {}} :
        run' = [run EXCEPT ![i].job = "build", ![i].artifacts = kept]
    /\ UNCHANGED <<work, proposed, checked, main, staged>>

\* A maintainer rejects a package, or approves it; either way it no longer waits.
Decide ==
    /\ \E p \in staged : staged' = staged \ {p}
    /\ UNCHANGED <<work, proposed, checked, main, run>>

---------------------------------------------------------------------------

Contribute == Edit \/ Generate \/ Postgenerate \/ Propose \/ CheckBindings \/ Merge

Workflow(i) ==
    \/ PushTag(i) \/ Dispatch(i)
    \/ BuildAndroid(i) \/ BuildIos(i) \/ Package(i) \/ Stage(i)
    \/ Fail(i) \/ RunAgain(i)

Next == Contribute \/ (\E i \in Runs : Workflow(i)) \/ Decide

Spec == Init /\ [][Next]_vars

---------------------------------------------------------------------------
(* Properties *)

TypeOK ==
    /\ {work, proposed, main} \subseteq Commits
    /\ checked \in {"pending", "passed", "failed"}
    /\ \A i \in Runs :
        /\ run[i].job \in {"none", "build", "packed", "staged", "failed"}
        /\ {run[i].sha, run[i].tree} \subseteq Commits
        /\ run[i].artifacts \subseteq Artifacts
    /\ \A p \in staged : p.commit \in Commits /\ p.event \in {"push", "manual"}

\* What a tag on main stages boots, where it has a library, and decodes strings in C++:
\* its bindings are those of its libraries and were patched, whichever generate was
\* interrupted, did without the script or met a template the script does not know.
TaggedReleasesWork ==
    \A p \in staged : (p.event = "push" /\ p.merged) =>
        /\ \A a \in p.libraries : p.commit.bindings.crate = a.commit.crate
        /\ p.commit.bindings.decoder = "native"

\* However often its jobs fail and run again, some or all of them, while main moves on:
\* what a run packs are the Android libraries, the iOS libraries and the sources of one
\* commit, though three machines checked it out, hours apart.
PackagesAreOfOneCommit ==
    \A p \in staged :
        /\ {a.platform : a \in p.libraries} = Platforms
        /\ \A a \in p.libraries : a.commit = p.commit

\* A tag that does not match the version stages nothing, on the first attempt or a later
\* one, whatever commit it is on.
TagsAreVersions == \A p \in staged : p.event = "push" => p.tag = p.commit.version

===========================================================================
