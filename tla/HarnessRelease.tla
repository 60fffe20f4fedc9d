--------------------------- MODULE HarnessRelease ---------------------------
(* What a harness release consists of (factory/harness_release.py), and    *)
(* how a runtime that is pointed at one takes it in                        *)
(* (runtime/sdk/harness_release_loader.py).                                *)
(*                                                                         *)
(* A release request is an identity graph: a protocol, a plan compiled     *)
(* from it, the dependencies both were made with, a research epoch, a      *)
(* deployment and its profile.  A generation holds each of them as a file, *)
(* most of them twice, with the public evidence, a copy of the kernel's    *)
(* sources and a manifest of all of it; its directory is named by its      *)
(* content.  A builder validates a generation four times before the active *)
(* pointer names it; a loader follows the pointer and reads the files one  *)
(* after another, while an upgrade may replace the installed package and   *)
(* somebody may change a file of a release.                                *)
(*                                                                         *)
(* A digest is what it is the digest of, so the name of a generation is    *)
(* the function from its files to their contents.  Who may build when, and *)
(* two builders of one release, are FactoryTransaction's matter.           *)
EXTENDS Naturals, FiniteSets, SequencesExt

CONSTANTS
  Requests,      \* the requests that somebody makes
  Closure,       \* version of the package -> the kernel paths it bundles
  MaxBuilds,     \* bound: the builds
  MaxLoads,      \* bound: the loads
  MaxEdits       \* bound: the files that are changed in a release

PackageVersions == DOMAIN Closure

HarnessReleaseAssumption ==
  /\ PackageVersions = 1..Cardinality(PackageVersions) /\ PackageVersions # {}
  /\ MaxBuilds \in Nat /\ MaxLoads \in Nat /\ MaxEdits \in Nat

VARIABLES
  installed,   \* the version of the installed package
  gens,        \* the generations under releases/, in the order they came
  pointer,     \* active_release.json: a generation and its manifest's digest
  build,       \* the builder
  load,        \* the loader
  spent        \* the builds, loads and edits so far

vars == <<installed, gens, pointer, build, load, spent>>

------------------------------------------------------------------------------
(* The identity graph.                                                     *)
(* A faulty variant of Accepts: tools are not compared with the epoch's.   *)
AcceptsAnyTools(r) ==
  /\ r.plan.protocol = r.protocol
  /\ r.plan.deps = r.deps
  /\ r.deployment = r.epoch.deployment
  /\ r.deployment = r.profile.deployment
Accepts(r) ==
  /\ r.plan.protocol = r.protocol
  /\ r.plan.deps = r.deps
  /\ r.deployment = r.epoch.deployment
  /\ r.deps.tools = r.epoch.tools
  /\ r.deployment = r.profile.deployment

(* compiled_semantic_digest: neither the protocol's own digest nor the     *)
(* liveness manifest is part of it.                                        *)
Semantic(plan) == [deps |-> plan.deps, body |-> plan.body]

Identities(r) ==
  [protocol |-> r.protocol, semantic |-> Semantic(r.plan), deps |-> r.deps.id,
   epoch |-> r.epoch.id, profile |-> r.profile.id]

(* What a generation holds twice, for the runtime and in public.           *)
(* A faulty variant of Twice: the epoch is not compared.                   *)
TwiceButEpoch == {"protocol", "plan", "deps", "index"}
Twice == {"protocol", "plan", "deps", "epoch", "index"}

(* The files.  "notes" stands for the evidence that no identity is taken   *)
(* from: the search's lineage and decisions, Gate 0, the pilot, limits.    *)
(* A content has a text besides what is identified: the ceilings of an     *)
(* epoch, the bindings of a liveness manifest, a line of a source.         *)
Files == {<<"runtime", f>> : f \in {"protocol", "plan", "deps", "epoch", "index",
                                     "profile", "identity", "kernel", "sources"}}
         \cup {<<"evidence", f>> : f \in {"protocol", "plan", "deps", "epoch", "index",
                                           "notes"}}
(* Files whose own digest, which they hold or which is taken of them,      *)
(* covers all of their content.                                            *)
Bound == {"protocol", "deps", "index", "profile"}

Plain(v) == <<[is |-> v, text |-> 0]>>
Missing == <<>>

Indexed(r) ==
  [identities |-> Identities(r),
   artifacts |-> [f \in {"protocol", "plan", "deps", "epoch", "notes"} |->
                    IF f = "protocol" THEN Plain(r.protocol)
                    ELSE IF f = "notes" THEN Plain(r.notes) ELSE Plain(r[f])]]

Content(f, r, kernel) ==
  CASE f[2] = "index" -> Plain(Indexed(r))
    [] f[2] = "identity" -> Plain([identities |-> Identities(r),
                                   deployment |-> r.deployment,
                                   envelope |-> r.plan.body])
    [] f[2] \in {"kernel", "sources"} -> Plain(kernel)
    [] OTHER -> Plain(r[f[2]])

Generation(r, kernel) ==
  LET files == [f \in Files |-> Content(f, r, kernel)]
      manifest == Plain([files |-> files, identities |-> Identities(r),
                         deployment |-> r.deployment])
  IN [name |-> files, files |-> files, built |-> manifest, manifest |-> manifest]

Readable(files, f) == files[f] # Missing /\ (f[2] \in Bound => files[f][1].text = 0)
Is(files, f) == files[f][1].is
In(f) == <<"runtime", f>>
Public(f) == <<"evidence", f>>

(* The checks, as a function of what is read.  The manifest is bound by    *)
(* its digest and named by its directory.                                  *)
ManifestHolds(gen, m) == m # Missing /\ m[1].text = 0 /\ m[1].is.files = gen.name

IdentitiesHold(files, m) ==
  /\ \A f \in {"protocol", "plan", "deps", "epoch", "profile", "identity", "index"} :
       Readable(files, In(f))
  /\ LET of == m[1].is
         plan == Is(files, In("plan"))
     IN /\ Is(files, In("protocol")) = of.identities.protocol
        /\ Is(files, In("deps")).id = of.identities.deps
        /\ plan.protocol = Is(files, In("protocol"))
        /\ Semantic(plan) = of.identities.semantic
        /\ plan.deps = Is(files, In("deps"))
        /\ Is(files, In("epoch")).id = of.identities.epoch
        /\ Is(files, In("epoch")).deployment = of.deployment
        /\ Is(files, In("profile")).id = of.identities.profile
        /\ Is(files, In("profile")).deployment = of.deployment
        /\ Is(files, In("identity")) = [identities |-> of.identities,
                                        deployment |-> of.deployment,
                                        envelope |-> plan.body]
        /\ Is(files, In("index")).identities = of.identities

ArtifactsHold(files, index) ==
  \A f \in DOMAIN index.artifacts : files[Public(f)] = index.artifacts[f]

PairsHold(files) == \A f \in Twice : files[Public(f)] # Missing
                                       /\ files[Public(f)] = files[In(f)]

KernelHolds(files) ==
  /\ files[In("kernel")] # Missing /\ files[In("sources")] # Missing
  /\ files[In("sources")] = files[In("kernel")]

(* validate_harness_generation, in the package that is installed: besides  *)
(* the digests it asks that the kernel holds the very paths that this      *)
(* package would bundle.                                                   *)
(* A faulty variant of BuilderAccepts: files are not compared with the     *)
(* manifest, only what is typed is checked.                                *)
BuilderAcceptsTyped(gen) ==
  /\ ManifestHolds(gen, gen.manifest)
  /\ \A f \in Files : gen.files[f] # Missing
  /\ Readable(gen.files, In("protocol")) /\ Readable(gen.files, In("deps"))
  /\ Is(gen.files, In("protocol")) = gen.manifest[1].is.identities.protocol
  /\ DOMAIN Is(gen.files, In("kernel")) = Closure[installed]
BuilderAccepts(gen) ==
  /\ ManifestHolds(gen, gen.manifest)
  /\ gen.files = gen.manifest[1].is.files
  /\ \A f \in {"protocol", "deps", "profile"} : Readable(gen.files, In(f))
  /\ LET of == gen.manifest[1].is
         public(f) == Is(gen.files, Public(f))
     IN /\ public("protocol") = of.identities.protocol
        /\ public("plan").protocol = public("protocol")
        /\ Semantic(public("plan")) = of.identities.semantic
        /\ public("plan").deps = public("deps") /\ public("deps").id = of.identities.deps
        /\ Is(gen.files, In("profile")).deployment = of.deployment
        /\ Is(gen.files, In("profile")).id = of.identities.profile
        /\ public("index").identities.protocol = of.identities.protocol
        /\ ArtifactsHold(gen.files, public("index"))
  /\ PairsHold(gen.files)
  /\ KernelHolds(gen.files)
  /\ DOMAIN Is(gen.files, In("kernel")) = Closure[installed]

------------------------------------------------------------------------------
(* The builder.                                                            *)
Idle == [step |-> "idle", todo |-> <<>>, kernel |-> <<>>, request |-> <<>>,
         gen |-> <<>>, at |-> 0, edited |-> FALSE]

Start(r) ==
  /\ build.step = "idle" /\ spent.builds < MaxBuilds /\ Accepts(r)
  /\ build' = [Idle EXCEPT !.step = "copy", !.request = <<r>>,
                           !.todo = SetToSortSeq(Closure[installed], <)]
  /\ spent' = [spent EXCEPT !.builds = @ + 1]
  /\ UNCHANGED <<installed, gens, pointer, load>>

(* bundle_runtime_kernel: the paths are listed, then copied one after      *)
(* another from the package as it is by then; the kernel's manifest is     *)
(* made of what was copied.                                                *)
Copy ==
  /\ build.step = "copy" /\ build.todo # <<>>
  /\ IF Head(build.todo) \in Closure[installed]
     THEN build' = [build EXCEPT !.todo = Tail(@), !.kernel = Append(@, installed)]
     ELSE build' = Idle
  /\ UNCHANGED <<installed, gens, pointer, load, spent>>

(* The generation is complete in its staging directory and is validated.   *)
Stage ==
  /\ build.step = "copy" /\ build.todo = <<>>
  /\ LET gen == Generation(build.request[1], build.kernel)
     IN build' = IF BuilderAccepts(gen)
                 THEN [build EXCEPT !.step = "place", !.gen = <<gen>>] ELSE Idle
  /\ UNCHANGED <<installed, gens, pointer, load, spent>>

(* It is renamed to its place, or what is there already must be the same.  *)
Place ==
  /\ build.step = "place"
  /\ LET gen == build.gen[1]
         there == {k \in DOMAIN gens : gens[k].name = gen.name}
     IN IF there = {}
        THEN /\ gens' = Append(gens, gen)
             /\ build' = [build EXCEPT !.step = "placed", !.at = Len(gens) + 1]
        ELSE /\ build' = IF \A k \in there : /\ BuilderAccepts(gens[k])
                                             /\ gens[k].manifest = gen.manifest
                         THEN [build EXCEPT !.step = "placed", !.at = Max(there)]
                         ELSE Idle
             /\ UNCHANGED gens
  /\ UNCHANGED <<installed, pointer, load, spent>>

Validate ==
  /\ build.step = "placed"
  /\ build' = IF BuilderAccepts(gens[build.at])
              THEN [build EXCEPT !.step = "advance"] ELSE Idle
  /\ UNCHANGED <<installed, gens, pointer, load, spent>>

(* advance_active_release, of this release or, when a transaction log is   *)
(* gone through again, of one that was built before.                       *)
Again(k) ==
  /\ build.step = "idle" /\ spent.builds < MaxBuilds
  /\ build' = [Idle EXCEPT !.step = "advance", !.at = k,
                           !.gen = <<[gens[k] EXCEPT !.files = gens[k].name,
                                                     !.manifest = gens[k].built]>>]
  /\ spent' = [spent EXCEPT !.builds = @ + 1]
  /\ UNCHANGED <<installed, gens, pointer, load>>

Advance ==
  /\ build.step = "advance"
  /\ build' = IF /\ BuilderAccepts(gens[build.at])
                 /\ gens[build.at].manifest = build.gen[1].manifest
              THEN [build EXCEPT !.step = "point", !.edited = FALSE] ELSE Idle
  /\ UNCHANGED <<installed, gens, pointer, load, spent>>

Point ==
  /\ build.step = "point"
  /\ pointer' = <<[at |-> build.at, manifest |-> build.gen[1].manifest]>>
  /\ build' = Idle
  /\ UNCHANGED <<installed, gens, load, spent>>

(* The builder is killed: what it staged stays, and nobody reads it.       *)
KillBuild ==
  /\ build.step # "idle" /\ build' = Idle
  /\ UNCHANGED <<installed, gens, pointer, load, spent>>

------------------------------------------------------------------------------
(* The loader.  Each step reads the files it checks; a failed check ends   *)
(* the load.                                                               *)
NoLoad == [step |-> "idle", at |-> 0, manifest |-> Missing, pointed |-> Missing,
           seen |-> <<>>, edits |-> 0]
Read == gens[load.at].files
Goes(holds, next) == load' = IF holds THEN next ELSE NoLoad

LoadPointer ==
  /\ load.step = "idle" /\ spent.loads < MaxLoads /\ pointer # <<>>
  /\ load' = [NoLoad EXCEPT !.step = "manifest", !.at = pointer[1].at,
                            !.pointed = pointer[1].manifest]
  /\ spent' = [spent EXCEPT !.loads = @ + 1]
  /\ UNCHANGED <<installed, gens, pointer, build>>

LoadManifest ==
  /\ load.step = "manifest"
  /\ LET m == gens[load.at].manifest
     IN Goes(ManifestHolds(gens[load.at], m),
             [load EXCEPT !.step = "digests", !.manifest = m])
  /\ UNCHANGED <<installed, gens, pointer, build, spent>>

LoadDigests ==
  /\ load.step = "digests"
  /\ Goes(Read = load.manifest[1].is.files, [load EXCEPT !.step = "typed"])
  /\ UNCHANGED <<installed, gens, pointer, build, spent>>

Typed(files) == [f \in {"protocol", "plan", "deps", "epoch", "profile"} |-> files[In(f)]]

(* _load_typed_runtime reads the runtime's files, then the public ones by  *)
(* the index, then both copies of what is there twice, and compares the    *)
(* tools of what it has read.                                              *)
LoadTyped ==
  /\ load.step = "typed"
  /\ Goes(IdentitiesHold(Read, load.manifest),
          [load EXCEPT !.step = "artifacts",
                       !.seen = <<[typed |-> Typed(Read), index |-> Is(Read, In("index"))]>>])
  /\ UNCHANGED <<installed, gens, pointer, build, spent>>

LoadArtifacts ==
  /\ load.step = "artifacts"
  /\ Goes(ArtifactsHold(Read, load.seen[1].index), [load EXCEPT !.step = "pairs"])
  /\ UNCHANGED <<installed, gens, pointer, build, spent>>

LoadPairs ==
  /\ load.step = "pairs"
  /\ LET typed == load.seen[1].typed
     IN Goes(PairsHold(Read) /\ typed["deps"][1].is.tools = typed["epoch"][1].is.tools,
             [load EXCEPT !.step = "kernel"])
  /\ UNCHANGED <<installed, gens, pointer, build, spent>>

(* The kernel is checked against its own manifest, and last the pointer    *)
(* against the manifest that was read first.                               *)
LoadKernel ==
  /\ load.step = "kernel"
  /\ Goes(KernelHolds(Read) /\ load.pointed = load.manifest, [load EXCEPT !.step = "done"])
  /\ UNCHANGED <<installed, gens, pointer, build, spent>>

LoadEnds ==
  /\ load.step = "done" /\ load' = NoLoad
  /\ UNCHANGED <<installed, gens, pointer, build, spent>>

------------------------------------------------------------------------------
(* The package is upgraded; a file of a release is taken away, changed in  *)
(* what its identity does not cover, or replaced by another release's.     *)
Upgrade ==
  /\ installed < Cardinality(PackageVersions) /\ installed' = installed + 1
  /\ UNCHANGED <<gens, pointer, build, load, spent>>

Others(k, f) ==
  {Missing} \cup {gens[j].name[f] : j \in DOMAIN gens \ {k}} \cup
  {IF gens[k].files[f] = Missing THEN Missing ELSE [gens[k].files[f] EXCEPT ![1].text = 1]}

Edited(k) ==
  /\ spent.edits < MaxEdits /\ spent' = [spent EXCEPT !.edits = @ + 1]
  /\ load' = IF load.at = k THEN [load EXCEPT !.edits = @ + 1] ELSE load
  /\ build' = IF build.at = k THEN [build EXCEPT !.edited = TRUE] ELSE build
  /\ UNCHANGED <<installed, pointer>>

EditFile(k, f) ==
  /\ \E c \in Others(k, f) \ {gens[k].files[f]} : gens' = [gens EXCEPT ![k].files[f] = c]
  /\ Edited(k)

EditManifest(k) ==
  /\ \E j \in DOMAIN gens \ {k} : gens' = [gens EXCEPT ![k].manifest = gens[j].built]
  /\ Edited(k)

Init ==
  /\ installed = 1 /\ gens = <<>> /\ pointer = <<>>
  /\ build = Idle /\ load = NoLoad /\ spent = [builds |-> 0, loads |-> 0, edits |-> 0]

Next ==
  \/ \E r \in Requests : Start(r)
  \/ Copy \/ Stage \/ Place \/ Validate \/ Advance \/ Point \/ KillBuild
  \/ \E k \in DOMAIN gens : Again(k)
  \/ LoadPointer \/ LoadManifest \/ LoadDigests \/ LoadTyped \/ LoadArtifacts
  \/ LoadPairs \/ LoadKernel \/ LoadEnds
  \/ Upgrade
  \/ \E k \in DOMAIN gens : EditManifest(k) \/ \E f \in Files : EditFile(k, f)

Spec == Init /\ [][Next]_vars

------------------------------------------------------------------------------
(* Types.                                                                  *)
TypeOK ==
  /\ installed \in PackageVersions
  /\ \A k \in DOMAIN gens : DOMAIN gens[k].files = Files
  /\ pointer # <<>> => pointer[1].at \in DOMAIN gens
  /\ build.step \in {"idle", "copy", "place", "placed", "advance", "point"}
  /\ load.step \in {"idle", "manifest", "digests", "typed", "artifacts", "pairs",
                     "kernel", "done"}

Untouched(k) == gens[k].files = gens[k].name /\ gens[k].manifest = gens[k].built

(* A generation that came to its place and was left alone is taken in by   *)
(* every loader, whatever package is installed: no request is published    *)
(* that the runtime would refuse.                                          *)
PlacedIsLoadable ==
  \A k \in DOMAIN gens : Untouched(k) =>
    LET files == gens[k].files
    IN /\ IdentitiesHold(files, gens[k].manifest)
       /\ ArtifactsHold(files, Is(files, In("index")))
       /\ PairsHold(files) /\ KernelHolds(files)
       /\ Is(files, In("deps")).tools = Is(files, In("epoch")).tools

(* What a load gives is what was released, even if a file was changed      *)
(* while it was under way; a change from before it is refused.             *)
LoadedIsReleased ==
  load.step = "done" =>
    /\ load.edits <= 1 => load.seen[1].typed = Typed(gens[load.at].name)
    /\ load.edits = 0 => Untouched(load.at)

(* The pointer is only moved to a release nobody has touched, and to the   *)
(* manifest it was built with.                                             *)
PointsAtWhole ==
  /\ build.step = "point" /\ ~build.edited => Untouched(build.at)
  /\ pointer # <<>> => pointer[1].manifest = gens[pointer[1].at].built

(* All of it.                                                              *)
ReleasesAreWhole == PlacedIsLoadable /\ LoadedIsReleased /\ PointsAtWhole
=============================================================================
