------------------------------ MODULE Builder ------------------------------
(***************************************************************************)
(* One pass from a spec to tarballs: validateSpec looks at the spec alone, *)
(* fetchSources unpacks every source into a subdirectory of the workspace  *)
(* named by its alias, then ArtifactBuilder.Build stages each artifact     *)
(* into a subdirectory named by the artifact, one rendered template after  *)
(* the other, and archives it into the storage.  spec.values and           *)
(* spec.pipeline, which validateSpec also looks at, are in Values and      *)
(* Pipeline.                                                               *)
(*                                                                         *)
(* A path is a sequence of segments; a directory tree is a function from   *)
(* the paths of its regular files to the files, its directories being the  *)
(* proper prefixes of those paths.  A file in a source is a template: the  *)
(* names it defines and the helpers it calls, and whether it parses and is *)
(* within the size limit.  A rendered file tells what it was made from.    *)
(***************************************************************************)
EXTENDS Naturals, Sequences, FiniteSets, SequencesExt

CONSTANTS Sources,      \* [alias -> tree]: what each source's tarball unpacks to
          Data,         \* [step name -> value]: the template scope, tagged values
          KeyOrder,     \* the keys of maps, in lexicographic order
          NoCrossNamespaceRefs,
          IgnoredNames, \* segments that sourceignore's default patterns match
          Specs         \* the specs to try

\* The API server admits sequences, and no artifact without a template; Sources
\* has what every source unpacks to.
ASSUME SpecsAssumption ==
  \A s \in Specs :
    /\ \A ref \in ToSet(s.sources) : ref.alias \in DOMAIN Sources
    /\ s.artifacts \in Seq(ToSet(s.artifacts))
    /\ \A art \in ToSet(s.artifacts) :
         /\ art.templates \in Seq(ToSet(art.templates)) \ {<<>>}
         /\ \A t \in ToSet(art.templates) :
              t.to \in Seq(ToSet(t.to)) /\ t.from \in Seq(ToSet(t.from))

\* The helpers that a file may call.
ASSUME SourcesAssumption ==
  \A a \in DOMAIN Sources : \A p \in DOMAIN Sources[a] : \A call \in ToSet(Sources[a][p].calls) :
    call.helper \in {"include", "lookupFile", "required"}

ASSUME DataAssumption ==
  /\ KeyOrder \in Seq(ToSet(KeyOrder))
  /\ \A d \in DOMAIN Data : "list" \in DOMAIN Data[d] =>
       Data[d].list \in Seq(ToSet(Data[d].list))

VARIABLES spec,      \* the spec of the pass
          dirs,      \* [subdirectory of the workspace -> tree]
          cur,       \* the artifact being built
          written,   \* writtenPaths of the build in progress
          iter,      \* the iteration and the template applyArtifact is at
          tmpl,
          stored,    \* [artifact name -> its archived tree and revision]
          phase,     \* "validate", "fetch", "next", "build", "failed"
          err        \* why the pass failed

vars == <<spec, dirs, cur, written, iter, tmpl, stored, phase, err>>

Alias == {ref.alias : ref \in ToSet(spec.sources)}
Art   == spec.artifacts[cur]

Put(f, k, v) == [x \in DOMAIN f \union {k} |-> IF x = k THEN v ELSE f[x]]

-----------------------------------------------------------------------------
(***************************************************************************)
(* Paths and trees.                                                        *)
(***************************************************************************)
\* filepath.Clean on a relative path: "." and "" vanish, ".." cancels the
\* segment before it and stays at the front.
CleanSegment(acc, s) ==
  IF s \in {"", "."} THEN acc
  ELSE IF s = ".." /\ acc # <<>> /\ acc[Len(acc)] # ".." THEN Front(acc)
  ELSE Append(acc, s)

Clean(p) ==
  LET cleaned[n \in 0..Len(p)] ==
        IF n = 0 THEN <<>> ELSE CleanSegment(cleaned[n - 1], p[n])
  IN  cleaned[Len(p)]

\* p leads through a file, or to a directory, of the tree.
UnderFile(tree, p)   == \E q \in DOMAIN tree : IsStrictPrefix(q, p)
IsDirectory(tree, p) == \E q \in DOMAIN tree : IsStrictPrefix(p, q)

-----------------------------------------------------------------------------
(***************************************************************************)
(* validateSpec.                                                           *)
(***************************************************************************)
\* Sources have distinct aliases.
DistinctAliases(refs) == \A i, j \in DOMAIN refs : refs[i].alias = refs[j].alias => i = j

Denied(refs) == NoCrossNamespaceRefs /\ \E ref \in ToSet(refs) : ref.foreign

HELPER == "{{required}}"

\* ValidateDestTemplate: the path parses with the base functions; the Helm
\* helpers, which renderDestPath would know, are not among them.
DestParses(to) == to # <<>> /\ HELPER \notin ToSet(to)

\* revision and originRevision name a source, or are not given.
KnownOrNone(alias) == alias = "none" \/ alias \in Alias

\* Mutant: the output that forEach iterates over is not looked up.
validateArtifactOnly(art) ==
  /\ art.as # "values"
  /\ KnownOrNone(art.revision)
  /\ \A t \in ToSet(art.templates) : t.alias \in Alias /\ DestParses(t.to)

validateArtifact(art) ==
  /\ art.forEach # "none" => art.forEach \in DOMAIN Data /\ art.as # "values"
  /\ KnownOrNone(art.revision)
  /\ \A t \in ToSet(art.templates) : t.alias \in Alias /\ DestParses(t.to)

validateSpec ==
  /\ DistinctAliases(spec.sources) /\ ~Denied(spec.sources)
  /\ \A i, j \in DOMAIN spec.artifacts :
        spec.artifacts[i].name = spec.artifacts[j].name => i = j
  /\ \A art \in ToSet(spec.artifacts) : validateArtifact(art)

-----------------------------------------------------------------------------
(***************************************************************************)
(* buildIterations.                                                        *)
(***************************************************************************)
NoIteration == [key |-> "", value |-> ""]

\* Defined and a list or a map.
Iterable(art) ==
  \/ art.forEach = "none"
  \/ /\ art.forEach \in DOMAIN Data
     /\ DOMAIN Data[art.forEach] \in {{"list"}, {"map"}}

\* The keys of a map in lexicographic order.
sortedKeys(m) ==
  LET at     == {i \in DOMAIN KeyOrder : KeyOrder[i] \in DOMAIN m}
      nth(n) == CHOOSE i \in at : Cardinality({j \in at : j <= i}) = n
  IN  [n \in 1..Cardinality(at) |-> KeyOrder[nth(n)]]

\* A list in order, a map by sorted keys, one empty iteration without forEach.
buildIterations(art) ==
  IF art.forEach = "none" THEN <<NoIteration>>
  ELSE LET src == Data[art.forEach]
       IN  IF "list" \in DOMAIN src
           THEN [i \in DOMAIN src.list |-> [key |-> KeyOrder[i], value |-> src.list[i]]]
           ELSE LET keys == sortedKeys(src.map)
                IN  [i \in DOMAIN keys |-> [key |-> keys[i], value |-> src.map[keys[i]]]]

-----------------------------------------------------------------------------
(***************************************************************************)
(* Rendering.  In a destination the segments KEY and VALUE stand for the   *)
(* key (or index) and the value of the iteration.                          *)
(***************************************************************************)
KEY   == "{{.key}}"
VALUE == "{{.value}}"

Rendered(to, it) ==
  [i \in DOMAIN to |-> IF to[i] = KEY THEN it.key
                       ELSE IF to[i] = VALUE THEN it.value ELSE to[i]]

\* Empty, absolute and "." are invalid, and so is what begins with two dots:
\* escaping paths, and names that merely begin so.
TwoDots == {"..", "..x"}

ValidDest(path) ==
  /\ path # <<"">>
  /\ ~(path[1] = "" /\ Len(path) > 1)
  /\ Clean(path) # <<>>
  /\ Clean(path)[1] \notin TwoDots

\* Mutant: the rendered path is used as it was spelled.
renderDestPathAsSpelled(to, it) == Rendered(to, it)

renderDestPath(to, it) == Clean(Rendered(to, it))

\* Mutant: directories are walked from the template up to the root.
partialChainUpwards(p) == [i \in 1..Len(p) |-> SubSeq(p, 1, Len(p) - i)]

\* The directories from the alias root down to the file's own.
partialChainDirs(p) == [i \in 1..Len(p) |-> SubSeq(p, 1, i - 1)]

\* `partials = append(partials, ...)`, if there is such a regular file.
Collect(tree, partials, p) ==
  IF p \in DOMAIN tree THEN Append(partials, tree[p]) ELSE partials

\* discoverPartials: the regular `_helpers.tpl` files on the way.
discoverPartials(tree, p) ==
  LET chain == partialChainDirs(p)
      partials[n \in 0..Len(p)] ==
        IF n = 0 THEN <<>> ELSE Collect(tree, partials[n - 1], Append(chain[n], "_helpers.tpl"))
  IN  partials[Len(p)]

\* What a parsed file defines replaces what was defined before.
Parse(acc, f) ==
  [n \in DOMAIN acc \union f.defines |-> IF n \in f.defines THEN f.src ELSE acc[n]]

\* Partials are parsed in order and the template last.
Defined(partials, file) ==
  LET files == Append(partials, file)
      parsed[n \in 0..Len(files)] == IF n = 0 THEN <<>> ELSE Parse(parsed[n - 1], files[n])
  IN  parsed[Len(files)]

\* cleanLookupPath.
ValidLookup(path) ==
  /\ path # <<"">> /\ ~(path[1] = "" /\ Len(path) > 1)
  /\ Clean(path) # <<>> /\ Clean(path)[1] # ".."

\* A call of include, lookupFile or required succeeds.
Succeeds(call, tree, it, defined) ==
  CASE call.helper = "include"    -> call.name \in DOMAIN defined
    [] call.helper = "lookupFile" -> /\ ValidLookup(call.path)
                                     /\ Clean(call.path) \in DOMAIN tree
                                     /\ ~tree[Clean(call.path)].huge
    [] call.helper = "required"   -> it.value # ""

Result(call, tree, it, defined) ==
  CASE call.helper = "include"    -> defined[call.name]
    [] call.helper = "lookupFile" -> tree[Clean(call.path)].src
    [] call.helper = "required"   -> <<"value", it.value>>

\* GoEngine.Render: everything parses, then every call succeeds.
Renders(file, tree, it, partials) ==
  /\ file.parses /\ \A f \in ToSet(partials) : f.parses
  /\ \A call \in ToSet(file.calls) : Succeeds(call, tree, it, Defined(partials, file))

Render(file, tree, it, partials) ==
  [tmpl |-> file.src, item |-> it,
   calls |-> [i \in DOMAIN file.calls |->
                Result(file.calls[i], tree, it, Defined(partials, file))]]

-----------------------------------------------------------------------------
(***************************************************************************)
(* The pass.                                                               *)
(***************************************************************************)
Init == /\ spec \in Specs
        /\ dirs = <<>> /\ cur = 0 /\ written = {}
        /\ iter = 1 /\ tmpl = 1 /\ stored = <<>>
        /\ phase = "validate" /\ err = "none"

Abort(why) == /\ phase' = "failed"
              /\ err' = why
              /\ UNCHANGED <<spec, dirs, cur, written, iter, tmpl, stored>>

\* Nothing is fetched for a spec that is not valid.
Validate == /\ phase = "validate"
            /\ validateSpec
            /\ phase' = "fetch"
            /\ UNCHANGED <<spec, dirs, cur, written, iter, tmpl, stored, err>>

ValidateFails == phase = "validate" /\ ~validateSpec /\ Abort("invalid")

\* fetchSources, in the random order of Go's map iteration.
Fetch(a) ==
  /\ phase = "fetch"
  /\ a \notin DOMAIN dirs
  /\ dirs' = Put(dirs, a, Sources[a])
  /\ phase' = IF DOMAIN dirs' = Alias THEN "next" ELSE "fetch"
  /\ UNCHANGED <<spec, cur, written, iter, tmpl, stored, err>>

FetchFails == phase = "fetch" /\ Abort("fetch")

\* stagingDir := filepath.Join(workspace, spec.Name)
StagingDir(art) == art.name

\* The next artifact of the spec.
Takes == phase = "next" /\ cur < Len(spec.artifacts)

\* Mutant: the paths written for earlier artifacts are not forgotten.
StartBuildKeepsWritten ==
  LET art == spec.artifacts[cur + 1]
  IN  /\ Takes
      /\ cur' = cur + 1
      /\ dirs' = Put(dirs, StagingDir(art),
                     IF StagingDir(art) \in DOMAIN dirs THEN dirs[StagingDir(art)] ELSE <<>>)
      /\ iter' = 1 /\ tmpl' = 1
      /\ IF Iterable(art) THEN phase' = "build" /\ err' = err
         ELSE /\ phase' = "failed"
              /\ err' = IF art.forEach \in DOMAIN Data THEN "build" ELSE "malformed"
      /\ UNCHANGED <<spec, written, stored>>

\* Build up to the loop of applyArtifact: MkdirAll keeps what is there.
StartBuild ==
  LET art == spec.artifacts[cur + 1]
  IN  /\ Takes
      /\ cur' = cur + 1
      /\ dirs' = Put(dirs, StagingDir(art),
                     IF StagingDir(art) \in DOMAIN dirs THEN dirs[StagingDir(art)] ELSE <<>>)
      /\ written' = {} /\ iter' = 1 /\ tmpl' = 1
      /\ IF Iterable(art) THEN phase' = "build" /\ err' = err
         ELSE /\ phase' = "failed"
              /\ err' = IF art.forEach \in DOMAIN Data THEN "build" ELSE "malformed"
      /\ UNCHANGED <<spec, stored>>

\* The template the loops of applyArtifact are at.
Looping == phase = "build" /\ iter <= Len(buildIterations(Art))
T       == Art.templates[tmpl]
It      == buildIterations(Art)[iter]

\* parseSourceRef, and the alias looked up.
WellFormed(t) == t.alias # "artifact" /\ t.alias \in Alias

\* applyTemplate up to the render: the source file and the destination.
Readable(tree, p) ==
  /\ p \in DOMAIN tree /\ ~tree[p].huge
  /\ \A f \in ToSet(discoverPartials(tree, p)) : ~f.huge

Located ==
  /\ Readable(dirs[T.alias], T.from)
  /\ ValidDest(Rendered(T.to, It))
  /\ renderDestPath(T.to, It) \notin written

RendersNow ==
  LET tree == dirs[T.alias]
  IN  Renders(tree[T.from], tree, It, discoverPartials(tree, T.from))

\* writeStagedFile: no file is in the way of the directory, nor a directory
\* of the file.
Writable ==
  LET dest == Clean(renderDestPath(T.to, It))
  IN  /\ ~UnderFile(dirs[StagingDir(Art)], dest)
      /\ ~IsDirectory(dirs[StagingDir(Art)], dest)

\* applyTemplate: the file system resolves the destination on its own.
ApplyTemplate ==
  /\ Looping
  /\ WellFormed(T) /\ Located /\ RendersNow /\ Writable
  /\ LET tree == dirs[T.alias]
         dest == renderDestPath(T.to, It)
         out  == Render(tree[T.from], tree, It, discoverPartials(tree, T.from))
     IN  /\ dirs' = Put(dirs, StagingDir(Art),
                        Put(dirs[StagingDir(Art)], Clean(dest), out))
         /\ written' = written \union {dest}
  /\ IF tmpl < Len(Art.templates) THEN tmpl' = tmpl + 1 /\ iter' = iter
                                  ELSE tmpl' = 1 /\ iter' = iter + 1
  /\ UNCHANGED <<spec, cur, stored, phase, err>>

ApplyTemplateFails ==
  /\ Looping
  /\ \/ ~WellFormed(T) /\ Abort("malformed")
     \/ WellFormed(T) /\ ~Located /\ Abort("build")
     \/ WellFormed(T) /\ Located /\ ~RendersNow /\ Abort("render")
     \/ WellFormed(T) /\ Located /\ RendersNow /\ ~Writable /\ Abort("build")

\* ctx.Err(), looked at before every iteration and every template.
Cancelled == Looping /\ Abort("cancelled")

\* SourceIgnoreFilter(nil, nil): the default patterns of sourceignore.
SourceIgnored(p) == ToSet(p) \cap IgnoredNames # {}

\* setArtifactRevisions: the source's revision if the artifact mirrors one.
Revision(art) == IF art.revision \in Alias THEN art.revision ELSE "latest"

\* hashStagingDir, NewArtifactFor, Lock and Archive.
Archive ==
  /\ phase = "build"
  /\ iter > Len(buildIterations(Art))
  /\ LET tree == dirs[StagingDir(Art)]
     IN  stored' = Put(stored, Art.name,
                       [tree |-> [p \in {q \in DOMAIN tree : ~SourceIgnored(q)} |-> tree[p]],
                        revision |-> Revision(Art)])
  /\ phase' = "next"
  /\ UNCHANGED <<spec, dirs, cur, written, iter, tmpl, err>>

ArchiveFails == /\ phase = "build"
                /\ iter > Len(buildIterations(Art))
                /\ Abort("io")

Next ==
  \/ Validate
  \/ ValidateFails
  \/ \E a \in Alias : Fetch(a)
  \/ FetchFails
  \/ StartBuild
  \/ ApplyTemplate
  \/ ApplyTemplateFails
  \/ Cancelled
  \/ Archive
  \/ ArchiveFails

Spec == Init /\ [][Next]_vars

-----------------------------------------------------------------------------
(***************************************************************************)
(* What a tarball must hold, stated without any order and from the sources *)
(* as they were fetched.                                                   *)
(***************************************************************************)
Jobs(art) ==
  {<<it, i>> : it \in Range(buildIterations(art)), i \in DOMAIN art.templates}

Copies(art) == Len(buildIterations(art)) * Len(art.templates)

Dest(art, j) == Clean(Rendered(art.templates[j[2]].to, j[1]))

Template(art, j) == art.templates[j[2]]

\* The definition of a name that a template sees: its own, else that of the
\* closest directory above whose `_helpers.tpl` has one, else none.
Sees(tree, p, name) ==
  LET above == {n \in 0..Len(p) - 1 : Append(SubSeq(p, 1, n), "_helpers.tpl") \in DOMAIN tree}
      helper(n) == tree[Append(SubSeq(p, 1, n), "_helpers.tpl")]
      has   == {n \in above : name \in helper(n).defines}
  IN  IF name \in tree[p].defines THEN {tree[p].src}
      ELSE {helper(n).src : n \in {n \in has : \A m \in has : m <= n}}

\* What one call of a template may put in: at most one thing.  A lookup that is
\* absolute or leaves the source finds nothing.
Wanted(tree, p, it, call) ==
  CASE call.helper = "include"    -> Sees(tree, p, call.name)
    [] call.helper = "lookupFile" ->
         {tree[q].src : q \in {q \in DOMAIN tree : /\ ValidLookup(call.path)
                                                 /\ q = Clean(call.path) /\ ~tree[q].huge}}
    [] call.helper = "required"   -> IF it.value = "" THEN {} ELSE {<<"value", it.value>>}

\* A job whose template parses with its helpers and has what it asks for.
Renderable(art, j) ==
  LET t    == Template(art, j)
      tree == Sources[t.alias]
  IN  /\ tree[t.from].parses
      /\ \A n \in 0..Len(t.from) - 1 :
            LET f == Append(SubSeq(t.from, 1, n), "_helpers.tpl")
            IN  f \in DOMAIN tree => tree[f].parses
      /\ \A call \in ToSet(tree[t.from].calls) : Wanted(tree, t.from, j[1], call) # {}

\* Every template is there, every destination is valid, and no two of them
\* are in each other's way.
Placeable(art) ==
  /\ Iterable(art)
  /\ \A j \in Jobs(art) : /\ Readable(Sources[Template(art, j).alias], Template(art, j).from)
                          /\ ValidDest(Rendered(Template(art, j).to, j[1]))
  /\ Cardinality({Dest(art, j) : j \in Jobs(art)}) = Copies(art)
  /\ \A j, k \in Jobs(art) : ~IsStrictPrefix(Dest(art, j), Dest(art, k))

\* The artifacts that are archived.
Built == {art \in ToSet(spec.artifacts) : art.name \in DOMAIN stored}

Tarball(art) == stored[art.name].tree

\* An archived tarball holds one file for every iteration and every template
\* whose destination the default patterns do not ignore, and nothing else: no
\* render is lost to another with the same destination, however it is spelled,
\* and nothing staged for another artifact or fetched from a source leaks in.
TarballIsComplete ==
  \A art \in Built :
    /\ DOMAIN Tarball(art) = {p \in {Dest(art, j) : j \in Jobs(art)} : ~SourceIgnored(p)}
    /\ Cardinality({Dest(art, j) : j \in Jobs(art)}) = Copies(art)

\* Every file of a tarball is the template as it was fetched, rendered for
\* its own iteration; an include is answered by the template's own definition
\* or by that of the closest directory.  What the pass staged before does not
\* change what later artifacts are rendered from.
TarballIsRendered ==
  \A art \in Built : \A j \in Jobs(art) :
    Dest(art, j) \in DOMAIN Tarball(art) =>
      \E k \in Jobs(art) :
        LET t    == Template(art, k)
            file == Sources[t.alias][t.from]
            out  == Tarball(art)[Dest(art, j)]
        IN  /\ Dest(art, k) = Dest(art, j)
            /\ out.tmpl = file.src /\ out.item = k[1]
            /\ \A i \in DOMAIN file.calls :
                  out.calls[i] \in Wanted(Sources[t.alias], t.from, k[1], file.calls[i])

\* A build fails only because of its own artifact, and under the right reason:
\* BuildFailed when its templates or destinations are at fault whatever the
\* order, RenderFailed when one of them does not render.  What was built is
\* neither.
BuildFailsForCause == err = "build" => ~Placeable(Art)

RenderFailsForCause ==
  err = "render" => \E j \in Jobs(Art) :
    /\ Readable(Sources[Template(Art, j).alias], Template(Art, j).from)
    /\ ~Renderable(Art, j)

BuiltIsPlaceable == \A art \in Built : Placeable(art)

FailsForCause ==
  /\ BuildFailsForCause /\ RenderFailsForCause /\ BuiltIsPlaceable
  /\ \A art \in Built : \A j \in Jobs(art) : Renderable(art, j)

\* The validator and the builder agree: a spec that validateSpec accepts fails
\* a build only for what the fetched files and the data hold, never for a
\* reference the spec alone shows to be wrong, and an artifact that mirrors a
\* source carries its revision.  The one exception is a source with the alias
\* "artifact", which the validator knows and parseSourceRef refuses.
AcceptedIsWellFormed ==
  /\ err = "malformed" => "artifact" \in {t.alias : t \in ToSet(Art.templates)}
  /\ \A art \in Built : art.revision # "none" => stored[art.name].revision = art.revision
-----------------------------------------------------------------------------
(***************************************************************************)
(* Why, as an inductive invariant.  Where a build is, is a pair of the     *)
(* iteration and the template; the pairs before it have been staged.       *)
(***************************************************************************)
Positions(art) == (1..Len(buildIterations(art))) \X DOMAIN art.templates

JobAt(art, c) == <<buildIterations(art)[c[1]], c[2]>>

DestAt(art, c) == Dest(art, JobAt(art, c))

Passed == {c \in Positions(Art) : c[1] < iter \/ (c[1] = iter /\ c[2] < tmpl)}

\* The loops of applyArtifact stay within the artifact being built.
LoopInv ==
  phase = "build" => /\ cur > 0 /\ Iterable(Art)
                     /\ iter \in 1..Len(buildIterations(Art)) + 1
                     /\ tmpl \in DOMAIN Art.templates
                     /\ iter > Len(buildIterations(Art)) => tmpl = 1

\* The order of the pass, and what validateSpec has settled.
ControlInv ==
  /\ spec \in Specs
  /\ cur \in 0..Len(spec.artifacts)
  /\ phase \in {"validate", "fetch", "next", "build", "failed"}
  /\ phase = "failed" <=> err # "none"
  /\ phase \in {"validate", "fetch"} => cur = 0
  /\ cur = 0 => stored = <<>>
  /\ phase \in {"fetch", "next", "build"} \/ cur > 0 => validateSpec
  /\ LoopInv
  /\ err \in {"build", "malformed"} => cur > 0
  /\ AcceptedIsWellFormed

\* The staging directories, the sources beside them and the archives, and what
\* the render of a job gives from the sources as they were fetched.
NamesApart == \A art \in ToSet(spec.artifacts) : art.name \notin Alias

RendersAlone(art, j) ==
  LET t    == Template(art, j)
      tree == Sources[t.alias]
  IN  Renders(tree[t.from], tree, j[1], discoverPartials(tree, t.from))

Rendering(art, j) ==
  LET t    == Template(art, j)
      tree == Sources[t.alias]
  IN  Render(tree[t.from], tree, j[1], discoverPartials(tree, t.from))

Archived(art) ==
  /\ Placeable(art)
  /\ DOMAIN Tarball(art) = {p \in {Dest(art, j) : j \in Jobs(art)} : ~SourceIgnored(p)}
  /\ \A j \in Jobs(art) :
       /\ RendersAlone(art, j)
       /\ Dest(art, j) \in DOMAIN Tarball(art) => Tarball(art)[Dest(art, j)] = Rendering(art, j)

SourcesIntact == \A a \in Alias \cap DOMAIN dirs : dirs[a] = Sources[a]

NotYetStaged ==
  \A k \in cur + 1..Len(spec.artifacts) : StagingDir(spec.artifacts[k]) \notin DOMAIN dirs

\* At a position: the template is there and renders, and the destination is
\* valid; and two positions are not in each other's way.
Stageable(art, c) ==
  LET j == JobAt(art, c)
  IN  /\ Readable(Sources[Template(art, j).alias], Template(art, j).from)
      /\ ValidDest(Rendered(Template(art, j).to, j[1]))
      /\ RendersAlone(art, j)

Disjoint(art, c, d) == /\ DestAt(art, c) = DestAt(art, d) => c = d
                       /\ ~IsStrictPrefix(DestAt(art, c), DestAt(art, d))

StagedInv ==
  phase = "build" =>
    /\ StagingDir(Art) \in DOMAIN dirs
    /\ DOMAIN dirs[StagingDir(Art)] = written
    /\ written = {DestAt(Art, c) : c \in Passed}
    /\ \A c \in Passed : /\ Stageable(Art, c)
                        /\ dirs[StagingDir(Art)][DestAt(Art, c)] = Rendering(Art, JobAt(Art, c))
    /\ \A c, d \in Passed : Disjoint(Art, c, d)

StagingInv ==
  /\ phase = "validate" => dirs = <<>>
  /\ phase \in {"next", "build"} => Alias \subseteq DOMAIN dirs
  /\ SourcesIntact /\ NotYetStaged /\ StagedInv
  /\ \A art \in Built : Archived(art)
  /\ BuildFailsForCause /\ RenderFailsForCause

\* A build stages exactly the jobs before the one it is at, each under a
\* destination of its own that is in no other's way and rendered from the
\* sources, which nobody has touched; an archive holds all of them.  Staging needs the artifacts to
\* be named unlike the aliases, which validateSpec does not see to.
BuildInv == ControlInv /\ (NamesApart => StagingInv)
=============================================================================
