------------------------------ MODULE Resolver -----------------------------
(***************************************************************************)
(* control_plane/resolver: what a model is, from its files' metadata.      *)
(*                                                                         *)
(* Three machines that share the operators below.  The first is            *)
(* ModelResolver.resolve_full() with ShapeCache: callers on threads of     *)
(* their own, two fetches that run at once, an LRU before a directory of   *)
(* files, and an upstream that moves in between.  The second reads one     *)
(* configuration (_build()), the third lists the builds of a model         *)
(* (quant_variants()).  Sizes are in half bytes per parameter.             *)
(***************************************************************************)
EXTENDS Integers, Sequences, FiniteSets, SequencesExt, FiniteSetsExt

CONSTANTS
    Repos,            \* model ids
    RepoKind,         \* RepoKind[r]: "hub", "gguf" (hf://...) or "dir" (on this disk)
    Commits,          \* commit ids, of the upstream and of what is on this disk
    Config,           \* Config[v]: what the files of commit v say
    Overrides,        \* dtype arguments, "none" included, as normalize_dtype() spells them
    Ttl,              \* DERATE_RESOLVER_TTL
    MemoryEntries,    \* memory_entries
    ResolveCalls,     \* callers
    ResolveRequests,  \* what they ask: [repo, rev, override, refresh]
    LastTick,         \* bound on the clock
    Engines,          \* RUNTIMES
    Profile,          \* Profile[e]: [listed, broken, quants]
    ImageLists,       \* ImageLists[e]: what its image says it loads, or {} if it cannot be asked
    HalfBytes,        \* HalfBytes[dtype]: bytes per parameter, doubled
    Configs,          \* configurations to read
    Listings,         \* hubs to list builds from
    MaxHeaderProbes,  \* _MAX_HEADER_PROBES
    MaxGgufRepos      \* _MAX_GGUF_REPOS

ASSUME ResolverAssumption ==
    /\ RepoKind \in [Repos -> {"hub", "gguf", "dir"}] /\ "none" \in Overrides
    /\ Ttl \in Int /\ MemoryEntries \in Nat \ {0} /\ LastTick \in Nat
    /\ MaxHeaderProbes \in Nat /\ MaxGgufRepos \in Nat
    /\ "main" \notin Commits      \* a commit is 40 hexadecimal digits, a floating ref is not
    /\ \A q \in ResolveRequests : q.repo \in Repos /\ q.override \in Overrides /\ q.refresh \in BOOLEAN

VARIABLES
    upstream,     \* upstream[r]: the commit at the head of r
    ticks,        \* the clock
    shelf,        \* ShapeCache._memory: <<key, resolution>>, the oldest first
    files,        \* ShapeCache.directory: key -> resolution
    refused,      \* a file could not be written (history)
    probedImages, \* support._PROBED: the engines whose image has answered
    offline,      \* DERATE_OFFLINE
    resolving,    \* resolving[c]: a caller of resolve_full()
    leftAt,       \* leftAt[r][v]: when r last moved on from v (history)
    reading,      \* what _build() made of one configuration
    builds        \* what quant_variants() made of one hub

resolverVars == <<upstream, ticks, shelf, files, refused, probedImages, offline, resolving, leftAt,
                  reading, builds>>

----------------------------------------------------------------------------
(* support.py: which runtime loads what.                                   *)

(* The image's answer when there is one, else the table.                   *)
ArchitecturesOf(e, asked) == IF e \in asked THEN ImageLists[e] ELSE Profile[e].listed

RuntimesServing(archs, asked) == {e \in Engines : archs \cap ArchitecturesOf(e, asked) # {}}

(* The dtype is looked at first, then the architecture, then whether       *)
(* either is only experimental.  One architecture per model.               *)
EvaluateRuntime(e, archs, dtype, asked) ==
    LET quant == Profile[e].quants[dtype]
        known == archs \cap ArchitecturesOf(e, asked)
    IN IF quant = "unsupported" THEN [level |-> "unsupported", elsewhere |-> {}]
       ELSE IF archs = {} THEN [level |-> "unverified", elsewhere |-> {}]
       ELSE IF known \cap Profile[e].broken # {} THEN [level |-> "unsupported", elsewhere |-> {}]
       ELSE IF known = {} THEN [level |-> "unsupported", elsewhere |-> RuntimesServing(archs, asked) \ {e}]
       ELSE [level |-> quant, elsewhere |-> {}]

BuildVerdict(archs, dtype, asked) == [e \in Engines |-> EvaluateRuntime(e, archs, dtype, asked)]

----------------------------------------------------------------------------
(* params.py: what a configuration describes.                              *)

MlpParams(hidden, inter, gated) == (IF gated THEN 3 ELSE 2) * hidden * inter

(* analytic_breakdown().  m.attention is per layer; m.vision is the tower. *)
AnalyticBreakdown(m) ==
    LET moe == IF m.experts > 0 THEN m.moeLayers ELSE 0
        inter == IF m.moeInter > 0 THEN m.moeInter ELSE m.inter
        mlp == MlpParams(m.hidden, m.inter, m.gated)
        expert == MlpParams(m.hidden, inter, m.gated)
        shared == IF m.shared > 0 THEN m.shared * expert ELSE MlpParams(m.hidden, m.sharedInter, m.gated)
        extra == m.attention + (IF m.experts > 0 THEN expert * m.experts + m.hidden * m.experts ELSE mlp)
                 + 2 * m.hidden * m.hidden + 2 * m.vocab * m.hidden
    IN [embedding |-> m.vocab * m.hidden,
        routed    |-> moe * m.experts * expert,
        mtp       |-> m.nextn * extra,
        total     |-> m.vocab * m.hidden * (IF m.tied THEN 1 ELSE 2)
                      + m.layers * (m.attention + 2 * m.hidden) + m.hidden
                      + (m.layers - moe) * mlp
                      + moe * (m.experts * expert + m.hidden * m.experts + shared) + m.vision]

Distance(a, b) == IF a > b THEN a - b ELSE b - a
Within(a, b, percent) == 100 * Distance(a, b) <= percent * b

\* Mutant: with nothing to arbitrate, the smaller figure.
MutMeasureParams(b, f, dtype) ==
    LET described == b.total + b.mtp
    IN IF f.tally > 0 /\ f.bytes = 0 /\ f.tally > described THEN [count |-> 0, source |-> "config"]
       ELSE [count |-> f.tally, source |-> "hub"]

(* _measure_params(): the hub's tally if it is near what the configuration *)
(* describes; else whichever of the two the shards' bytes are nearer to,   *)
(* and without bytes the larger.  0: the configuration's own figure.       *)
MeasureParams(b, f, dtype) ==
    LET described == b.total + b.mtp
        implied == (2 * f.bytes) \div HalfBytes[dtype]
        config == [count |-> 0, source |-> "config"]
        hub == [count |-> f.tally, source |-> "hub"]
    IN IF f.counted > 0 THEN [count |-> f.counted, source |-> "headers"]
       ELSE IF f.tally > 0 /\ Within(f.tally, described, 15) THEN hub
       ELSE IF f.tally > 0 /\ f.bytes > 0
       THEN IF Distance(f.tally, implied) <= Distance(described, implied) THEN hub ELSE config
       ELSE IF f.tally > described THEN hub
       ELSE IF f.index /\ f.bytes > 0 /\ Within(implied, described, 5)
       THEN [count |-> implied, source |-> "index"]
       ELSE config

(* reconcile(): the measured total, less the module no runtime loads; what *)
(* is read per token is all but the embedding and the experts not chosen.  *)
Reconcile(m, b, measured) ==
    LET total == IF measured > 0 THEN measured - b.mtp ELSE b.total
        routed == Min({b.routed, (total * 995) \div 1000})
    IN [total |-> total,
        active |-> IF m.experts = 0 \/ routed <= 0 THEN 0     \* not told: all of them
                   ELSE Max({total - b.embedding - (routed * (m.experts - m.perToken)) \div m.experts,
                             total \div 100})]

(* quant_detect.detect(): the caller's word, then the configuration's, the *)
(* sidecar's, the dtype of the tensors, the name, and else the widest.     *)
Detect(f, override) ==
    LET said == <<[key |-> override, source |-> "override"], [key |-> f.quant, source |-> "quant_config"],
                  [key |-> f.sidecar, source |-> "hf_quant_config"], [key |-> f.torch, source |-> "torch_dtype"],
                  [key |-> f.name, source |-> "repo_name"], [key |-> "bf16", source |-> "defaulted"]>>
        first == Min({i \in DOMAIN said : said[i].key # "none"})
    IN said[first]

(* _detect_quant(): the sidecar is fetched only where the configuration    *)
(* has no quantization of its own and the record lists the file.           *)
DetectQuant(f, from, override) ==
    Detect(IF f.quant = "none" /\ from = "hub" THEN f ELSE [f EXCEPT !.sidecar = "none"], override)

(* What there is to measure: the hub's record, or the headers of the files *)
(* of a directory, or neither.                                             *)
Measurable(f, from) ==
    CASE from = "hub" -> [f EXCEPT !.counted = 0]
      [] from = "dir" -> [f EXCEPT !.tally = 0, !.index = FALSE]
      [] OTHER        -> [f EXCEPT !.tally = 0, !.bytes = 0, !.index = FALSE, !.counted = 0]

(* _build(), of a configuration f and what could be read besides.  The     *)
(* weights on disk hold the module that no runtime loads.                  *)
BuildShape(f, from, override, asked) ==
    LET dtype == DetectQuant(f, from, override)
        b == AnalyticBreakdown(f.shape)
        known == Measurable(f, from)
        measured == MeasureParams(b, known, dtype.key)
        count == Reconcile(f.shape, b, measured.count)
    IN [dtype |-> dtype.key, quantSource |-> dtype.source, total |-> count.total, active |-> count.active,
        paramSource |-> measured.source,
        bytes |-> IF known.bytes > 0 /\ b.mtp > 0 /\ count.total # 0
                  THEN (known.bytes * count.total) \div (count.total + b.mtp) ELSE known.bytes,
        archs |-> f.archs, support |-> BuildVerdict(f.archs, dtype.key, asked)]

(* _resolution_from_gguf(): the tensors themselves are counted; the scheme *)
(* is the override's, the header's, or the name's.                         *)
BuildGguf(f, override, asked) ==
    LET dtype == IF override # "none" THEN [key |-> override, source |-> "override"]
                 ELSE IF f.header # "none" THEN [key |-> f.header, source |-> "gguf_file_type"]
                 ELSE Detect([f EXCEPT !.quant = "none", !.sidecar = "none", !.torch = "none"], "none")
        used == IF f.shape.experts > 0 /\ f.shape.perToken = 0 THEN 2 ELSE f.shape.perToken
        routed == AnalyticBreakdown(f.shape).routed
    IN [dtype |-> dtype.key, quantSource |-> dtype.source, total |-> f.counted,
        active |-> IF f.shape.experts = 0 \/ routed = 0 THEN 0
                   ELSE Max({f.counted - f.shape.vocab * f.shape.hidden
                                - (routed * (f.shape.experts - used)) \div f.shape.experts, f.counted \div 100}),
        paramSource |-> "gguf", bytes |-> f.bytes, archs |-> f.archs,
        support |-> BuildVerdict(f.archs, dtype.key, asked)]

----------------------------------------------------------------------------
(* cache.py.                                                               *)

Key(r, rev, override) == <<r, rev, override>>
NoHit == [kind |-> "nothing"]

\* Mutant: a revision that can move is kept like one that cannot.
MutExpired(res, rev) == FALSE

(* A commit cannot change; anything else goes by the clock, and without a  *)
(* time to live nothing that floats is kept.                               *)
Expired(res, rev) == rev \notin Commits /\ (Ttl <= 0 \/ ticks - res.at > Ttl)

Without(mem, k) ==
    LET held == {i \in DOMAIN mem : mem[i][1] = k}
    IN IF held = {} THEN mem ELSE RemoveAt(mem, CHOOSE i \in held : TRUE)

(* _remember(): last in, and the oldest out.                               *)
Remember(mem, k, res) ==
    LET grown == Append(Without(mem, k), <<k, res>>)
    IN IF Len(grown) > MemoryEntries THEN Tail(grown) ELSE grown

(* get(): the memory, unless what it has is too old, and then the file.    *)
Get(mem, k) ==
    LET held == {e[2] : e \in {x \in ToSet(mem) : x[1] = k}}
        fresh == {res \in held : ~Expired(res, k[2])}
        onFile == IF k \in DOMAIN files /\ ~Expired(files[k], k[2]) THEN {files[k]} ELSE {}
        found == IF fresh # {} THEN fresh ELSE onFile
        hit == CHOOSE x \in found : TRUE
    IN IF found = {} THEN [memory |-> Without(mem, k), hit |-> NoHit]
       ELSE [memory |-> Remember(mem, k, hit), hit |-> hit]

----------------------------------------------------------------------------
(* resolve_full() and what the launch asks next.                           *)

(* A resolution is kept as what it was made from: the commit whose         *)
(* configuration and the one whose record was read, the override, the      *)
(* images that had answered by then, and when.                             *)
Made(k, of, record) ==
    [kind |-> RepoKind[k[1]], of |-> of, record |-> record, override |-> k[3], asked |-> probedImages, at |-> ticks]

(* The record is that of another commit if the head moved in between.      *)
Contents(res) ==
    LET facts == IF res.record = "none" THEN Config[res.of]
                 ELSE [Config[res.of] EXCEPT !.tally = Config[res.record].tally, !.bytes = Config[res.record].bytes,
                                             !.sidecar = Config[res.record].sidecar]
    IN IF res.kind = "gguf" THEN BuildGguf(facts, res.override, res.asked)
       ELSE BuildShape(facts, IF res.kind = "dir" THEN "dir" ELSE IF res.record = "none" THEN "inline" ELSE "hub",
                  res.override, res.asked)

(* "idle"; "fetching"; "answered": res or an error is back; "checked":     *)
(* supported_by() has said level of it.                                    *)
NotAsking == [at |-> "idle"]
Asking(r, rev, override) ==
    [at |-> "fetching", key |-> Key(r, rev, override), config |-> "unread",
     record |-> IF RepoKind[r] = "hub" THEN "unread" ELSE "none"]
ResolveAnswer(k, res, cached) == [at |-> "answered", key |-> k, res |-> res, cached |-> cached, when |-> ticks]
Refusal(k) == ResolveAnswer(k, NoHit, FALSE)

(* What is read for k now.  The header of an hf:// file is read at the     *)
(* head, whichever revision was asked for.                                 *)
AtRevision(k) == IF k[2] \in Commits /\ RepoKind[k[1]] = "hub" THEN k[2] ELSE upstream[k[1]]

(* A directory is read as it is, every time.  The rest comes from the      *)
(* cache unless a refresh is asked for, and offline from nowhere else.     *)
ResolveFull(c, r, rev, override, refresh) ==
    LET k == Key(r, rev, override)
        got == IF refresh THEN [memory |-> shelf, hit |-> NoHit] ELSE Get(shelf, k)
    IN /\ resolving[c].at = "idle"
       /\ IF RepoKind[r] = "dir"
          THEN /\ rev = "main"
               /\ resolving' = [resolving EXCEPT ![c] = ResolveAnswer(k, Made(k, upstream[r], "none"), FALSE)]
               /\ UNCHANGED shelf
          ELSE /\ shelf' = got.memory
               /\ resolving' = [resolving EXCEPT ![c] =
                    IF got.hit # NoHit THEN ResolveAnswer(k, got.hit, TRUE)
                    ELSE IF offline THEN Refusal(k) ELSE Asking(r, rev, override)]
       /\ UNCHANGED <<upstream, ticks, files, refused, probedImages, offline, leftAt, reading, builds>>

(* _fetch_metadata(): config.json and the record, on a thread each.  The   *)
(* first is needed, the second is not.                                     *)
ReadConfig(c, found) ==
    /\ resolving[c].at = "fetching" /\ resolving[c].config = "unread"
    /\ resolving' = [resolving EXCEPT ![c] =
         IF found THEN [@ EXCEPT !.config = AtRevision(resolving[c].key)] ELSE Refusal(@.key)]
    /\ UNCHANGED <<upstream, ticks, shelf, files, refused, probedImages, offline, leftAt, reading, builds>>

ReadModelInfo(c, found) ==
    /\ resolving[c].at = "fetching" /\ resolving[c].record = "unread"
    /\ resolving' = [resolving EXCEPT ![c].record = IF found THEN AtRevision(resolving[c].key) ELSE "none"]
    /\ UNCHANGED <<upstream, ticks, shelf, files, refused, probedImages, offline, leftAt, reading, builds>>

(* The resolution is put under what was asked for and, where the record    *)
(* names another commit, under that too; a file that cannot be written     *)
(* leaves the one that was there.                                          *)
BuildAndPut(c, writes) ==
    LET call == resolving[c]
        k == call.key
        res == Made(k, call.config, call.record)
        pinned == Key(k[1], call.record, k[3])
        also == call.record # "none" /\ call.record # k[2]
        first == Remember(shelf, k, res)
    IN /\ call.at = "fetching" /\ call.config # "unread" /\ call.record # "unread"
       /\ shelf' = IF also THEN Remember(first, pinned, res) ELSE first
       /\ files' = IF writes THEN [x \in DOMAIN files \cup {k} \cup (IF also THEN {pinned} ELSE {}) |->
                                     IF x \in {k} \/ (also /\ x = pinned) THEN res ELSE files[x]]
                   ELSE files
       /\ refused' = (refused \/ ~writes)
       /\ resolving' = [resolving EXCEPT ![c] = ResolveAnswer(k, res, FALSE)]
       /\ UNCHANGED <<upstream, ticks, probedImages, offline, leftAt, reading, builds>>

(* The callers that have a resolution back.                                *)
Replied == {c \in ResolveCalls : IF resolving[c].at = "answered" THEN resolving[c].res # NoHit ELSE FALSE}

(* supported_by(shape): the shape does not carry its architecture, so it   *)
(* is looked up under "main", without a dtype and then with the shape's.   *)
SupportedBy(c, e) ==
    LET call == resolving[c]
        Archs(hit) == IF hit = NoHit THEN {} ELSE Contents(hit).archs
        dtype == Contents(call.res).dtype
        one == Get(shelf, Key(call.key[1], "main", "none"))
        two == Get(one.memory, Key(call.key[1], "main", dtype))
        archs == IF Archs(one.hit) # {} THEN Archs(one.hit) ELSE Archs(two.hit)
    IN /\ c \in Replied
       /\ shelf' = IF Archs(one.hit) # {} THEN one.memory ELSE two.memory
       /\ resolving' = [resolving EXCEPT ![c] = [at |-> "checked", key |-> call.key, when |-> call.when,
            level |-> EvaluateRuntime(e, archs, dtype, probedImages).level, known |-> archs]]
       /\ UNCHANGED <<upstream, ticks, files, refused, probedImages, offline, leftAt, reading, builds>>

ResolveReturns(c) ==
    /\ resolving[c].at \in {"answered", "checked"}
    /\ resolving' = [resolving EXCEPT ![c] = NotAsking]
    /\ UNCHANGED <<upstream, ticks, shelf, files, refused, probedImages, offline, leftAt, reading, builds>>

(* _probe_runtime_images(), on its own thread: an image answers; one that  *)
(* cannot be asked, or names nothing, leaves the table.                    *)
ProbeImage(e) ==
    /\ e \notin probedImages /\ ImageLists[e] # {}
    /\ probedImages' = probedImages \cup {e}
    /\ UNCHANGED <<upstream, ticks, shelf, files, refused, offline, resolving, leftAt, reading, builds>>

(* The upstream, or the directory, is given other content.                 *)
Push(r, v) ==
    /\ v # upstream[r]
    /\ upstream' = [upstream EXCEPT ![r] = v]
    /\ leftAt' = [leftAt EXCEPT ![r][upstream[r]] = ticks]
    /\ UNCHANGED <<ticks, shelf, files, refused, probedImages, offline, resolving, reading, builds>>

(* A fetch takes no time that matters beside the time to live.             *)
ResolverTicks ==
    /\ ticks < LastTick /\ \A c \in ResolveCalls : resolving[c].at # "fetching"
    /\ ticks' = ticks + 1
    /\ UNCHANGED <<upstream, shelf, files, refused, probedImages, offline, resolving, leftAt, reading, builds>>

(* The process starts again, perhaps without a network: the files are      *)
(* there, the memory and what the images said are not.                     *)
RestartResolver(alone) ==
    /\ shelf' = << >> /\ probedImages' = {} /\ offline' = alone
    /\ resolving' = [c \in ResolveCalls |-> NotAsking]
    /\ UNCHANGED <<upstream, ticks, files, refused, leftAt, reading, builds>>

----------------------------------------------------------------------------
(* quant_variants().  A file of a repository: its stem (what its shards    *)
(* share), part of parts, size (0: not told), the scheme its name gives,   *)
(* what its header would say, and whether it is weights at all.            *)

WeightFiles(fs) == {f \in fs : f.weights}
Stems(fs) == {f.stem : f \in WeightFiles(fs)}
OfStem(fs, stem) == {f \in WeightFiles(fs) : f.stem = stem}
Nameless(fs) == {stem \in Stems(fs) : \E f \in OfStem(fs, stem) : f.scheme = "none"}
SumAll(values) == MapThenSumSet(LAMBDA x : values[x], DOMAIN values)

(* What a search finds that is a build of this model, as places in the     *)
(* hub's answer: a name that comes down to the same stem, and not mlx.     *)
Found(w) ==
    IF w.offline \/ ~w.searched THEN {}
    ELSE {i \in DOMAIN w.hits : w.hits[i].repo # w.self /\ w.hits[i].same /\ ~w.hits[i].mlx}

(* The repositories whose files are listed: its own, and the most popular  *)
(* of the collections of files that were found.                            *)
Collections(w) == {i \in Found(w) : w.hits[i].gguf}
Ahead(w, i) ==
    {j \in Collections(w) : \/ w.hits[j].downloads > w.hits[i].downloads
                            \/ w.hits[j].downloads = w.hits[i].downloads /\ j < i}
Own == 0
Visited(w) == {i \in Collections(w) : Cardinality(Ahead(w, i)) < MaxGgufRepos}
              \cup (IF w.offline THEN {} ELSE {Own})
RepoAt(w, i) == IF i = Own THEN w.self ELSE w.hits[i].repo
FilesAt(w, i) == IF RepoAt(w, i) \in DOMAIN w.files THEN w.files[RepoAt(w, i)] ELSE {}

(* One budget for the whole listing: a name that says nothing has its      *)
(* header opened if fewer than that many came before it, its own           *)
(* repository first, then by popularity, and stem by stem within one.      *)
Wanted(w) == UNION {{i} \X Nameless(FilesAt(w, i)) : i \in Visited(w)}
Sooner(w, p, q) == IF p[1] = q[1] THEN p[2] < q[2] ELSE p[1] = Own \/ (q[1] # Own /\ p[1] \in Ahead(w, q[1]))
Opens(w, p) == p \in Wanted(w) /\ Cardinality({q \in Wanted(w) : Sooner(w, q, p)}) < MaxHeaderProbes

\* Mutant: a build is its first file.
MutFileRow(w, i, stem) ==
    [repo |-> RepoAt(w, i), file |-> stem, dtype |-> "bf16", source |-> "gguf_file", launchable |-> FALSE,
     bytes |-> SumSet({f.size : f \in {x \in OfStem(FilesAt(w, i), stem) : x.part = 1}}),
     whole |-> TRUE, opened |-> FALSE, said |-> "name"]

(* _gguf_file_variants(): one row per build, its shards summed.            *)
FileRow(w, i, stem) ==
    LET shards == OfStem(FilesAt(w, i), stem)
        first == CHOOSE f \in shards : (\E x \in shards : x.part = 1) => f.part = 1
        nameless == stem \in Nameless(FilesAt(w, i))
        opened == Opens(w, <<i, stem>>)
    IN [repo |-> RepoAt(w, i), file |-> stem, source |-> "gguf_file", launchable |-> FALSE,
        dtype |-> IF ~nameless THEN first.scheme
                  ELSE IF opened /\ first.header # "none" THEN first.header ELSE "bf16",
        bytes |-> SumAll([f \in shards |-> f.size]),
        whole |-> Cardinality(shards) = first.parts, opened |-> opened,
        said |-> IF ~nameless THEN "name" ELSE IF ~opened THEN "not opened"
                 ELSE IF first.header # "none" THEN "header" ELSE "unreadable"]
FileVariants(w, i) == {FileRow(w, i, stem) : stem \in Stems(FilesAt(w, i))}

(* A hit's scheme is what its name says, or else a tag.                    *)
HitRow(h) ==
    [repo |-> h.repo, file |-> 0, source |-> IF h.scheme # "none" THEN "repo_name" ELSE "tags",
     dtype |-> IF h.scheme # "none" THEN h.scheme ELSE h.tag, launchable |-> ~h.ggufScheme, bytes |-> 0,
     whole |-> TRUE, opened |-> FALSE, said |-> "name"]

(* The repository itself: not one to launch if it has builds of its own.   *)
SelfRow(w) ==
    LET collection == Own \in Visited(w) /\ Stems(FilesAt(w, Own)) # {}
    IN [repo |-> w.self, file |-> 0, dtype |-> w.dtype, source |-> "self", bytes |-> 0,
        launchable |-> ~collection /\ ~w.gguf, whole |-> TRUE, opened |-> FALSE, said |-> "name"]

(* Itself, the hits that are named or tagged, and the files of those that  *)
(* are opened.                                                             *)
QuantVariants(w) ==
    LET named == {i \in Found(w) : w.hits[i].scheme # "none" \/ w.hits[i].tag # "none"}
    IN (IF w.resolves THEN {SelfRow(w)} ELSE {}) \cup {HitRow(w.hits[i]) : i \in named}
       \cup UNION {FileVariants(w, i) : i \in Visited(w)}

Unlisted == [world |-> << >>, rows |-> {}]
Unbuilt == [from |-> "nothing"]

ListVariants(w) ==
    /\ builds = Unlisted /\ reading = Unbuilt
    /\ builds' = [world |-> w, rows |-> QuantVariants(w)]
    /\ UNCHANGED <<upstream, ticks, shelf, files, refused, probedImages, offline, resolving, leftAt, reading>>

(* resolve_config(), resolve_gguf_full(), and _build() as above, of one    *)
(* configuration.                                                          *)
ReadOne(f, from, override) ==
    /\ reading = Unbuilt /\ builds = Unlisted
    /\ reading' = [facts |-> f, from |-> from, override |-> override,
                   made |-> IF from = "gguf" THEN BuildGguf(f, override, probedImages)
                            ELSE BuildShape(f, from, override, probedImages)]
    /\ UNCHANGED <<upstream, ticks, shelf, files, refused, probedImages, offline, resolving, leftAt, builds>>

----------------------------------------------------------------------------
ResolverInit ==
    /\ upstream \in [Repos -> Commits] /\ ticks = 0
    /\ shelf = << >> /\ files = [k \in {} |-> NoHit] /\ refused = FALSE
    /\ probedImages = {} /\ offline = FALSE
    /\ resolving = [c \in ResolveCalls |-> NotAsking]
    /\ leftAt = [r \in Repos |-> [v \in Commits |-> -LastTick]]
    /\ reading = Unbuilt /\ builds = Unlisted

ResolverAsk ==
    \/ \E c \in ResolveCalls, q \in ResolveRequests : ResolveFull(c, q.repo, q.rev, q.override, q.refresh)
    \/ \E r \in Repos, v \in Commits : Push(r, v)
    \/ \E alone \in BOOLEAN : RestartResolver(alone)

ResolverReads ==
    \/ \E f \in Configs, from \in {"hub", "dir", "inline", "gguf"}, o \in Overrides : ReadOne(f, from, o)
    \/ \E w \in Listings : ListVariants(w)

ResolverProceed ==
    \/ \E c \in ResolveCalls, found \in BOOLEAN : ReadConfig(c, found) \/ ReadModelInfo(c, found)
    \/ \E c \in ResolveCalls, writes \in BOOLEAN : BuildAndPut(c, writes)
    \/ \E c \in ResolveCalls, e \in Engines : SupportedBy(c, e)
    \/ \E c \in ResolveCalls : ResolveReturns(c)
    \/ \E e \in Engines : ProbeImage(e)
    \/ ResolverTicks

ResolverNext == ResolverAsk \/ ResolverReads \/ ResolverProceed

ResolverSpec == ResolverInit /\ [][ResolverNext]_resolverVars

----------------------------------------------------------------------------
(* What some of the properties ask of the inputs.                          *)

(* The cache keeps floating refs at all, and every configuration names an  *)
(* architecture.                                                           *)
CachingOn == Ttl > 0
ArchsNamed == \A v \in Commits : "archs" \in DOMAIN Config[v] /\ Config[v].archs # {}

(* What a configuration describes is counted in naturals, the module no    *)
(* runtime loads is no larger than the model, the hub's tally counts it,   *)
(* and every scheme that is detected has a size.                           *)
ConfigCounted(f) ==
    LET b == AnalyticBreakdown(f.shape) IN
    /\ b.total \in Nat /\ b.mtp \in Nat /\ b.embedding \in Nat /\ b.routed \in Nat /\ b.mtp <= b.total
    /\ {"shape", "quant", "sidecar", "tally", "bytes", "index", "counted"} \subseteq DOMAIN f
    /\ f.tally \in Nat /\ f.bytes \in Nat /\ (f.tally = 0 \/ f.tally >= b.mtp)
    /\ f.shape.experts \in Nat /\ f.shape.perToken \in 0 .. f.shape.experts
ConfigsCounted ==
    \A f \in Configs : ConfigCounted(f) /\ \A o \in Overrides : HalfBytes[DetectQuant(f, "hub", o).key] \in Nat \ {0}

(* A hub names a repository once, its files are finitely many, and a stem  *)
(* is none of 0, which stands for no file.                                 *)
ListedOK(w) ==
    /\ Len(w.hits) \in Nat /\ DOMAIN w.hits = 1 .. Len(w.hits)
    /\ \A i \in DOMAIN w.hits : w.hits[i].downloads \in Int
    /\ \A i, j \in DOMAIN w.hits : w.hits[i].repo = w.hits[j].repo => i = j
    /\ \A repo \in DOMAIN w.files :
          IsFiniteSet(w.files[repo]) /\ \A f \in w.files[repo] : f.size \in Int /\ f.stem \in Int \ {0}
ListingsOK == \A w \in Listings : ListedOK(w)

----------------------------------------------------------------------------
(* Properties.                                                             *)

Checked == {c \in ResolveCalls : resolving[c].at = "checked"}

(* The shelf and the callers have their types, and no key is there twice.  *)
ResolverTypeOK ==
    /\ upstream \in [Repos -> Commits] /\ ticks \in 0 .. LastTick
    /\ Len(shelf) <= MemoryEntries /\ \A i, j \in DOMAIN shelf : shelf[i][1] = shelf[j][1] => i = j
    /\ \A c \in ResolveCalls : resolving[c].at \in {"idle", "fetching", "answered", "checked"}

(* What resolve_full() says of a floating ref was so no longer than the    *)
(* time to live before it said so, through both tiers, evictions, files    *)
(* that could not be written, restarts and overlapping callers.            *)
StaleAtMostTtl ==
    \A c \in Replied : resolving[c].key[2] = "main" =>
        LET r == resolving[c].key[1] v == resolving[c].res.of
        IN resolving[c].when = ticks => v = upstream[r] \/ ticks - leftAt[r][v] <= Max({0, Ttl})

(* What is on this disk is never answered from memory.                     *)
LocalIsRead ==
    [][\A c \in ResolveCalls : resolving[c].at = "idle" /\ resolving'[c].at = "answered"
          /\ RepoKind[resolving'[c].key[1]] = "dir"
          => resolving'[c].res.of = upstream[resolving'[c].key[1]]]_resolverVars

(* "resolve the model id first and the check becomes exact"                *)
(* (evaluate_runtime): a model that has just been resolved on the hub is   *)
(* known to supported_by(), whatever was evicted or put meanwhile, as long *)
(* as its file could be written.                                           *)
ResolvedIsKnown ==
    \A c \in Checked : RepoKind[resolving[c].key[1]] = "hub"
        /\ resolving[c].key[2] = "main" /\ resolving[c].when = ticks /\ ~refused
        => resolving[c].known # {}

(* "over-stating the footprint costs a refusal, under-stating it costs an  *)
(* OOM": the count charged is below what the configuration describes only  *)
(* if it is a measurement, and where the hub's tally is far off and there  *)
(* are no bytes to arbitrate, below neither.                               *)
CountBacked ==
    reading # Unbuilt /\ reading.from = "hub" =>
        LET b == AnalyticBreakdown(reading.facts.shape)
            f == reading.facts
            charged == reading.made.total + b.mtp
        IN /\ charged < b.total + b.mtp => reading.made.paramSource # "config"
           /\ f.tally > 0 /\ f.bytes = 0 /\ ~Within(f.tally, b.total + b.mtp, 15)
                => charged >= f.tally /\ charged >= b.total + b.mtp
           /\ reading.made.active <= reading.made.total

(* A listing offers every weight file of a repository it opened once and   *)
(* no other, opens no more headers than its budget over all repositories,  *)
(* and says of a header it did not open that it did not; a collection of   *)
(* files is not offered as something to launch.                            *)
TrueListing(w, rows) ==
    /\ Cardinality({x \in rows : x.opened}) <= MaxHeaderProbes
    /\ \A repo \in {x.repo : x \in {y \in rows : y.source = "gguf_file"}} :
          SumAll([x \in {y \in rows : y.repo = repo /\ y.source = "gguf_file"} |-> x.bytes])
            = SumAll([f \in WeightFiles(w.files[repo]) |-> f.size])
    /\ \A x \in rows : x.said = "unreadable" => x.opened
    /\ \A x, y \in rows : x.repo = y.repo /\ x.file = y.file => x = y
    /\ \A x \in rows : x.source = "self" /\ x.launchable => ~\E y \in rows : y.repo = x.repo /\ y # x
ListingTrue == TrueListing(builds.world, builds.rows)

(* cache.py: an entry under a commit "never expires -- that content cannot *)
(* change": it is the content of that commit.                              *)
PinnedIsCommit ==
    \A k \in DOMAIN files : k[2] \in Commits => files[k].of = k[2]

(* support.py: what an image says is "preferred over the static table for  *)
(* every question this module answers", those about a model that is in the *)
(* cache too.                                                              *)
VerdictCurrent ==
    \A c \in Replied : resolving[c].when = ticks
        => Contents(resolving[c].res).support = Contents([resolving[c].res EXCEPT !.asked = probedImages]).support

(* _elsewhere(): "the model ... may be perfectly servable one control      *)
(* away": the runtime a refusal names loads it.                            *)
ElsewhereLoads ==
    reading # Unbuilt => \A e \in Engines : \A other \in reading.made.support[e].elsewhere :
        reading.made.support[other].level # "unsupported"

(* What the resolver promises: an answer is stale by no more than the time *)
(* to live, a directory is read every time, a model that was resolved is   *)
(* known to the check that follows, the count charged is backed by a       *)
(* measurement, and a listing is true to the repositories it opened.       *)
ResolverPromise ==
    [](ResolverTypeOK /\ StaleAtMostTtl /\ ResolvedIsKnown /\ CountBacked /\ ListingTrue)
    /\ LocalIsRead
=============================================================================
