----------------------------- MODULE MCServices ----------------------------
(***************************************************************************)
(* The coordinator's services for TLC.  They share no state, so a          *)
(* behaviour exercises one of them, the part, and leaves the others as     *)
(* they started.  A turn is a request, an operator's act or an event of    *)
(* the world outside; MaxTurns bounds them, the steps that follow from     *)
(* them are not bounded.                                                   *)
(***************************************************************************)
EXTENDS Registry, Providers, Inventory, Retention, Pulls, Kills, Links, Resolver, TLC

CONSTANTS Parts

VARIABLES part, turns

\* The registry's requests are alike; no property of the run is a liveness property.
CallsAlike == Permutations(Calls)

MaxTurns == [registry |-> 2, providers |-> 2, keys |-> 3, inventory |-> Cardinality(Polls) + 1, links |-> 2,
             resolver |-> 3, disk |-> 3]

MCRef == "p1" :> "r1" @@ "p2" :> "r2"
MCFolder == "m1" :> "f1" @@ "m2" :> "f1"
MCRepo == "f1" :> "m1"
MCLayers == <<100, 4>>
MCOwned == "x" :> "d" @@ "y" :> Stray @@ "z" :> Stray

Sweep(big, average) == [rows |-> <<[size |-> 8, bw |-> 1, time |-> 30]>> \o big, average |-> average]
Silent == [tools |-> {}, raises |-> {}, allReduce |-> [rows |-> <<>>, average |-> 0],
           sendRecv |-> [rows |-> <<>>, average |-> 0], transport |-> "silent",
           ib |-> [averages |-> {}, unit |-> "none"], ibLatency |-> 0,
           iperf |-> [kind |-> "junk", received |-> 0, sent |-> 0],
           sink |-> [received |-> 0, elapsed |-> 0], connects |-> {}, ports |-> <<TRUE, FALSE>>]

\* Nothing answers; NCCL works; NCCL fails and RDMA works; only TCP works; TCP without a latency.
MCOutcomes == {
    Silent,
    [Silent EXCEPT !.tools = {"nccl"}, !.transport = "enabled", !.sendRecv = Sweep(<<>>, 8000),
        !.allReduce = Sweep(<<[size |-> 20, bw |-> 9000, time |-> 90], [size |-> 30, bw |-> 11000, time |-> 99]>>, 3000)],
    [Silent EXCEPT !.tools = {"nccl", "ib_write_bw", "ib_write_lat"}, !.raises = {"nccl"},
        !.ib = [averages |-> {96, 64}, unit |-> "Gb/sec"], !.ibLatency = 3],
    [Silent EXCEPT !.iperf = [kind |-> "json", received |-> 0, sent |-> 1200],
        !.sink = [received |-> 2200, elapsed |-> 2], !.connects = {40, 60}],
    [Silent EXCEPT !.iperf = [kind |-> "text", received |-> 1200, sent |-> 0]]}
MCOrders == {<<"a", "b", "c">>}

MCKind == [m |-> "hub", g |-> "gguf", d |-> "dir"]
MCAsk(repo, rev, override, refresh) == [repo |-> repo, rev |-> rev, override |-> override, refresh |-> refresh]
MCRequests == {MCAsk("m", "main", "none", FALSE), MCAsk("m", "main", "fp8", FALSE), MCAsk("g", "main", "none", TRUE),
               MCAsk("m", "c2", "none", FALSE), MCAsk("g", "main", "none", FALSE), MCAsk("g", "c2", "none", FALSE),
               MCAsk("d", "main", "none", FALSE)}
MCDense == [hidden |-> 2, layers |-> 2, vocab |-> 3, tied |-> TRUE, inter |-> 4, gated |-> TRUE, experts |-> 0,
            perToken |-> 0, moeLayers |-> 0, moeInter |-> 0, shared |-> 0, sharedInter |-> 0, nextn |-> 0,
            attention |-> 16, vision |-> 0]
MCMoe == [MCDense EXCEPT !.experts = 4, !.perToken = 1, !.moeLayers = 1, !.moeInter = 3, !.sharedInter = 2, !.nextn = 1]
MCFacts == [shape |-> MCDense, archs |-> {"A"}, quant |-> "none", sidecar |-> "none", torch |-> "bf16", name |-> "none",
            header |-> "none", tally |-> 0, bytes |-> 0, index |-> FALSE, counted |-> 90]
MCConfig == "c1" :> MCFacts @@ "c2" :> [MCFacts EXCEPT !.quant = "fp8", !.archs = {"B"}, !.header = "int4"]
\* How the parameters are counted, and how the scheme and its support are found.
MCCounts ==
    {[MCFacts EXCEPT !.shape = x[1], !.tally = x[2], !.bytes = bytes, !.index = index] :
     x \in ({MCDense} \X {0, 100, 50, 300}) \cup ({MCMoe} \X {0, 150, 260, 400}),
     bytes \in {0, 60, 190, 300, 560}, index \in BOOLEAN}
MCSchemes ==
    {[MCFacts EXCEPT !.quant = q, !.sidecar = s, !.torch = t, !.name = n, !.header = h, !.archs = a] :
     q \in {"none", "fp8"}, s \in {"none", "int4"}, t \in {"none", "bf16"}, n \in {"none", "int4"}, h \in {"none", "int4"},
     a \in {{}, {"A"}, {"B"}}}
MCConfigs == MCCounts \cup MCSchemes
MCProfile == [vllm |-> [listed |-> {"A"}, broken |-> {"C"},
                        quants |-> [bf16 |-> "supported", fp8 |-> "supported", int4 |-> "unverified"]],
              tts |-> [listed |-> {"B"}, broken |-> {},
                       quants |-> [bf16 |-> "supported", fp8 |-> "unsupported", int4 |-> "unsupported"]]]
MCImages == [vllm |-> {"A", "B", "C"}, tts |-> {}]
MCHalf == [bf16 |-> 4, fp8 |-> 2, int4 |-> 1]
MCFile(stem, i, parts, size, scheme, header) ==
    [stem |-> stem, part |-> i, parts |-> parts, size |-> size, scheme |-> scheme, header |-> header, weights |-> TRUE]
MCLadder == {MCFile(1, 1, 2, 7, "int4", "int4"), MCFile(1, 2, 2, 5, "int4", "none"), MCFile(2, 1, 1, 5, "none", "int4"),
             MCFile(3, 2, 3, 4, "none", "none"), MCFile(4, 1, 1, 0, "none", "int4"),
             [MCFile(5, 1, 1, 1, "none", "none") EXCEPT !.weights = FALSE]}
MCHit(repo, scheme, tag, gguf, downloads) ==
    [repo |-> repo, same |-> TRUE, mlx |-> FALSE, scheme |-> scheme, tag |-> tag, gguf |-> gguf,
     ggufScheme |-> FALSE, downloads |-> downloads]
MCHits == {<<>>,
           <<MCHit("x", "fp8", "none", FALSE, 9), MCHit("y", "none", "none", TRUE, 3),
             MCHit("z", "none", "int4", TRUE, 5)>>,
           <<[MCHit("x", "fp8", "none", FALSE, 9) EXCEPT !.same = FALSE], MCHit("s", "none", "none", TRUE, 8),
             MCHit("z", "none", "none", TRUE, 0)>>}
MCListings ==
    {[self |-> "s", offline |-> o, resolves |-> r, searched |-> f, dtype |-> "bf16", gguf |-> FALSE,
      hits |-> h, files |-> fs] :
     o \in BOOLEAN, r \in BOOLEAN, f \in BOOLEAN, h \in MCHits,
     fs \in {"z" :> MCLadder, "s" :> MCLadder, "s" :> MCLadder @@ "y" :> MCLadder @@ "z" :> MCLadder}}

\* What ResolverPromise asks of the inputs is so of these.
ASSUME MCInputsOK == CachingOn /\ ArchsNamed /\ ConfigsCounted /\ ListingsOK

\* One start of each part, for the behaviours that are about another.
RegistryAtRest == RegistryInit /\ tokens = [t \in Tokens |-> 0]
ProvidersAtRest == ProvidersInit /\ keyed = {"own"} /\ saved = [p \in Provs |-> Absent]
InventoryAtRest == InventoryInit /\ peers = Machines

Init ==
    /\ part \in Parts /\ turns = 0
    /\ IF part = "registry" THEN RegistryInit /\ \A t \in Tokens : tokens[t] = IF t \in Supervised THEN 1 ELSE MaxUses
                            ELSE RegistryAtRest
    /\ CASE part = "providers" -> ProvidersInit /\ keyed = {"own"} /\ saved["p1"] # Absent /\ saved["p2"] = Absent
         [] part = "keys" -> ProvidersInit /\ \A p \in Provs : saved[p] # Absent
         [] OTHER -> ProvidersAtRest
    /\ InventoryAtRest
    /\ RetentionInit /\ PullsInit /\ KillsInit /\ LinksInit
    /\ ResolverInit /\ upstream = [r \in Repos |-> "c1"]

Turn == turns < MaxTurns[part] /\ turns' = turns + 1

RegistryPart == /\ part = "registry"
                /\ (RegistryRequest /\ Turn) \/ (RegistryProceed /\ UNCHANGED turns) \/ (Restart /\ UNCHANGED turns)
                /\ UNCHANGED <<part, providerVars, inventoryVars, retentionVars, pullVars, killVars, linkVars, resolverVars>>
\* One provider with requests, or two that share keys without any.
ProvidersPart == /\ part \in {"providers", "keys"}
                 /\ (ProvidersOperator /\ Turn) \/ (ProvidersStep /\ UNCHANGED turns)
                 /\ part = "providers" => saved'["p2"] = Absent
                 /\ part = "keys" => send' = send /\ works' = works
                 /\ UNCHANGED <<part, registryVars, inventoryVars, retentionVars, pullVars, killVars, linkVars, resolverVars>>
InventoryPart == /\ part = "inventory"
                 /\ (InventoryWorld /\ Turn) \/ (InventoryStep /\ UNCHANGED turns)
                 /\ published'["m1"] = "no" /\ answered'["deployments"]
                 /\ UNCHANGED <<part, registryVars, providerVars, retentionVars, pullVars, killVars, linkVars, resolverVars>>
RetentionPart == /\ part = "retention" /\ RetentionNext
                 /\ UNCHANGED <<part, turns, registryVars, providerVars, inventoryVars, pullVars, killVars, linkVars, resolverVars>>
PullsPart == /\ part = "pulls" /\ PullsNext
             /\ UNCHANGED <<part, turns, registryVars, providerVars, inventoryVars, retentionVars, killVars, linkVars, resolverVars>>
KillsPart == /\ part = "kills" /\ KillsNext
             /\ UNCHANGED <<part, turns, registryVars, providerVars, inventoryVars, retentionVars, pullVars, linkVars, resolverVars>>
LinksPart == /\ part = "links"
             /\ (LinksAsk /\ Turn) \/ (LinksProceed /\ UNCHANGED turns)
             /\ UNCHANGED <<part, registryVars, providerVars, inventoryVars, retentionVars, pullVars, killVars, resolverVars>>

\* A model of the hub by two callers, of which one asks for what the launch asks for, or the others by one.
PartRepos == {r \in Repos : RepoKind[r] = "hub" <=> part = "resolver"}
PartCalls == IF part = "resolver" THEN ResolveCalls ELSE {"q1"}
OneRepo ==
    /\ {resolving'[c].key[1] : c \in {x \in ResolveCalls : resolving'[x].at # "idle"}} \subseteq PartRepos
    /\ {c \in ResolveCalls : resolving'[c] # NotAsking} \subseteq PartCalls
    /\ {r \in Repos : upstream'[r] # upstream[r]} \subseteq PartRepos
    /\ resolving["q2"] = NotAsking /\ resolving'["q2"] # NotAsking
          => resolving["q1"].at = "fetching" /\ resolving'["q2"].key = Key("m", "main", "none")
    /\ resolving'["q2"].at # "checked"
    /\ part = "resolver" /\ resolving["q1"] = NotAsking /\ resolving'["q1"] # NotAsking /\ turns # 1
          => resolving'["q1"].key[2] = "main"
ResolverPart == /\ part \in {"resolver", "disk"}
                /\ (ResolverAsk /\ Turn) \/ (ResolverProceed /\ UNCHANGED turns)
                /\ OneRepo
                /\ part = "resolver" => probedImages' = {} /\ ~offline'
                /\ UNCHANGED <<part, registryVars, providerVars, inventoryVars, retentionVars, pullVars, killVars, linkVars>>
ReadingPart == /\ part = "reading"
               /\ ResolverReads \/ \E e \in Engines : ProbeImage(e)
               /\ UNCHANGED <<part, turns, registryVars, providerVars, inventoryVars, retentionVars, pullVars, killVars,
                              linkVars>>

Next == RegistryPart \/ ProvidersPart \/ InventoryPart \/ RetentionPart \/ PullsPart \/ KillsPart \/ LinksPart
        \/ ResolverPart \/ ReadingPart

Spec == Init /\ [][Next]_<<part, turns, registryVars, providerVars, inventoryVars, retentionVars, pullVars,
                           killVars, linkVars, resolverVars>>

\* The storage readings by themselves: launches fill disks, machines come and go.
SpecReadings == Init /\ [][InventoryPart /\ UNCHANGED <<published, table, digest, deleting, answered>>]_<<
                             part, turns, registryVars, providerVars, inventoryVars, retentionVars, pullVars,
                             killVars, linkVars, resolverVars>>
=============================================================================
