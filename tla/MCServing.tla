----------------------------- MODULE MCServing -----------------------------
(***************************************************************************)
(* The arithmetic behind a launch, the launch itself, and what serves      *)
(* afterwards, for TLC: a behaviour exercises one part and leaves the      *)
(* others as they started.  The parts that compute one answer do so in one *)
(* step from every request of a small set.                                 *)
(***************************************************************************)
EXTENDS Capacity, Launch, Routing, Speech, TLC

CONSTANTS Parts

VARIABLES part, turns

MaxTurns == [launch |-> 3, routing |-> 2]
MaxPicks == 3

MCHalves == "bf16" :> 4 @@ "fp8" :> 2 @@ "q4" :> 1
MCKvBytes == "bf16" :> 2 @@ "fp8" :> 1
MCLadder == <<"bf16", "fp8", "q4">>

FitShape(vision, kvHeads, mla, window, full, dtype) ==
    [params |-> 40, active |-> 8, vision |-> vision, heads |-> 2, kvHeads |-> kvHeads, layers |-> 3, mla |-> mla,
     window |-> window, full |-> full, hidden |-> 1, vocab |-> 2, dtype |-> dtype]
MCFitRequests ==
    [shape: {FitShape(0, 2, 0, 0, -1, "bf16"), FitShape(8, 1, 0, 2, 1, "bf16"), FitShape(0, 1, 1, 2, -1, "fp8"),
             FitShape(0, 2, 0, 0, -1, "fp8")},
     plan: [tp: {1, 2}, pp: {1, 2}, ep: {1, 2}, dp: {1}, nodes: {<<"a">>, <<"a", "b">>}],
     context: {1, 4, 7}, seqs: {1, 3}, kv: {"auto", "bf16"}, weight: {0, 60}, native: {0, 4},
     nodes: {<<[id |-> "a", ceiling |-> c, gpus |-> 4, bandwidth |-> 90],
               [id |-> "b", ceiling |-> 120, gpus |-> 1, bandwidth |-> 200]>> : c \in {0, 70, 110, 150}},
     live: {<<>>, "b" :> 90}]

ModelShape(params, heads, kvHeads, layers, mla, window, full, experts, dtype) ==
    [params |-> params, active |-> 8, vision |-> 0, heads |-> heads, kvHeads |-> kvHeads, layers |-> layers,
     mla |-> mla, window |-> window, full |-> full, hidden |-> 1, vocab |-> 2, dtype |-> dtype,
     experts |-> experts, perToken |-> 1]
Box(i, model) == [id |-> i, rank |-> i, model |-> model, ceiling |-> IF model = "big" THEN 220 ELSE 170,
                  gpus |-> IF model = "big" THEN 1 ELSE 3, bandwidth |-> IF model = "big" THEN 90 ELSE 30]
MCPlanRequests ==
    [shape: {ModelShape(40, 2, 2, 3, 0, 0, -1, 0, "bf16"), ModelShape(40, 4, 4, 4, 0, 2, 1, 0, "fp8"),
             ModelShape(40, 3, 3, 4, 1, 2, -1, 4, "bf16"), ModelShape(80, 4, 2, 2, 0, 2, -1, 8, "fp8")},
     nodes: {<<Box(1, "big")>>, <<Box(1, "small"), Box(2, "big")>>,
             <<Box(1, "big"), Box(2, "small")>>, [i \in 1..4 |-> Box(i, "big")],
             [i \in 1..4 |-> Box(i, IF i = 4 THEN "big" ELSE "small")]},
     link: {NoLink, [gbps |-> 10, p2p |-> 10, gdr |-> FALSE, latency |-> 1, measured |-> TRUE],
            [gbps |-> 60, p2p |-> 60, gdr |-> TRUE, latency |-> 1, measured |-> TRUE]},
     latency: BOOLEAN, seqs: {1, 3}, context: {2, 6}, kv: {"auto", "bf16"}, pooled: BOOLEAN]

Host(i, ceiling, host) == [id |-> i, rank |-> i, model |-> "m", ceiling |-> ceiling, host |-> host, gpus |-> 1,
                           bandwidth |-> 90]
Weights(launchable) == <<[dtype |-> "bf16", bytes |-> 80, launchable |-> TRUE],
                         [dtype |-> "fp8", bytes |-> 42, launchable |-> launchable],
                         [dtype |-> "fp8", bytes |-> 40, launchable |-> TRUE],
                         [dtype |-> "q4", bytes |-> 20, launchable |-> FALSE]>>
MCCapacityRequests ==
    {r \in [kind: {"capacity", "variants", "serve"},
            shape: {ModelShape(40, 2, 2, 2, 0, 0, -1, 0, "bf16"), ModelShape(40, 3, 1, 2, 0, 0, -1, 0, "fp8")},
            weight: {0, 75}, native: {0, 6},
            nodes: {<<Host(1, 0, 180), Host(2, 0, 0)>>, <<Host(1, 100, 50), Host(2, 150, 50)>>,
                    <<Host(1, 0, 50), Host(2, 190, 50)>>},
            local: {1, 3}, named: {{}, {2}, {1, 2}}, live: {<<>>, 2 :> 120, [n \in 1..2 |-> 80]},
            context: {0, 2, 8}, seqs: {2}, kv: {"auto"}, variants: {Weights(l) : l \in BOOLEAN},
            beside: {<<>>, <<ModelShape(60, 2, 2, 2, 0, 0, -1, 0, "fp8")>>}] :
        /\ r.kind # "variants" => r.variants = Weights(TRUE)
        /\ r.kind # "capacity" => r.beside = <<>>}

MCIds == <<"a", "b", "c">>
MCCeiling == "a" :> 4 @@ "b" :> 4 @@ "c" :> 6
MCHardware == "a" :> "small" @@ "b" :> "small" @@ "c" :> "big"
Body(kind, nodes, degree, context, runtime) ==
    [kind |-> kind, name |-> "m", named |-> nodes # <<>>, nodes |-> nodes, degree |-> degree, context |-> context,
     dtype |-> FALSE, mixed |-> FALSE, over |-> FALSE, runtime |-> runtime]
MCBodies == {
    Body("plan", <<>>, 0, 0, "vllm"), Body("launch", <<>>, 0, 2, "vllm"), Body("launch", <<"a", "c">>, 0, 1, "vllm"),
    Body("launch", <<"c", "a">>, 1, 1, "vllm"), Body("launch", <<>>, 2, 1, "tts"),
    Body("launch", <<>>, 3, 1, "vllm"),
    Body("launch", <<"a", "a">>, 2, 1, "vllm"),
    [Body("launch", <<"b", "c">>, 2, 0, "vllm") EXCEPT !.mixed = TRUE],
    [Body("launch", <<"c">>, 0, 3, "tts") EXCEPT !.over = TRUE],
    [Body("launch", <<"a", "c">>, 2, 1, "sglang") EXCEPT !.dtype = TRUE]}

MCOrder == <<"a", "b", "p">>
MCPredicted == "a" :> 6 @@ "b" :> 0
MCBandwidth == "a" :> 2 @@ "b" :> 2
MCSeats == "a" :> 1 @@ "b" :> 0
MCPriority == "p" :> 0
MCCost == "a" :> -1 @@ "b" :> 3 @@ "p" :> 2
MCHome == "k" :> 1
MCOffers == <<<<<<"s1", "a">>, <<"s2", "b">>>>, <<<<"s1", "c">>, <<"s2", "d">>>>>>
MCCalledAt == [c \in SpeechCalls |-> "v1"]

VARIABLE picks

Init ==
    /\ part \in Parts /\ turns = 0 /\ picks = 0
    /\ IF part = "fit" THEN FitInit ELSE fitAsk = "none" /\ fitAnswer = NoAnswer
    /\ IF part = "planner" THEN PlanInit ELSE planAsk = [kv |-> "auto"] /\ planAnswer = NoPlans
    /\ IF part = "capacity" THEN CapacityInit ELSE capAsk = [context |-> 1] /\ capAnswer = NotAnswered
    /\ LaunchInit /\ (part # "launch" => used = [n \in Nodes |-> Unsampled])
    /\ part = "launch" => used \in {[n \in Nodes |-> Unsampled], [n \in Nodes |-> IF n = "a" THEN 2 ELSE 0]}
    /\ RoutingInit /\ (part # "routing" => override = Automatic)
    /\ SpeechInit /\ (part # "speech" => unreadable = {})

Turn == turns < MaxTurns[part] /\ turns' = turns + 1

FitPart == part = "fit" /\ FitNext
           /\ UNCHANGED <<part, turns, picks, planVars, capVars, launchVars, routingVars, speechVars>>
PlannerPart == part = "planner" /\ PlanNext
               /\ UNCHANGED <<part, turns, picks, fitVars, capVars, launchVars, routingVars, speechVars>>
CapacityPart == part = "capacity" /\ CapacityNext
                /\ UNCHANGED <<part, turns, picks, fitVars, planVars, launchVars, routingVars, speechVars>>
LaunchPart == /\ part = "launch"
              /\ (LaunchSteps /\ UNCHANGED turns) \/ ((LaunchBegins \/ LaunchWorld) /\ Turn)
              /\ UNCHANGED <<part, picks, fitVars, planVars, capVars, routingVars, speechVars>>
RoutingPart == /\ part = "routing"
               /\ \/ RoutingSelects /\ picks < MaxPicks /\ picks' = picks + 1 /\ UNCHANGED turns
                  \/ RoutingWorld /\ Turn /\ UNCHANGED picks
               /\ UNCHANGED <<part, fitVars, planVars, capVars, launchVars, speechVars>>
SpeechPart == part = "speech" /\ SpeechNext
              /\ UNCHANGED <<part, turns, picks, fitVars, planVars, capVars, launchVars, routingVars>>

Next == FitPart \/ PlannerPart \/ CapacityPart \/ LaunchPart \/ RoutingPart \/ SpeechPart

Spec == Init /\ [][Next]_<<part, turns, picks, fitVars, planVars, capVars, launchVars, routingVars, speechVars>>
=============================================================================
