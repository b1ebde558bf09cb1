---------------------------- MODULE MCBackground ---------------------------
(***************************************************************************)
(* What goes on without anybody asking, for TLC: the restart coordinator,  *)
(* the parking lot and the providers' refresh loop, one of them per        *)
(* behaviour, under the fairness of its own loops.                         *)
(***************************************************************************)
EXTENDS RestartCoordinator, ParkingLot, Providers, TLC

CONSTANTS w1, w2, w3, w4, m1, m2, Parts, MaxTurns

VARIABLES part, turns

\* Three requests for one model and one for the other.
MCModelOf == [w \in Waiters |-> IF w = w4 THEN m2 ELSE m1]
MCRef == "p1" :> "r1"

backgroundVars == <<part, turns, vars, lotVars, providerVars>>

BackgroundInit ==
    /\ part \in Parts /\ turns = 0
    /\ Init /\ LotInit
    /\ ProvidersInit /\ keyed = {"own"}
    /\ part # "providers" => saved["p1"] = Absent /\ works = Provs

Alone(name, rest) == part = name /\ UNCHANGED <<part, rest>>

RestartPart == Next /\ Alone("restart", <<turns, lotVars, providerVars>>)
\* The requests for m1 are alike: they come in one order, whichever it is.
InOrder == (at'[w1] = "idle" => at'[w2] = "idle") /\ (at'[w2] = "idle" => at'[w3] = "idle")
LotPart == LotNext /\ InOrder /\ Alone("parking", <<turns, vars, providerVars>>)
\* The operator and the upstream act MaxTurns times.
ProvidersPart ==
    /\ \/ ProvidersOperator /\ turns < MaxTurns /\ turns' = turns + 1
       \/ ProvidersStep /\ UNCHANGED turns
    /\ Alone("providers", <<vars, lotVars>>)

BackgroundNext == RestartPart \/ LotPart \/ ProvidersPart

InRestart(A) == A /\ Alone("restart", <<turns, lotVars, providerVars>>)
InLot(A) == A /\ Alone("parking", <<turns, vars, providerVars>>)
InProviders(A) == A /\ Alone("providers", <<turns, vars, lotVars>>)

(* The worker threads and clocks of the coordinator; the event loop of the *)
(* gateway and its deadlines; the refresh loop and the timeouts of what it *)
(* asks.                                                                   *)
BackgroundFairness ==
    /\ WF_backgroundVars(InRestart(Handle))
    /\ \A k \in Loops : WF_backgroundVars(InRestart(Step(k)))
    /\ \A w \in Waiters : WF_backgroundVars(InLot(Run(w))) /\ WF_backgroundVars(InLot(DeadlinePasses(w)))
    /\ \A p \in Provs : WF_backgroundVars(InProviders(LoopRefresh(p))) /\ WF_backgroundVars(InProviders(SomeAnswer(p)))

BackgroundSpec == BackgroundInit /\ [][BackgroundNext]_backgroundVars /\ BackgroundFairness

(* Nothing waits for ever: every retry loop of the coordinator ends, by    *)
(* success or by giving up, and whoever enters the parking lot leaves it.  *)
WaitsEnd == LoopsEnd /\ EveryoneLeaves
=============================================================================
