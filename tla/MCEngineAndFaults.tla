-------------------------- MODULE MCEngineAndFaults -------------------------
(* Model-checking instance of DiscreteEventEngine and of FaultInjection: two *)
(* machines that run for themselves, each while the other is at rest.        *)
EXTENDS DiscreteEventEngine, FaultInjection

EngineRests == Init /\ now = 0
RegistryRests == FaultInit /\ ~attached

EitherInit == (Init /\ RegistryRests) \/ (EngineRests /\ FaultInit)

EitherNext ==
  \/ Next /\ RegistryRests /\ UNCHANGED registry
  \/ FaultNext /\ EngineRests /\ UNCHANGED vars

EitherSpec == EitherInit /\ [][EitherNext]_<<vars, registry>>
=============================================================================
