----------------------------- MODULE MCIoQueue -----------------------------
(***************************************************************************)
(* Three loads for TLC, one per initial value of load, each with bounds    *)
(* below those of the configuration file: "live" is small, for liveness;   *)
(* "order" has later targets, so that there is something to sort; "reuse"  *)
(* has more ops than entries, so that entries are taken again.             *)
(***************************************************************************)
EXTENDS IoQueue

VARIABLE load
mcvars == <<vars, load>>

Bound == [live  |-> [ops |-> 3, time |-> 1, lats |-> {0, 1}],
          order |-> [ops |-> 3, time |-> 2, lats |-> {1, 2}],
          reuse |-> [ops |-> 5, time |-> 0, lats |-> {0}]]

Within(b) ==
    /\ now' <= b.time
    /\ issued' # issued =>
          issued' <= b.ops /\ due'[issued'] <= b.time /\ due'[issued'] - now \in b.lats

MCInit == Init /\ load \in DOMAIN Bound
MCNext == Next /\ Within(Bound[load]) /\ UNCHANGED load

Live(A) == load = "live" /\ A /\ Within(Bound[load]) /\ UNCHANGED load

\* The fairness of IoQueue, for the load whose liveness is checked.
MCSpec == /\ MCInit /\ [][MCNext]_mcvars
          /\ WF_mcvars(Live(Dispatcher)) /\ WF_mcvars(Live(Worker))
          /\ WF_mcvars(Live(Tick))

-----------------------------------------------------------------------------
\* OpsComplete and CompletionsSignalled: the worker comes to every entry, and an
\* interrupt follows each completion of a command.
AllSignalled == load = "live" => OpsComplete /\ CompletionsSignalled
=============================================================================
