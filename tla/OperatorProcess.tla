-------------------------- MODULE OperatorProcess --------------------------
(***************************************************************************)
(* The operator process: cmd/operator/main.go and, under src/AVS/internal, *)
(* the operator, the monitor, the rebalancer and the clients they share    *)
(* (configuration, database, chains, EigenLayer, Across).  main loads the  *)
(* configuration, opens the clients one after the other and runs until a   *)
(* signal comes; three groups of goroutines work on ticks; then the        *)
(* internal context is cancelled, the goroutines are waited for, and the   *)
(* deferred calls close the clients.                                       *)
(*                                                                         *)
(* A worker is a goroutine that Run waits for: one per chain of the        *)
(* monitor, "rebalance" and "state".  Their tickers all have the period of *)
(* the rebalancer's, a minute, which is the unit of the clock; like a Go   *)
(* ticker they keep one tick for a worker that is late.  What a chain      *)
(* answers is left out, since the code only logs and submits it.           *)
(*                                                                         *)
(* The client of a chain is known by the place of its entry in the         *)
(* configuration: entries may share an id, and the map from ids to clients *)
(* then keeps the last.                                                    *)
(***************************************************************************)
EXTENDS Integers, Sequences

CONSTANTS
    Chains,             \* the chains a configuration may name
    Source,             \* the chain that transfers start from, 1 in the code
    Configs,            \* what configuration files hold
    MaxMinutes          \* bound: the last minute

ASSUME OperatorAssumption ==
    /\ Source \in Chains /\ MaxMinutes \in Nat
    /\ \A c \in Configs :
           c.chains \in Seq([id : Chains, complete : BOOLEAN, key : BOOLEAN])

Workers  == Chains \cup {"rebalance", "state"}
Services == {"database", "eigenlayer"}

VARIABLES
    main,               \* what main is at
    config,
    open,               \* the services that are open
    conns,              \* the entries of config.chains whose client is open
    chains,             \* chain id => entry whose client serves it, or 0
    external,           \* main's context is cancelled
    internal,           \* the operator's context is cancelled
    stopper,            \* a caller of Stop: "none", "waiting", "returned"
    worker,             \* worker => "off", "select", "rpc", "submit", "done"
    ticks,              \* workers whose ticker holds a tick
    minute,
    transfers           \* the transfers initiated: [at, watched]

operatorVars == <<main, config, open, conns, chains, external, internal, stopper, worker,
                  ticks, minute, transfers>>
clients == <<open, conns, chains>>
running == <<stopper, worker, ticks, minute, transfers>>
context == <<external, internal>>

OperatorInit ==
    /\ main = "load"
    /\ config \in Configs
    /\ open = {} /\ conns = {}
    /\ chains = [c \in Chains |-> 0]
    /\ external = FALSE /\ internal = FALSE
    /\ stopper = "none"
    /\ worker = [w \in Workers |-> "off"]
    /\ ticks = {}
    /\ minute = 0
    /\ transfers = << >>

-----------------------------------------------------------------------------
(* config.Load and operator.New *)

\* validate: at least one chain, every chain complete, both addresses there.
Validate(c) ==
    /\ c.chains # << >>
    /\ \A i \in DOMAIN c.chains : c.chains[i].complete
    /\ c.registryCoordinator /\ c.spokePool

Load ==
    /\ main = "load"
    /\ main' = IF Validate(config) THEN "database" ELSE "failed"
    /\ UNCHANGED <<config, clients, context, running>>

OpenDatabase(ok) ==
    /\ main = "database"
    /\ open' = IF ok THEN {"database"} ELSE {}
    /\ main' = IF ok THEN "chains" ELSE "failed"
    /\ UNCHANGED <<config, conns, chains, context, running>>

\* NewChain of the i-th entry: the key must parse and the node must answer.
\* The map forgets the client of an earlier entry with the same id.  A failure
\* leaves what is open open.
NewChain(i, ok) ==
    /\ main = "chains"
    /\ i \in DOMAIN config.chains /\ conns = 1 .. i - 1
    /\ ok => config.chains[i].key
    /\ conns' = IF ok THEN conns \cup {i} ELSE conns
    /\ chains' = IF ok THEN [chains EXCEPT ![config.chains[i].id] = i] ELSE chains
    /\ main' = IF ok THEN "chains" ELSE "failed"
    /\ UNCHANGED <<config, open, context, running>>

\* The EigenLayer client goes on without a connection; the monitor cannot
\* fail; the rebalancer needs Across numbers that parse.
NewServices(connected) ==
    /\ main = "chains" /\ conns = DOMAIN config.chains
    /\ open' = IF connected THEN open \cup {"eigenlayer"} ELSE open
    /\ main' = IF config.acrossNumbers THEN "monitor" ELSE "failed"
    /\ UNCHANGED <<config, conns, chains, context, running>>

-----------------------------------------------------------------------------
(* Run *)

\* The chains that the map has a client for.
Known == {c \in Chains : chains[c] # 0}

\* The three go statements; the Start calls before them cannot fail.
GroupOf(stage) ==
    CASE stage = "monitor"    -> Known
      [] stage = "rebalancer" -> {"rebalance"}
      [] stage = "updates"    -> {"state"}

After(stage) ==
    CASE stage = "monitor"    -> "rebalancer"
      [] stage = "rebalancer" -> "updates"
      [] stage = "updates"    -> "wait"

Launch ==
    /\ main \in {"monitor", "rebalancer", "updates"}
    /\ worker' = [w \in Workers |-> IF w \in GroupOf(main) THEN "select" ELSE worker[w]]
    /\ main' = After(main)
    /\ UNCHANGED <<config, clients, context, stopper, ticks, minute, transfers>>

\* SIGINT or SIGTERM; the handler is installed before Run.
Signal ==
    /\ main \in {"monitor", "rebalancer", "updates", "wait"}
    /\ ~external
    /\ external' = TRUE
    /\ UNCHANGED <<main, config, clients, internal, running>>

CancelInternal ==
    /\ main = "wait" /\ external
    /\ internal' = TRUE
    /\ main' = "drain"
    /\ UNCHANGED <<config, clients, external, running>>

\* Mutant: the rebalancer is started without wg.Add.
IdleButRebalance == \A w \in Workers \ {"rebalance"} : worker[w] \in {"off", "done"}

\* The wait group is at zero.
GroupIdle == \A w \in Workers : worker[w] \in {"off", "done"}

WaitForWorkers ==
    /\ main = "drain" /\ GroupIdle
    /\ main' = "close"
    /\ UNCHANGED <<config, clients, context, running>>

\* The deferred calls, last one first: EigenLayer, the chains of the map, the
\* database.
CloseEigenLayer ==
    /\ main = "close" /\ "eigenlayer" \in open
    /\ open' = open \ {"eigenlayer"}
    /\ UNCHANGED <<main, config, conns, chains, context, running>>

CloseChain(c) ==
    /\ main = "close" /\ "eigenlayer" \notin open
    /\ chains[c] \in conns
    /\ conns' = conns \ {chains[c]}
    /\ UNCHANGED <<main, config, open, chains, context, running>>

CloseDatabase ==
    /\ main = "close" /\ open = {"database"}
    /\ \A c \in Known : chains[c] \notin conns
    /\ open' = {}
    /\ main' = "returned"
    /\ UNCHANGED <<config, conns, chains, context, running>>

\* Stop: cancels and waits, from a goroutine of its own.
Stop ==
    /\ stopper = "none" /\ main \in {"monitor", "rebalancer", "updates", "wait"}
    /\ stopper' = "waiting"
    /\ internal' = TRUE
    /\ UNCHANGED <<main, config, clients, external, worker, ticks, minute, transfers>>

StopReturns ==
    /\ stopper = "waiting" /\ GroupIdle
    /\ stopper' = "returned"
    /\ UNCHANGED <<main, config, clients, context, worker, ticks, minute, transfers>>

-----------------------------------------------------------------------------
(* The workers *)

\* A tick: the pool states of one chain (monitor) or of every chain are asked
\* for.
TakeTick(w) ==
    /\ worker[w] = "select" /\ w \in ticks
    /\ ticks' = ticks \ {w}
    /\ worker' = [worker EXCEPT ![w] = "rpc"]
    /\ UNCHANGED <<main, config, clients, context, stopper, minute, transfers>>

\* GetPoolStates of those chains has answered or failed, after any time: it has
\* no deadline and no context.  A failure is logged and changes nothing.
GetPoolStates(w) ==
    /\ worker[w] = "rpc"
    /\ worker' = [worker EXCEPT ![w] = IF w \in Chains THEN "select" ELSE "submit"]
    /\ UNCHANGED <<main, config, clients, context, stopper, ticks, minute, transfers>>

\* updateState: SubmitStateUpdate for the chains that answered.
SubmitStateUpdate ==
    /\ worker["state"] = "submit"
    /\ worker' = [worker EXCEPT !["state"] = "select"]
    /\ UNCHANGED <<main, config, clients, context, stopper, ticks, minute, transfers>>

\* Mutant: one opportunity per chain.
PerChain == [i \in 1 .. 2 |-> [at |-> minute, watched |-> TRUE]]

\* analyzeRebalancingOpportunities: always the same one, from Source.
Opportunities == <<[at |-> minute, watched |-> TRUE]>>

\* executeRebalancing: without the source chain there is an error to log;
\* InitiateTransfer succeeds, and a goroutine nobody waits for watches it.
executeRebalancing ==
    /\ worker["rebalance"] = "submit"
    /\ transfers' = IF Source \in Known THEN transfers \o Opportunities ELSE transfers
    /\ worker' = [worker EXCEPT !["rebalance"] = "select"]
    /\ UNCHANGED <<main, config, clients, context, stopper, ticks, minute>>

\* monitorTransfer: the transfer is complete, or the context is cancelled.
monitorTransfer(i) ==
    /\ main \notin {"returned", "failed"}
    /\ transfers[i].watched
    /\ transfers' = [transfers EXCEPT ![i].watched = FALSE]
    /\ UNCHANGED <<main, config, clients, context, stopper, worker, ticks, minute>>

\* Mutant: the state routine looks at its ticker only.
SeesDoneNotState(w) == internal /\ w # "state"

SeesDone(w) == internal

\* The context's branch of the select.
Finish(w) ==
    /\ worker[w] = "select" /\ SeesDone(w)
    /\ worker' = [worker EXCEPT ![w] = "done"]
    /\ UNCHANGED <<main, config, clients, context, stopper, ticks, minute, transfers>>

Minute ==
    /\ main \notin {"returned", "failed"} /\ minute < MaxMinutes
    /\ \E w \in Workers : worker[w] \notin {"off", "done"}
    /\ minute' = minute + 1
    /\ ticks' = {w \in Workers : worker[w] \notin {"off", "done"}}
    /\ UNCHANGED <<main, config, clients, context, stopper, worker, transfers>>

MainStep ==
    \/ Load \/ Launch \/ CancelInternal \/ WaitForWorkers
    \/ \E ok \in BOOLEAN : OpenDatabase(ok) \/ NewServices(ok)
                           \/ \E i \in DOMAIN config.chains : NewChain(i, ok)
    \/ CloseEigenLayer \/ CloseDatabase \/ \E c \in Chains : CloseChain(c)

Work(w) == TakeTick(w) \/ GetPoolStates(w)
Tasks   == SubmitStateUpdate \/ executeRebalancing

OperatorNext ==
    \/ MainStep \/ Signal \/ Stop \/ StopReturns \/ Minute \/ Tasks
    \/ \E w \in Workers : Work(w) \/ Finish(w)
    \/ \E i \in DOMAIN transfers : monitorTransfer(i)

OperatorSpec == OperatorInit /\ [][OperatorNext]_operatorVars

\* Goroutines that can run do, and a node answers or fails some time.  A
\* select picks among its ready branches at random, so the context's branch is
\* taken in the end although the ticker may be ready each time: SF.
FairOperatorSpec ==
    /\ OperatorSpec
    /\ WF_operatorVars(MainStep) /\ WF_operatorVars(Tasks)
    /\ \A w \in Workers : WF_operatorVars(Work(w)) /\ SF_operatorVars(Finish(w))

-----------------------------------------------------------------------------
(* Properties *)

\* The shutdown never pulls a client from under a worker, whichever of signal,
\* Stop and ticks come in the middle of an RPC; and when Run returns, every
\* client that New opened is closed, except those of entries that a later entry
\* with the same id has pushed out of the map: nothing closes them.
ClientsOutliveUse ==
    /\ \A w \in Workers : worker[w] \in {"select", "rpc", "submit"} =>
           "database" \in open /\ \A c \in Known : chains[c] \in conns
    /\ main = "returned" =>
           /\ open = {} /\ GroupIdle
           /\ \A i \in conns : \E j \in DOMAIN config.chains :
                  j > i /\ config.chains[j].id = config.chains[i].id

\* Slow nodes delay the ticks, and then a tick that waited starts a transfer in
\* the same minute as the late one; but the i-th transfer never starts before
\* the i-th minute, transfers that start within k minutes are k + 1 at most,
\* however long the delays, and none starts without the source chain.
TransfersArePaced ==
    /\ \A i \in DOMAIN transfers : i <= transfers[i].at
    /\ \A i, j \in DOMAIN transfers :
           i < j => j - i <= transfers[j].at - transfers[i].at + 1
    /\ transfers # << >> => \E i \in DOMAIN config.chains : config.chains[i].id = Source

\* A signal ends the process gracefully: once the handler is installed, Run
\* returns.
ShutdownCompletes == external ~> main = "returned"

=============================================================================
