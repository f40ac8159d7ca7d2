---------------------------- MODULE OperatorProofs ----------------------------
(***************************************************************************)
(* Proofs about the two programs that an operator runs: the operator       *)
(* process, for any chains, any configurations and any time, and the       *)
(* monitor, for any number of recorders and of calls, and any limits.      *)
(***************************************************************************)
EXTENDS OperatorProcess, Monitor, SequenceTheorems, FiniteSetTheorems, TLAPS

-----------------------------------------------------------------------------
(* The operator process *)

Stages    == {"load", "database", "chains", "failed", "monitor", "rebalancer", "updates",
              "wait", "drain", "close", "returned"}
Preparing == {"load", "database", "chains", "failed"}
Serving   == {"monitor", "rebalancer", "updates", "wait", "drain"}
Entries   == DOMAIN config.chains

Transfer  == [at : Nat, watched : BOOLEAN]

ProcessTyped ==
    /\ main \in Stages
    /\ config \in Configs
    /\ open \subseteq Services
    /\ conns \subseteq Entries
    /\ chains \in [Chains -> Nat]
    /\ worker \in [Workers -> {"off", "select", "rpc", "submit", "done"}]
    /\ ticks \subseteq Workers
    /\ minute \in Nat
    /\ transfers \in Seq(Transfer)

\* The map after n entries: each id has the last of the entries that name it.
Latest(n) ==
    \A c \in Chains :
        /\ chains[c] \in 0 .. n
        /\ chains[c] # 0 => config.chains[chains[c]].id = c
        /\ \A i \in 1 .. n : config.chains[i].id = c => i <= chains[c]

\* What main's place in its straight-line code says of the clients and of the
\* wait group: nothing is launched before New has returned, everything is open
\* from then to the end of the wait, and the closing starts with an idle group.
StagesInOrder ==
    /\ main \in Preparing => \A w \in Workers : worker[w] = "off"
    /\ main \in {"load", "database"} => conns = {} /\ Latest(0)
    /\ main = "chains" => "database" \in open
                         /\ \E n \in Nat : conns = 1 .. n /\ Latest(n)
    /\ main \in Serving => "database" \in open /\ conns = Entries
    /\ main \notin Preparing => Latest(Len(config.chains))
    /\ main = "close" => GroupIdle /\ "database" \in open
    /\ main = "returned" => GroupIdle /\ open = {} /\ \A c \in Chains : chains[c] \notin conns

\* A tick that the rebalancer has taken and not yet acted on, and one that
\* waits in its ticker: each leads to a transfer, so each has its minute.
InHand  == worker["rebalance"] \in {"rpc", "submit"}
Waiting == "rebalance" \in ticks
Held    == (IF InHand THEN 1 ELSE 0) + (IF Waiting THEN 1 ELSE 0)

\* Since the i-th transfer there was a minute for every later one and every
\* tick that is held, except for the tick that waited at that time.
TransfersPaidFor ==
    /\ Len(transfers) + Held <= minute
    /\ \A i \in DOMAIN transfers :
           transfers[i].at + (Len(transfers) - i) + Held <= minute + 1
    /\ TransfersArePaced

OperatorInv == ProcessTyped /\ StagesInOrder /\ TransfersPaidFor

-----------------------------------------------------------------------------

\* The entries of a configuration.
LEMMA EntriesLemma ==
    ASSUME ProcessTyped
    PROVE  /\ Len(config.chains) \in Nat /\ Entries = 1 .. Len(config.chains)
           /\ \A i \in Entries : config.chains[i].id \in Chains
<1> DEFINE Entry == [id : Chains, complete : BOOLEAN, key : BOOLEAN]
<1>1. config.chains \in Seq(Entry)
  BY OperatorAssumption DEF ProcessTyped
<1>2. \A e \in Entry : e.id \in Chains
  OBVIOUS
<1> HIDE DEF Entry
<1>3. /\ Len(config.chains) \in Nat /\ DOMAIN config.chains = 1 .. Len(config.chains)
      /\ \A i \in 1 .. Len(config.chains) : config.chains[i] \in Entry
  BY <1>1
<1> QED BY <1>2, <1>3 DEF Entries

\* The transfers and their minutes.
LEMMA TransferNumbers ==
    ASSUME ProcessTyped
    PROVE  /\ minute \in Nat /\ Len(transfers) \in Nat
           /\ DOMAIN transfers = 1 .. Len(transfers)
           /\ \A i \in 1 .. Len(transfers) : transfers[i].at \in Nat
<1>1. minute \in Nat /\ transfers \in Seq(Transfer)
  BY DEF ProcessTyped
<1>2. \A e \in Transfer : e.at \in Nat
  BY DEF Transfer
<1>3. /\ Len(transfers) \in Nat /\ DOMAIN transfers = 1 .. Len(transfers)
      /\ \A i \in 1 .. Len(transfers) : transfers[i] \in Transfer
  BY <1>1
<1> QED BY <1>1, <1>2, <1>3

\* A step that leaves the transfers and the rebalancer's ticks alone.
LEMMA SameTransfers ==
    ASSUME TransfersPaidFor, UNCHANGED <<config, minute, transfers>>, Held' = Held
    PROVE  TransfersPaidFor'
BY DEF TransfersPaidFor, TransfersArePaced

\* No more ticks in hand or waiting than before.
LEMMA FewerHeld ==
    ASSUME OperatorInv, UNCHANGED <<config, minute, transfers>>, Held' <= Held
    PROVE  TransfersPaidFor'
<1>0. Held' \in Nat /\ Held \in Nat
  BY DEF Held
<1>1. /\ Held' \in Nat /\ Held \in Nat /\ minute \in Nat /\ Len(transfers) \in Nat
      /\ DOMAIN transfers \subseteq Nat
      /\ \A i \in DOMAIN transfers : transfers[i].at \in Nat
  BY <1>0, TransferNumbers DEF OperatorInv
<1>2. TransfersArePaced'
  BY DEF OperatorInv, TransfersPaidFor, TransfersArePaced
<1>3. Len(transfers) + Held' <= minute
  BY <1>1 DEF OperatorInv, TransfersPaidFor
<1>4. \A i \in DOMAIN transfers : transfers[i].at + (Len(transfers) - i) + Held' <= minute + 1
  BY <1>1 DEF OperatorInv, TransfersPaidFor
<1> QED BY <1>2, <1>3, <1>4 DEF TransfersPaidFor

\* The numbers of the invariant.
LEMMA HeldLemma ==
    /\ Held \in {0, 1, 2}
    /\ Held' \in {0, 1, 2}
    /\ InHand' = InHand /\ Waiting' = Waiting => Held' = Held
    /\ worker' = worker /\ ticks' = ticks => Held' = Held
BY DEF Held, InHand, Waiting

\* Before main does anything the invariant holds.
LEMMA OperatorInitLemma == OperatorInit => OperatorInv
<1> SUFFICES ASSUME OperatorInit PROVE OperatorInv
  OBVIOUS
<1>1. /\ transfers = << >> /\ Len(transfers) = 0 /\ transfers \in Seq(Transfer)
      /\ DOMAIN transfers = {}
  BY DEF OperatorInit
<1>2. "rebalance" \in Workers
  BY DEF Workers
<1>3. Held = 0
  BY <1>2 DEF OperatorInit, Held, InHand, Waiting
<1>4. ProcessTyped
  BY <1>1 DEF OperatorInit, ProcessTyped, Stages
<1>5. Latest(0)
  <2>1. \A c \in Chains : chains[c] = 0
    BY DEF OperatorInit
  <2>2. 0 \in 0 .. 0 /\ 1 .. 0 = {}
    OBVIOUS
  <2> QED BY <2>1, <2>2 DEF Latest
<1>6. StagesInOrder
  BY <1>5 DEF OperatorInit, StagesInOrder, Preparing, Serving
<1>7. TransfersPaidFor
  BY <1>1, <1>3 DEF OperatorInit, TransfersPaidFor, TransfersArePaced
<1> QED
  BY <1>4, <1>6, <1>7 DEF OperatorInv

\* One more entry: its id is served by it from now on.
LEMMA LatestLemma ==
    ASSUME ProcessTyped, NEW n \in Nat, n + 1 \in Entries, Latest(n), config' = config,
           chains' = [chains EXCEPT ![config.chains[n + 1].id] = n + 1]
    PROVE  Latest(n + 1)'
<1> DEFINE d == config.chains[n + 1].id
<1>1. d \in Chains
  BY EntriesLemma
<1> SUFFICES ASSUME NEW c \in Chains
             PROVE  /\ chains'[c] \in 0 .. n + 1
                    /\ chains'[c] # 0 => config.chains[chains'[c]].id = c
                    /\ \A i \in 1 .. n + 1 : config.chains[i].id = c => i <= chains'[c]
  BY DEF Latest
<1>2. CASE c = d
  BY <1>1, <1>2 DEF ProcessTyped
<1>3. CASE c # d
  <2>1. chains'[c] = chains[c]
    BY <1>3
  <2>2. /\ chains[c] \in 0 .. n
        /\ chains[c] # 0 => config.chains[chains[c]].id = c
        /\ \A i \in 1 .. n : config.chains[i].id = c => i <= chains[c]
    BY DEF Latest
  <2>3. ASSUME NEW i \in 1 .. n + 1, config.chains[i].id = c PROVE i <= chains[c]
    <3>1. i # n + 1
      BY <1>3, <2>3
    <3>2. i \in 1 .. n
      BY <3>1
    <3> QED BY <2>2, <2>3, <3>2
  <2> QED BY <2>1, <2>2, <2>3
<1> QED BY <1>2, <1>3

\* The steps of main up to Run move no worker.
LEMMA SetupLemma ==
    ASSUME OperatorInv,
           \/ Load
           \/ \E ok \in BOOLEAN : OpenDatabase(ok) \/ NewServices(ok)
                                  \/ \E i \in DOMAIN config.chains : NewChain(i, ok)
    PROVE  OperatorInv'
<1>0. Held' = Held
  BY HeldLemma DEF Load, OpenDatabase, NewServices, NewChain, running
<1>1. TransfersPaidFor'
  BY <1>0, SameTransfers DEF OperatorInv, Load, OpenDatabase, NewServices, NewChain, running
<1>2. CASE Load
  <2>1. ProcessTyped'
    BY <1>2 DEF Load, OperatorInv, ProcessTyped, Stages, Entries, clients, running
  <2>2. StagesInOrder'
    BY <1>2 DEF Load, OperatorInv, StagesInOrder, Preparing, Serving, Latest, clients, running
  <2> QED BY <1>1, <2>1, <2>2 DEF OperatorInv
<1>3. ASSUME NEW ok \in BOOLEAN, OpenDatabase(ok) PROVE OperatorInv'
  <2>1. ProcessTyped'
    BY <1>3 DEF OpenDatabase, OperatorInv, ProcessTyped, Stages, Services, Entries, running
  <2>2. main' \in {"chains", "failed"} /\ (main' = "chains" => "database" \in open')
    BY <1>3 DEF OpenDatabase
  <2>3. conns' = 1 .. 0 /\ Latest(0)'
    BY <1>3 DEF OpenDatabase, OperatorInv, StagesInOrder, Latest
  <2>4. \A w \in Workers : worker'[w] = "off"
    BY <1>3 DEF OpenDatabase, OperatorInv, StagesInOrder, Preparing, running
  <2>5. StagesInOrder'
    BY <2>2, <2>3, <2>4 DEF StagesInOrder, Preparing, Serving
  <2> QED BY <1>1, <2>1, <2>5 DEF OperatorInv
<1>4. ASSUME NEW ok \in BOOLEAN, NEW i \in DOMAIN config.chains, NewChain(i, ok) PROVE OperatorInv'
  <2>1. PICK n \in Nat : conns = 1 .. n /\ Latest(n)
    BY <1>4 DEF NewChain, OperatorInv, StagesInOrder
  <2>2. i \in Nat /\ i >= 1 /\ conns = 1 .. i - 1 /\ i \in Entries
    BY <1>4, EntriesLemma DEF NewChain, OperatorInv, Entries
  <2>3. i = n + 1
    BY <2>1, <2>2
  <2>4. ProcessTyped'
    BY <1>4, <2>2, EntriesLemma DEF NewChain, OperatorInv, ProcessTyped, Stages, Entries, running
  <2>5. \A w \in Workers : worker'[w] = "off"
    BY <1>4 DEF NewChain, OperatorInv, StagesInOrder, Preparing, running
  <2>6. "database" \in open'
    BY <1>4 DEF NewChain, OperatorInv, StagesInOrder
  <2>7. CASE ok
    <3>1. conns' = 1 .. n + 1 /\ main' = "chains"
      BY <1>4, <2>1, <2>3, <2>7 DEF NewChain
    <3>2. Latest(n + 1)'
      BY <1>4, <2>1, <2>2, <2>3, <2>7, LatestLemma DEF NewChain, OperatorInv
    <3>3. StagesInOrder'
      BY <2>5, <2>6, <3>1, <3>2 DEF StagesInOrder, Preparing, Serving
    <3> QED BY <1>1, <2>4, <3>3 DEF OperatorInv
  <2>8. CASE ~ok
    <3>1. main' = "failed"
      BY <1>4, <2>8 DEF NewChain
    <3>2. StagesInOrder'
      BY <2>5, <3>1 DEF StagesInOrder, Preparing, Serving
    <3> QED BY <1>1, <2>4, <3>2 DEF OperatorInv
  <2> QED BY <2>7, <2>8
<1>5. ASSUME NEW ok \in BOOLEAN, NewServices(ok) PROVE OperatorInv'
  <2>1. ProcessTyped'
    BY <1>5 DEF NewServices, OperatorInv, ProcessTyped, Stages, Services, Entries, running
  <2>2. PICK n \in Nat : conns = 1 .. n /\ Latest(n)
    BY <1>5 DEF NewServices, OperatorInv, StagesInOrder
  <2>3. conns = 1 .. Len(config.chains) /\ Len(config.chains) \in Nat
    BY <1>5, EntriesLemma DEF NewServices, OperatorInv, Entries
  <2>4. n = Len(config.chains)
    BY <2>2, <2>3
  <2>5. Latest(Len(config.chains))'
    BY <1>5, <2>2, <2>4 DEF NewServices, Latest
  <2>6. /\ main' \in {"monitor", "failed"}
        /\ "database" \in open' /\ conns' = Entries'
        /\ \A w \in Workers : worker'[w] = "off"
    BY <1>5 DEF NewServices, OperatorInv, StagesInOrder, Preparing, Entries, running
  <2>7. StagesInOrder'
    BY <2>5, <2>6 DEF StagesInOrder, Preparing, Serving
  <2> QED BY <1>1, <2>1, <2>7 DEF OperatorInv
<1> QED BY <1>2, <1>3, <1>4, <1>5

\* Run: the launches, the two ways to be told to stop, and the wait.
LEMMA RunLemma ==
    ASSUME OperatorInv, Launch \/ Signal \/ CancelInternal \/ WaitForWorkers \/ Stop \/ StopReturns
    PROVE  OperatorInv'
<1>0. UNCHANGED <<config, open, conns, chains, minute, transfers, ticks>>
  BY DEF Launch, Signal, CancelInternal, WaitForWorkers, Stop, StopReturns, clients, running
<1>1. Entries' = Entries /\ Latest(Len(config.chains))' = Latest(Len(config.chains))
  BY <1>0 DEF Entries, Latest
<1>2. CASE Launch
  <2>1. main' \in {"rebalancer", "updates", "wait"}
    BY <1>2 DEF Launch, After
  <2>2. InHand' => InHand
    BY <1>2 DEF Launch, Workers, InHand
  <2>h. Held' <= Held
    BY <1>0, <2>2 DEF Held, Waiting
  <2>3. worker' \in [Workers -> {"off", "select", "rpc", "submit", "done"}]
    BY <1>2 DEF Launch, OperatorInv, ProcessTyped
  <2>4. "database" \in open /\ conns = Entries /\ Latest(Len(config.chains))
    BY <1>2 DEF Launch, OperatorInv, StagesInOrder, Serving, Preparing
  <2>5. ProcessTyped'
    BY <1>0, <1>1, <2>1, <2>3 DEF OperatorInv, ProcessTyped, Stages
  <2>6. StagesInOrder'
    BY <1>0, <1>1, <2>1, <2>4 DEF StagesInOrder, Preparing, Serving
  <2>7. TransfersPaidFor'
    BY <1>0, <2>h, FewerHeld
  <2> QED BY <2>5, <2>6, <2>7 DEF OperatorInv
<1>3. CASE Signal \/ Stop \/ StopReturns \/ CancelInternal \/ WaitForWorkers
  <2>1. worker' = worker
    BY <1>3 DEF Signal, Stop, StopReturns, CancelInternal, WaitForWorkers, running
  <2>2. TransfersPaidFor'
    BY <1>0, <2>1, HeldLemma, SameTransfers DEF OperatorInv
  <2>3. \/ main' = main
        \/ main = "wait" /\ main' = "drain"
        \/ main = "drain" /\ main' = "close" /\ GroupIdle
    BY <1>3 DEF Signal, Stop, StopReturns, CancelInternal, WaitForWorkers
  <2>4. ProcessTyped'
    BY <1>0, <1>1, <2>1, <2>3 DEF OperatorInv, ProcessTyped, Stages
  <2>5. StagesInOrder'
    <3>1. CASE main' = main
      BY <1>0, <2>1, <3>1 DEF OperatorInv, StagesInOrder, GroupIdle, Entries, Latest
    <3>2. CASE main = "wait" /\ main' = "drain"
      BY <1>0, <1>1, <2>1, <3>2 DEF OperatorInv, StagesInOrder, Preparing, Serving
    <3>3. CASE main = "drain" /\ main' = "close" /\ GroupIdle
      BY <1>0, <1>1, <2>1, <3>3 DEF OperatorInv, StagesInOrder, Preparing, Serving, GroupIdle
    <3> QED BY <2>3, <3>1, <3>2, <3>3
  <2> QED BY <2>2, <2>4, <2>5 DEF OperatorInv
<1> QED BY <1>2, <1>3

\* The deferred calls: the database is the last client to be closed, and Run
\* returns with it.
LEMMA CloseLemma ==
    ASSUME OperatorInv, CloseEigenLayer \/ CloseDatabase \/ \E c \in Chains : CloseChain(c)
    PROVE  OperatorInv'
<1>0. /\ main = "close" /\ main' \in {"close", "returned"}
      /\ UNCHANGED <<config, chains, worker, ticks, minute, transfers>>
  BY DEF CloseEigenLayer, CloseDatabase, CloseChain, running
<1>1. TransfersPaidFor'
  BY <1>0, HeldLemma, SameTransfers DEF OperatorInv
<1>2. open' \subseteq Services /\ conns' \subseteq Entries
  BY DEF CloseEigenLayer, CloseDatabase, CloseChain, OperatorInv, ProcessTyped
<1>3. ProcessTyped'
  BY <1>0, <1>2 DEF OperatorInv, ProcessTyped, Stages, Entries
<1>4. Latest(Len(config.chains))' /\ GroupIdle'
  BY <1>0 DEF OperatorInv, StagesInOrder, Preparing, Latest, GroupIdle
<1>5. main' = "close" => "database" \in open'
  BY <1>0 DEF CloseEigenLayer, CloseDatabase, CloseChain, OperatorInv, StagesInOrder
<1>6. main' = "returned" => open' = {} /\ \A c \in Chains : chains'[c] \notin conns'
  <2>1. 0 \notin conns
    BY EntriesLemma DEF OperatorInv, ProcessTyped
  <2> QED BY <1>0, <2>1 DEF CloseEigenLayer, CloseDatabase, CloseChain, Known
<1>7. StagesInOrder'
  BY <1>0, <1>4, <1>5, <1>6 DEF StagesInOrder, Preparing, Serving
<1> QED BY <1>1, <1>3, <1>7 DEF OperatorInv

\* A worker that runs shows that main is between the launch and the end of the
\* wait.
LEMMA WorkingLemma ==
    ASSUME OperatorInv, NEW w \in Workers, worker[w] \in {"select", "rpc", "submit"}
    PROVE  main \in Serving
BY DEF OperatorInv, ProcessTyped, StagesInOrder, GroupIdle, Stages, Preparing, Serving

\* A step of a worker that takes nothing from main.
LEMMA WorkerLemma ==
    ASSUME OperatorInv, NEW w \in Workers, worker[w] \in {"select", "rpc", "submit"},
           NEW s \in {"select", "rpc", "submit", "done"},
           worker' = [worker EXCEPT ![w] = s],
           UNCHANGED <<main, config, open, conns, chains>>
    PROVE  /\ worker' \in [Workers -> {"off", "select", "rpc", "submit", "done"}]
           /\ StagesInOrder'
<1>1. main \in Serving
  BY WorkingLemma
<1>2. Entries' = Entries /\ Latest(Len(config.chains))' = Latest(Len(config.chains))
  BY DEF Entries, Latest
<1> QED
  BY <1>1, <1>2 DEF OperatorInv, ProcessTyped, StagesInOrder, Preparing, Serving

\* Executing puts a transfer behind the others, for the tick in hand.
LEMMA ExecuteLemma ==
    ASSUME OperatorInv, executeRebalancing
    PROVE  transfers' \in Seq(Transfer) /\ TransfersPaidFor'
<1> DEFINE new == [at |-> minute, watched |-> TRUE]
<1>n. PICK n \in Nat : n = Len(transfers)
  BY TransferNumbers DEF OperatorInv
<1>h. PICK h \in Nat : h = Held'
  BY HeldLemma
<1>0. /\ transfers \in Seq(Transfer) /\ n \in Nat /\ minute \in Nat
      /\ DOMAIN transfers = 1 .. n
      /\ \A i \in 1 .. n : transfers[i].at \in Nat
      /\ config' = config /\ minute' = minute
  BY <1>n, TransferNumbers DEF OperatorInv, ProcessTyped, executeRebalancing
<1>1. new \in Transfer /\ new.at = minute
  BY <1>0 DEF Transfer
<1>2. "rebalance" \in Workers
  BY DEF Workers
<1>3. InHand /\ ~InHand' /\ Waiting' = Waiting
  BY <1>2 DEF executeRebalancing, OperatorInv, ProcessTyped, InHand, Waiting
<1>4. Held = h + 1 /\ Held' = h /\ h <= 1
  BY <1>h, <1>3 DEF Held
<1>5. /\ n + (h + 1) <= minute
      /\ \A i \in 1 .. n : transfers[i].at + (n - i) + (h + 1) <= minute + 1
      /\ \A i \in 1 .. n : i <= transfers[i].at
      /\ \A i, j \in 1 .. n : i < j => j - i <= transfers[j].at - transfers[i].at + 1
  BY <1>n, <1>0, <1>4 DEF OperatorInv, TransfersPaidFor, TransfersArePaced
<1>6. CASE Source \in Known
  <2>1. transfers' = transfers \o <<new>>
    BY <1>6 DEF executeRebalancing, Opportunities
  <2> HIDE DEF new
  <2>2. /\ transfers' \in Seq(Transfer) /\ Len(transfers') = n + 1
        /\ DOMAIN transfers' = 1 .. n + 1
        /\ \A i \in 1 .. n : transfers'[i] = transfers[i]
        /\ transfers'[n + 1] = new
    <3>1. <<new>> \in Seq(Transfer) /\ Len(<<new>>) = 1 /\ <<new>>[1] = new
      BY <1>1
    <3>2. /\ transfers' \in Seq(Transfer) /\ Len(transfers') = n + 1
          /\ \A i \in 1 .. n + 1 : transfers'[i] = IF i <= n THEN transfers[i] ELSE <<new>>[i - n]
      BY <1>n, <1>0, <2>1, <3>1, ConcatProperties
    <3>3. \A i \in 1 .. n : transfers'[i] = transfers[i]
      BY <1>0, <3>2
    <3>4. transfers'[n + 1] = new
      BY <1>0, <3>1, <3>2
    <3>5. DOMAIN transfers' = 1 .. n + 1
      BY <1>0, <3>2
    <3> QED BY <3>2, <3>3, <3>4, <3>5
  <2>3. Len(transfers') + Held' <= minute'
    <3>1. n + 1 + h <= minute
      BY <1>0, <1>5
    <3> QED BY <1>0, <1>4, <2>2, <3>1
  <2>4. \A i \in 1 .. n + 1 : transfers'[i].at + (n + 1 - i) + h <= minute + 1
    <3>1. ASSUME NEW i \in 1 .. n
          PROVE  transfers'[i].at + (n + 1 - i) + h <= minute + 1
      <4>1. /\ transfers[i].at + (n - i) + (h + 1) <= minute + 1
            /\ transfers[i].at \in Nat /\ transfers'[i] = transfers[i]
        BY <1>0, <1>5, <2>2
      <4> QED BY <1>0, <1>4, <4>1
    <3>2. transfers'[n + 1].at = minute
      BY <1>1, <2>2
    <3>4. transfers'[n + 1].at + (n + 1 - (n + 1)) + h <= minute + 1
      BY <1>0, <1>4, <3>2
    <3> QED BY <1>0, <3>1, <3>4
  <2>5. \A i \in 1 .. n + 1 : i <= transfers'[i].at
    <3>1. \A i \in 1 .. n : i <= transfers'[i].at
      BY <1>5, <2>2
    <3>2. n + 1 <= transfers'[n + 1].at
      BY <1>0, <1>1, <1>4, <1>5, <2>2
    <3> QED BY <1>0, <3>1, <3>2
  <2>6. ASSUME NEW i \in 1 .. n + 1, NEW j \in 1 .. n + 1, i < j
        PROVE  j - i <= transfers'[j].at - transfers'[i].at + 1
    <3>1. i \in 1 .. n /\ transfers'[i] = transfers[i]
      BY <1>0, <2>2, <2>6
    <3>2. CASE j = n + 1
      <4>1. transfers'[j].at = minute
        BY <1>1, <2>2, <3>2
      <4>2. transfers[i].at + (n - i) + (h + 1) <= minute + 1 /\ transfers[i].at \in Nat
        BY <1>0, <1>5, <3>1
      <4> QED BY <1>0, <1>4, <3>1, <3>2, <4>1, <4>2
    <3>3. CASE j # n + 1
      BY <1>0, <1>5, <2>2, <2>6, <3>1, <3>3
    <3> QED BY <3>2, <3>3
  <2>7. \E i \in DOMAIN config.chains : config.chains[i].id = Source
    <3>1. main \in Serving
      BY <1>2, WorkingLemma DEF executeRebalancing
    <3>2. Latest(Len(config.chains)) /\ Source \in Chains /\ chains[Source] # 0
      BY <1>6, <3>1 DEF OperatorInv, StagesInOrder, Serving, Preparing, Known
    <3>3. Len(config.chains) \in Nat /\ DOMAIN config.chains = 1 .. Len(config.chains)
      BY EntriesLemma DEF OperatorInv, Entries
    <3> QED BY <3>2, <3>3 DEF Latest
  <2>8. TransfersArePaced'
    BY <1>0, <2>2, <2>5, <2>6, <2>7 DEF TransfersArePaced
  <2>9. TransfersPaidFor'
    BY <1>0, <1>4, <2>2, <2>3, <2>4, <2>8 DEF TransfersPaidFor
  <2> QED BY <2>2, <2>9
<1>7. CASE Source \notin Known
  <2>1. transfers' = transfers
    BY <1>7 DEF executeRebalancing
  <2>2. TransfersArePaced'
    BY <1>0, <2>1 DEF OperatorInv, TransfersPaidFor, TransfersArePaced
  <2>3. Len(transfers') + Held' <= minute'
    BY <1>n, <1>0, <1>4, <1>5, <2>1
  <2>4. \A i \in 1 .. n : transfers'[i].at + (n - i) + h <= minute + 1
    BY <1>0, <1>4, <1>5, <2>1
  <2> QED BY <1>n, <1>0, <1>4, <2>1, <2>2, <2>3, <2>4 DEF TransfersPaidFor
<1> QED BY <1>6, <1>7

\* The workers' steps: a tick moves from the ticker to the rebalancer's hand,
\* and from there to the list of transfers.
LEMMA WorkLemma ==
    ASSUME OperatorInv,
           \/ SubmitStateUpdate \/ executeRebalancing
           \/ \E w \in Workers : TakeTick(w) \/ GetPoolStates(w) \/ Finish(w)
    PROVE  OperatorInv'
<1>0. "rebalance" \in Workers /\ "state" \in Workers /\ "rebalance" # "state"
  BY DEF Workers
<1>1. CASE SubmitStateUpdate
  <2>1. ProcessTyped' /\ StagesInOrder'
    BY <1>0, <1>1, WorkerLemma DEF SubmitStateUpdate, OperatorInv, ProcessTyped, Entries, clients
  <2>2. InHand' = InHand /\ Waiting' = Waiting
    BY <1>0, <1>1 DEF SubmitStateUpdate, OperatorInv, ProcessTyped, InHand, Waiting
  <2>3. TransfersPaidFor'
    BY <1>1, <2>2, HeldLemma, SameTransfers DEF SubmitStateUpdate, OperatorInv
  <2> QED BY <2>1, <2>3 DEF OperatorInv
<1>2. CASE executeRebalancing
  <2>1. /\ worker' \in [Workers -> {"off", "select", "rpc", "submit", "done"}]
        /\ StagesInOrder'
    BY <1>0, <1>2, WorkerLemma DEF executeRebalancing, clients
  <2>2. transfers' \in Seq(Transfer) /\ TransfersPaidFor'
    BY <1>2, ExecuteLemma
  <2>3. ProcessTyped'
    BY <1>2, <2>1, <2>2 DEF executeRebalancing, OperatorInv, ProcessTyped, Entries, clients
  <2> QED BY <2>1, <2>2, <2>3 DEF OperatorInv
<1>3. ASSUME NEW w \in Workers, TakeTick(w) PROVE OperatorInv'
  <2>1. ProcessTyped' /\ StagesInOrder'
    BY <1>3, WorkerLemma DEF TakeTick, OperatorInv, ProcessTyped, Entries, clients
  <2>2. Held' = Held
    BY <1>0, <1>3 DEF TakeTick, OperatorInv, ProcessTyped, Held, InHand, Waiting
  <2>3. TransfersPaidFor'
    BY <1>3, <2>2, SameTransfers DEF TakeTick, OperatorInv
  <2> QED BY <2>1, <2>3 DEF OperatorInv
<1>4. ASSUME NEW w \in Workers, GetPoolStates(w) PROVE OperatorInv'
  <2>0. PICK s \in {"select", "submit"} :
            worker' = [worker EXCEPT ![w] = s] /\ (s = "select" <=> w \in Chains)
    BY <1>4 DEF GetPoolStates
  <2>1. ProcessTyped' /\ StagesInOrder'
    BY <1>4, <2>0, WorkerLemma DEF GetPoolStates, OperatorInv, ProcessTyped, Entries, clients
  <2>2. CASE InHand' = InHand
    <3>1. Held' = Held
      BY <1>4, <2>2, HeldLemma DEF GetPoolStates, Waiting
    <3> QED
      BY <1>4, <2>1, <3>1, SameTransfers DEF GetPoolStates, OperatorInv
  <2>3. CASE InHand' # InHand
    <3>1. Held' <= Held
      BY <1>0, <1>4, <2>0, <2>3 DEF GetPoolStates, OperatorInv, ProcessTyped, Held, InHand, Waiting
    <3>2. TransfersPaidFor'
      BY <1>4, <3>1, FewerHeld DEF GetPoolStates
    <3> QED BY <2>1, <3>2 DEF OperatorInv
  <2> QED BY <2>2, <2>3
<1>5. ASSUME NEW w \in Workers, Finish(w) PROVE OperatorInv'
  <2>1. ProcessTyped' /\ StagesInOrder'
    BY <1>5, WorkerLemma DEF Finish, OperatorInv, ProcessTyped, Entries, clients
  <2>2. InHand' = InHand /\ Waiting' = Waiting
    BY <1>0, <1>5 DEF Finish, OperatorInv, ProcessTyped, InHand, Waiting
  <2>3. TransfersPaidFor'
    BY <1>5, <2>2, HeldLemma, SameTransfers DEF Finish, OperatorInv
  <2> QED BY <2>1, <2>3 DEF OperatorInv
<1> QED BY <1>1, <1>2, <1>3, <1>4, <1>5

\* The goroutine that watches a transfer only marks it.
LEMMA WatchLemma ==
    ASSUME OperatorInv, NEW i \in DOMAIN transfers, monitorTransfer(i)
    PROVE  OperatorInv'
<1>0. transfers[i] \in Transfer /\ i \in 1 .. Len(transfers) /\ transfers \in Seq(Transfer)
  BY DEF OperatorInv, ProcessTyped
<1> DEFINE new == [transfers[i] EXCEPT !.watched = FALSE]
<1>1. new \in Transfer /\ new.at = transfers[i].at
  BY <1>0 DEF Transfer
<1>2. transfers' = [transfers EXCEPT ![i] = new]
  BY DEF monitorTransfer
<1> HIDE DEF new
<1>3. transfers' \in Seq(Transfer) /\ Len(transfers') = Len(transfers)
  BY <1>0, <1>1, <1>2, ExceptSeq
<1>4. /\ DOMAIN transfers' = DOMAIN transfers /\ transfers # << >>
      /\ \A j \in DOMAIN transfers : transfers'[j].at = transfers[j].at
  BY <1>0, <1>1, <1>2
<1>5. UNCHANGED <<main, config, open, conns, chains, worker, ticks, minute>>
  BY DEF monitorTransfer, clients
<1>6. ProcessTyped'
  BY <1>3, <1>5 DEF OperatorInv, ProcessTyped, Entries
<1>7. StagesInOrder'
  BY <1>5 DEF OperatorInv, StagesInOrder, GroupIdle, Entries, Latest
<1>8. Held' = Held
  BY <1>5, HeldLemma
<1>9. TransfersPaidFor'
  BY <1>3, <1>4, <1>5, <1>8 DEF OperatorInv, TransfersPaidFor, TransfersArePaced
<1> QED BY <1>6, <1>7, <1>9 DEF OperatorInv

\* A minute passes: whatever the rebalancer has in hand, its ticker holds one
\* tick afterwards, the one for the minute that has begun.
LEMMA MinuteLemma ==
    ASSUME OperatorInv, Minute
    PROVE  OperatorInv'
<1>0. /\ UNCHANGED <<main, config, open, conns, chains, worker, transfers>>
      /\ minute' = minute + 1 /\ ticks' \subseteq Workers
  BY DEF Minute, clients
<1>1. ProcessTyped'
  BY <1>0 DEF OperatorInv, ProcessTyped, Entries
<1>2. StagesInOrder'
  BY <1>0 DEF OperatorInv, StagesInOrder, GroupIdle, Entries, Latest
<1>3. InHand' = InHand
  BY <1>0 DEF InHand
<1>4. Held' <= Held + 1 /\ Held' \in Nat /\ Held \in Nat
  BY <1>3 DEF Held
<1>5. /\ minute \in Nat /\ Len(transfers) \in Nat /\ DOMAIN transfers \subseteq Nat
      /\ \A i \in DOMAIN transfers : transfers[i].at \in Nat
  BY TransferNumbers DEF OperatorInv
<1>6. TransfersArePaced'
  BY <1>0 DEF OperatorInv, TransfersPaidFor, TransfersArePaced
<1>7. Len(transfers) + Held' <= minute'
  BY <1>0, <1>4, <1>5 DEF OperatorInv, TransfersPaidFor
<1>8. \A i \in DOMAIN transfers : transfers[i].at + (Len(transfers) - i) + Held' <= minute' + 1
  BY <1>0, <1>4, <1>5 DEF OperatorInv, TransfersPaidFor
<1>9. TransfersPaidFor'
  BY <1>0, <1>6, <1>7, <1>8 DEF TransfersPaidFor
<1> QED BY <1>1, <1>2, <1>9 DEF OperatorInv

\* Every step preserves the invariant.
LEMMA OperatorNextLemma == OperatorInv /\ [OperatorNext]_operatorVars => OperatorInv'
<1> SUFFICES ASSUME OperatorInv, [OperatorNext]_operatorVars PROVE OperatorInv'
  OBVIOUS
<1>1. CASE MainStep
  BY <1>1, SetupLemma, RunLemma, CloseLemma DEF MainStep
<1>2. CASE Signal \/ Stop \/ StopReturns
  BY <1>2, RunLemma
<1>3. CASE Tasks \/ \E w \in Workers : Work(w) \/ Finish(w)
  BY <1>3, WorkLemma DEF Tasks, Work
<1>4. CASE Minute \/ \E i \in DOMAIN transfers : monitorTransfer(i)
  BY <1>4, MinuteLemma, WatchLemma
<1>5. CASE UNCHANGED operatorVars
  <2>1. TransfersPaidFor'
    BY <1>5, HeldLemma, SameTransfers DEF operatorVars, OperatorInv
  <2> QED
    BY <1>5, <2>1 DEF operatorVars, OperatorInv, ProcessTyped, StagesInOrder, GroupIdle, Entries, Latest
<1> QED
  BY <1>1, <1>2, <1>3, <1>4, <1>5 DEF OperatorNext

\* The invariant holds in every reachable state.
THEOREM OperatorInvariance == OperatorSpec => []OperatorInv
BY OperatorInitLemma, OperatorNextLemma, PTL DEF OperatorSpec

\* The shutdown of Run never closes a client that a goroutine of the operator
\* still uses, and returns when everything is closed but the clients that New
\* pushed out of its map for a later entry with the same id.
THEOREM ClientsTheorem == OperatorSpec => []ClientsOutliveUse
<1>1. OperatorInv => ClientsOutliveUse
  <2> SUFFICES ASSUME OperatorInv PROVE ClientsOutliveUse
    OBVIOUS
  <2>0. Len(config.chains) \in Nat /\ Entries = 1 .. Len(config.chains)
        /\ \A i \in Entries : config.chains[i].id \in Chains
    BY EntriesLemma DEF OperatorInv
  <2>1. ASSUME NEW w \in Workers, worker[w] \in {"select", "rpc", "submit"}
        PROVE  "database" \in open /\ \A c \in Known : chains[c] \in conns
    <3>1. main \in Serving
      BY <2>1, WorkingLemma
    <3>2. "database" \in open /\ conns = Entries /\ Latest(Len(config.chains))
      BY <3>1 DEF OperatorInv, StagesInOrder, Serving, Preparing
    <3> QED BY <2>0, <3>2 DEF Latest, Known
  <2>2. ASSUME main = "returned", NEW i \in conns
        PROVE  \E j \in DOMAIN config.chains :
                   j > i /\ config.chains[j].id = config.chains[i].id
    <3> DEFINE c == config.chains[i].id
    <3>1. i \in 1 .. Len(config.chains) /\ c \in Chains
      BY <2>0, <2>2 DEF OperatorInv, ProcessTyped
    <3>2. Latest(Len(config.chains)) /\ chains[c] \notin conns
      BY <2>2, <3>1 DEF OperatorInv, StagesInOrder, Preparing
    <3>3. i <= chains[c] /\ chains[c] # i
      BY <2>2, <3>1, <3>2 DEF Latest
    <3>4. chains[c] \in 0 .. Len(config.chains) /\ (chains[c] # 0 => config.chains[chains[c]].id = c)
      BY <3>1, <3>2 DEF Latest
    <3>5. /\ chains[c] \in DOMAIN config.chains /\ chains[c] > i
          /\ config.chains[chains[c]].id = c
      BY <2>0, <3>1, <3>3, <3>4 DEF Entries
    <3> QED BY <3>5
  <2>3. main = "returned" => open = {} /\ GroupIdle
    BY DEF OperatorInv, StagesInOrder
  <2> QED
    BY <2>1, <2>2, <2>3 DEF ClientsOutliveUse
<1> QED BY <1>1, OperatorInvariance, PTL

\* rebalancingRoutine starts its i-th transfer in the i-th minute at the
\* earliest and, however late its ticks are, k + 1 transfers within k minutes at
\* most; and none without the source chain.
THEOREM TransferTheorem == OperatorSpec => []TransfersArePaced
<1>1. OperatorInv => TransfersArePaced
  BY DEF OperatorInv, TransfersPaidFor
<1> QED BY <1>1, OperatorInvariance, PTL

-----------------------------------------------------------------------------
(* The monitor *)

Ids           == {NoId} \cup (AlertTypes \X Nat \X Nanos)
RecorderState == [at : {"idle", "write", "stamp", "alert", "build", "store"},
                  counter : Counters, read : Nat, time : Nat, id : Ids]

MonitorTyped ==
    /\ now \in Nat
    /\ recorder \in [Recorders -> RecorderState]
    /\ prometheus \in [Counters -> Nat]
    /\ tracker \in [Counters -> Nat]
    /\ lastUpdate \in Nat \cup {Never}
    /\ direct \in Nat /\ repeated \in Nat

\* A field never runs ahead of its Prometheus counter, nor does what a recorder
\* has read of it and is about to write back, plus one.
ReadsCovered ==
    /\ \A k \in Counters : tracker[k] <= prometheus[k]
    /\ \A r \in Recorders :
           recorder[r].at = "write" => recorder[r].read + 1 <= prometheus[recorder[r].counter]

\* A time is stored, or about to be, only for an update that was counted.
StampsCounted ==
    /\ \A r \in Recorders : recorder[r].at = "stamp" => prometheus["StateUpdates"] > 0
    /\ lastUpdate # Never => prometheus["StateUpdates"] > 0

\* The accounting of the alerts, between sets that stay finite.
AlertsCounted == IsFiniteSet(Named) /\ IsFiniteSet(Unnamed) /\ AlertsAccountedFor

MonitorInv == MonitorTyped /\ ReadsCovered /\ StampsCounted /\ AlertsCounted

-----------------------------------------------------------------------------

\* The state of a recorder that has nothing to do.
LEMMA IdleLemma ==
    Idle \in RecorderState /\ Idle.at = "idle" /\ Idle.read = 0 /\ Idle.counter = "StateUpdates"
BY DEF Idle, NoId, Ids, RecorderState, Counters

\* Before anything is constructed the invariant holds.
LEMMA MonitorInitLemma == Init => MonitorInv
<1> SUFFICES ASSUME Init PROVE MonitorInv
  OBVIOUS
<1>1. /\ recorder = [r \in Recorders |-> Idle]
      /\ DOMAIN alerts = {}
      /\ prometheus = [k \in Counters |-> 0] /\ direct = 0 /\ repeated = 0
  BY DEF Init
<1>2. MonitorTyped
  BY <1>1, IdleLemma DEF Init, MonitorTyped
<1>3. ReadsCovered /\ StampsCounted
  BY <1>1, IdleLemma DEF Init, ReadsCovered, StampsCounted
<1>4. Named = {} /\ Unnamed = {}
  BY <1>1, IdleLemma DEF Named, InFlight, Unnamed
<1>5. Called = 0
  BY <1>1 DEF Called, Counters
<1>6. AlertsCounted
  BY <1>1, <1>4, <1>5, FS_EmptySet DEF AlertsCounted, AlertsAccountedFor
<1> QED BY <1>2, <1>3, <1>6 DEF MonitorInv

\* A step after which the same alerts are named, unnamed and called for.
LEMMA SameAlerts ==
    ASSUME MonitorInv, Named' = Named, Unnamed' = Unnamed, Called' = Called, repeated' = repeated
    PROVE  AlertsCounted'
BY DEF MonitorInv, AlertsCounted, AlertsAccountedFor

\* A call: one more alert that has no id yet.
LEMMA OneMoreCall ==
    ASSUME MonitorInv, NEW r, r \notin Unnamed, Unnamed' = Unnamed \cup {r}, Named' = Named,
           Called' = Called + 1, repeated' = repeated
    PROVE  AlertsCounted'
<1>1. /\ IsFiniteSet(Unnamed') /\ Cardinality(Unnamed') = Cardinality(Unnamed) + 1
      /\ Cardinality(Unnamed) \in Nat /\ Cardinality(Named) \in Nat
  BY FS_AddElement, FS_CardinalityType DEF MonitorInv, AlertsCounted
<1>2. repeated \in Nat /\ Called = Cardinality(Named) + repeated + Cardinality(Unnamed)
  BY DEF MonitorInv, MonitorTyped, AlertsCounted, AlertsAccountedFor
<1>3. Called' = Cardinality(Named') + repeated' + Cardinality(Unnamed')
  BY <1>1, <1>2
<1> QED BY <1>1, <1>3 DEF MonitorInv, AlertsCounted, AlertsAccountedFor

\* The sets of the accounting depend on the recorders and on the map's keys.
LEMMA QuietLemma ==
    ASSUME MonitorInv, UNCHANGED <<recorder, prometheus, tracker, lastUpdate, direct, repeated>>,
           DOMAIN alerts' = DOMAIN alerts, now' \in Nat
    PROVE  MonitorInv'
<1>1. MonitorTyped' /\ ReadsCovered' /\ StampsCounted'
  BY DEF MonitorInv, MonitorTyped, ReadsCovered, StampsCounted
<1>2. Named' = Named /\ Unnamed' = Unnamed /\ Called' = Called
  BY DEF Named, InFlight, Unnamed, Called
<1>3. AlertsCounted'
  BY <1>2, SameAlerts
<1> QED BY <1>1, <1>3 DEF MonitorInv

\* The constructors, the context, the clock, the alerts' own calls and the
\* start of a reset.
LEMMA HousekeepingLemma ==
    ASSUME MonitorInv,
           \/ NewMonitor \/ NewMetrics
           \/ Start \/ Cancel \/ Tick \/ processExpiredAlerts \/ calculatePerformanceMetrics
           \/ \E id \in DOMAIN alerts : ResolveAlert(id)
           \/ UNCHANGED vars
    PROVE  MonitorInv'
<1>1. /\ UNCHANGED <<recorder, prometheus, tracker, lastUpdate, direct, repeated>>
      /\ now' \in {now, now + 1}
      /\ DOMAIN alerts' = DOMAIN alerts
  BY DEF NewMonitor, NewMetrics, Start, Cancel, Tick, processExpiredAlerts,
     calculatePerformanceMetrics, ResolveAlert, vars, process, counts, history
<1>2. now' \in Nat
  BY <1>1 DEF MonitorInv, MonitorTyped
<1> QED BY <1>1, <1>2, QuietLemma

\* A Record call: the Prometheus counter is raised first, so that it covers the
\* value that is read.
LEMMA RecordLemma ==
    ASSUME MonitorInv, NEW r \in Recorders, NEW k \in Counters, Record(r, k)
    PROVE  MonitorInv'
<1> DEFINE new == [Idle EXCEPT !.at = "write", !.counter = k, !.read = tracker[k]]
<1>0. /\ recorder' = [recorder EXCEPT ![r] = new]
      /\ recorder[r].at = "idle"
      /\ prometheus' = [prometheus EXCEPT ![k] = @ + 1]
      /\ UNCHANGED <<now, tracker, lastUpdate, alerts, direct, repeated>>
  BY DEF Record, process, history
<1>1. new \in RecorderState /\ new.at = "write" /\ new.counter = k /\ new.read = tracker[k]
  BY DEF Idle, NoId, Ids, RecorderState, MonitorInv, MonitorTyped
<1> HIDE DEF new
<1>2. /\ recorder' \in [Recorders -> RecorderState]
      /\ recorder'[r] = new
      /\ \A q \in Recorders : q # r => recorder'[q] = recorder[q]
  BY <1>0, <1>1 DEF MonitorInv, MonitorTyped
<1>3. /\ prometheus' \in [Counters -> Nat]
      /\ prometheus'[k] = prometheus[k] + 1
      /\ \A j \in Counters : j # k => prometheus'[j] = prometheus[j]
      /\ \A j \in Counters : prometheus[j] <= prometheus'[j]
  BY <1>0 DEF MonitorInv, MonitorTyped
<1>4. MonitorTyped'
  BY <1>0, <1>2, <1>3 DEF MonitorInv, MonitorTyped
<1>6. ReadsCovered'
  <2>1. \A j \in Counters : tracker[j] \in Nat /\ prometheus[j] \in Nat /\ prometheus'[j] \in Nat
    BY <1>3 DEF MonitorInv, MonitorTyped
  <2>2. \A j \in Counters : tracker'[j] <= prometheus'[j]
    BY <1>0, <1>3, <2>1 DEF MonitorInv, ReadsCovered
  <2>3. ASSUME NEW q \in Recorders, recorder'[q].at = "write"
        PROVE  recorder'[q].read + 1 <= prometheus'[recorder'[q].counter]
    <3>1. CASE q = r
      BY <1>1, <1>2, <1>3, <2>1, <3>1 DEF MonitorInv, ReadsCovered
    <3>2. CASE q # r
      <4>1. recorder[q].counter \in Counters /\ recorder[q].read \in Nat
        BY DEF MonitorInv, MonitorTyped, RecorderState
      <4> QED
        BY <1>2, <1>3, <2>1, <2>3, <3>2, <4>1 DEF MonitorInv, ReadsCovered
    <3> QED BY <3>1, <3>2
  <2> QED BY <2>2, <2>3 DEF ReadsCovered
<1>7. StampsCounted'
  <2>1. "StateUpdates" \in Counters
    BY DEF Counters
  <2>2. prometheus["StateUpdates"] > 0 => prometheus'["StateUpdates"] > 0
    BY <1>3, <2>1 DEF MonitorInv, MonitorTyped
  <2>3. \A q \in Recorders : recorder'[q].at = "stamp" => recorder[q].at = "stamp"
    BY <1>1, <1>2
  <2> QED BY <1>0, <2>2, <2>3 DEF MonitorInv, StampsCounted
<1>8. AlertsCounted'
  <2>1. InFlight' = InFlight
    BY <1>0, <1>1, <1>2 DEF InFlight
  <2>2. Named' = Named
    BY <1>0, <2>1 DEF Named
  <2>3. CASE k = "FailedOps"
    <3>1. r \notin Unnamed /\ Unnamed' = Unnamed \cup {r}
      BY <1>0, <1>1, <1>2, <2>3 DEF Unnamed
    <3>2. Called' = Called + 1
      BY <1>0, <1>3, <2>3 DEF Called, MonitorInv, MonitorTyped
    <3> QED BY <1>0, <2>2, <3>1, <3>2, OneMoreCall
  <2>4. CASE k # "FailedOps"
    <3>1. Unnamed' = Unnamed
      BY <1>0, <1>1, <1>2, <2>4 DEF Unnamed
    <3>2. Called' = Called
      BY <1>0, <1>3, <2>4 DEF Called, Counters
    <3> QED BY <1>0, <2>2, <3>1, <3>2, SameAlerts
  <2> QED BY <2>3, <2>4
<1> QED BY <1>4, <1>6, <1>7, <1>8 DEF MonitorInv

\* What Write makes of its recorder.
LEMMA WriteEffect ==
    ASSUME MonitorInv, NEW r \in Recorders, Write(r)
    PROVE  /\ recorder' \in [Recorders -> RecorderState]
           /\ \A q \in Recorders : q # r => recorder'[q] = recorder[q]
           /\ recorder'[r].at \in {"idle", "stamp", "alert"}
           /\ recorder'[r].at = "stamp" <=> recorder[r].counter = "StateUpdates"
           /\ recorder'[r].at = "alert" <=> recorder[r].counter = "FailedOps"
<1>0. recorder[r] \in RecorderState /\ recorder \in [Recorders -> RecorderState] /\ now \in Nat
  BY DEF MonitorInv, MonitorTyped
<1>1. CASE recorder[r].counter = "StateUpdates"
  <2> DEFINE new == [Idle EXCEPT !.at = "stamp", !.time = now]
  <2>1. recorder' = [recorder EXCEPT ![r] = new]
    BY <1>1 DEF Write, AfterCount
  <2>2. new \in RecorderState /\ new.at = "stamp"
    BY <1>0 DEF Idle, NoId, Ids, RecorderState, Counters
  <2> HIDE DEF new
  <2> QED BY <1>0, <1>1, <2>1, <2>2
<1>2. CASE recorder[r].counter = "FailedOps"
  <2> DEFINE new == [Idle EXCEPT !.at = "alert", !.counter = "FailedOps"]
  <2>1. recorder' = [recorder EXCEPT ![r] = new]
    BY <1>2 DEF Write, AfterCount
  <2>2. new \in RecorderState /\ new.at = "alert"
    BY <1>0 DEF Idle, NoId, Ids, RecorderState, Counters
  <2> HIDE DEF new
  <2> QED BY <1>0, <1>2, <2>1, <2>2
<1>3. CASE recorder[r].counter \notin {"StateUpdates", "FailedOps"}
  <2>1. recorder' = [recorder EXCEPT ![r] = Idle]
    BY <1>3 DEF Write, AfterCount
  <2> QED BY <1>0, <1>3, <2>1, IdleLemma
<1> QED BY <1>1, <1>2, <1>3

\* The write of x++: it may undo another recorder's write or a reset, but it
\* stores no more than the Prometheus counter says.
LEMMA WriteLemma ==
    ASSUME MonitorInv, NEW r \in Recorders, Write(r)
    PROVE  MonitorInv'
<1>0. /\ recorder[r].at = "write" /\ recorder[r].counter \in Counters /\ recorder[r].read \in Nat
      /\ tracker' = [tracker EXCEPT ![recorder[r].counter] = recorder[r].read + 1]
      /\ UNCHANGED <<now, prometheus, lastUpdate, alerts, direct, repeated>>
  BY DEF Write, Counted, process, history, MonitorInv, MonitorTyped, RecorderState
<1>1. /\ recorder' \in [Recorders -> RecorderState]
      /\ \A q \in Recorders : q # r => recorder'[q] = recorder[q]
      /\ recorder'[r].at \in {"idle", "stamp", "alert"}
      /\ recorder'[r].at = "stamp" <=> recorder[r].counter = "StateUpdates"
      /\ recorder'[r].at = "alert" <=> recorder[r].counter = "FailedOps"
  BY WriteEffect
<1>2. recorder[r].read + 1 <= prometheus[recorder[r].counter]
  BY <1>0 DEF MonitorInv, ReadsCovered
<1>3. MonitorTyped'
  BY <1>0, <1>1 DEF MonitorInv, MonitorTyped
<1>4. ReadsCovered'
  <2>1. \A j \in Counters : tracker'[j] <= prometheus'[j]
    BY <1>0, <1>2 DEF MonitorInv, MonitorTyped, ReadsCovered
  <2>2. \A q \in Recorders :
            recorder'[q].at = "write" => recorder'[q].read + 1 <= prometheus'[recorder'[q].counter]
    BY <1>0, <1>1 DEF MonitorInv, ReadsCovered
  <2> QED BY <2>1, <2>2 DEF ReadsCovered
<1>5. StampsCounted'
  <2>1. recorder[r].counter = "StateUpdates" => prometheus["StateUpdates"] > 0
    BY <1>0, <1>2 DEF MonitorInv, MonitorTyped
  <2> QED BY <1>0, <1>1, <2>1 DEF MonitorInv, StampsCounted
<1>6. AlertsCounted'
  <2>1. Unnamed' = Unnamed
    BY <1>0, <1>1 DEF Unnamed
  <2>2. InFlight' = InFlight
    BY <1>0, <1>1 DEF InFlight
  <2>3. Named' = Named /\ Called' = Called
    BY <1>0, <2>2 DEF Named, Called
  <2> QED BY <1>0, <2>1, <2>3, SameAlerts
<1> QED BY <1>3, <1>4, <1>5, <1>6 DEF MonitorInv

\* The end of RecordStateUpdate stores the time it has read, which may be an
\* earlier one than is stored.
LEMMA StampLemma ==
    ASSUME MonitorInv, NEW r \in Recorders, Stamp(r)
    PROVE  MonitorInv'
<1>0. /\ recorder[r].at = "stamp" /\ recorder[r].time \in Nat
      /\ recorder' = [recorder EXCEPT ![r] = Idle]
      /\ lastUpdate' = recorder[r].time
      /\ UNCHANGED <<now, prometheus, tracker, alerts, direct, repeated>>
  BY DEF Stamp, process, history, MonitorInv, MonitorTyped, RecorderState
<1>2. /\ recorder' \in [Recorders -> RecorderState]
      /\ recorder'[r].at = "idle"
      /\ \A q \in Recorders : q # r => recorder'[q] = recorder[q]
  BY <1>0, IdleLemma DEF MonitorInv, MonitorTyped
<1>3. MonitorTyped'
  BY <1>0, <1>2 DEF MonitorInv, MonitorTyped
<1>4. ReadsCovered'
  BY <1>0, <1>2 DEF MonitorInv, ReadsCovered
<1>5. StampsCounted'
  BY <1>0, <1>2 DEF MonitorInv, StampsCounted
<1>6. AlertsCounted'
  <2>1. Unnamed' = Unnamed
    BY <1>0, <1>2 DEF Unnamed
  <2>2. InFlight' = InFlight
    BY <1>0, <1>2 DEF InFlight
  <2>3. Named' = Named /\ Called' = Called
    BY <1>0, <2>2 DEF Named, Called
  <2> QED BY <1>0, <2>1, <2>3, SameAlerts
<1> QED BY <1>3, <1>4, <1>5, <1>6 DEF MonitorInv

\* A step of CreateAlert changes its recorder and no counter.
LEMMA AlertStep ==
    ASSUME MonitorInv, NEW r \in Recorders, NEW new \in RecorderState,
           new.at \notin {"write", "stamp"}, recorder' = [recorder EXCEPT ![r] = new],
           UNCHANGED <<now, prometheus, tracker, lastUpdate>>, direct' \in Nat, repeated' \in Nat
    PROVE  /\ MonitorTyped' /\ ReadsCovered' /\ StampsCounted'
           /\ recorder'[r] = new
           /\ \A q \in Recorders : q # r => recorder'[q] = recorder[q]
<1>1. /\ recorder' \in [Recorders -> RecorderState]
      /\ recorder'[r] = new
      /\ \A q \in Recorders : q # r => recorder'[q] = recorder[q]
  BY DEF MonitorInv, MonitorTyped
<1>2. MonitorTyped'
  BY <1>1 DEF MonitorInv, MonitorTyped
<1>3. ReadsCovered'
  BY <1>1 DEF MonitorInv, ReadsCovered
<1>4. StampsCounted'
  BY <1>1 DEF MonitorInv, StampsCounted
<1> QED BY <1>1, <1>2, <1>3, <1>4

\* Other code calls CreateAlert.
LEMMA CallLemma ==
    ASSUME MonitorInv, NEW r \in Recorders, CallCreateAlert(r)
    PROVE  MonitorInv'
<1> DEFINE new == [Idle EXCEPT !.at = "alert"]
<1>0. /\ recorder[r].at = "idle" /\ recorder' = [recorder EXCEPT ![r] = new]
      /\ direct' = direct + 1
      /\ UNCHANGED <<now, prometheus, tracker, lastUpdate, alerts, repeated>>
  BY DEF CallCreateAlert, process, counts
<1>1. new \in RecorderState /\ new.at = "alert"
  BY DEF Idle, NoId, Ids, RecorderState, Counters
<1> HIDE DEF new
<1>2. direct' \in Nat /\ repeated' \in Nat /\ direct \in Nat /\ prometheus["FailedOps"] \in Nat
  BY <1>0 DEF MonitorInv, MonitorTyped, Counters
<1>3. /\ MonitorTyped' /\ ReadsCovered' /\ StampsCounted'
      /\ recorder'[r] = new
      /\ \A q \in Recorders : q # r => recorder'[q] = recorder[q]
  BY <1>0, <1>1, <1>2, AlertStep
<1>4. r \notin Unnamed /\ Unnamed' = Unnamed \cup {r}
  BY <1>0, <1>1, <1>3 DEF Unnamed
<1>5. InFlight' = InFlight
  BY <1>0, <1>1, <1>3 DEF InFlight
<1>6. Named' = Named /\ Called' = Called + 1
  BY <1>0, <1>2, <1>5 DEF Named, Called
<1>7. AlertsCounted'
  BY <1>0, <1>4, <1>6, OneMoreCall
<1> QED BY <1>3, <1>7 DEF MonitorInv

\* The id is read: a new one is one more that is named, an old one is a
\* repetition.
LEMMA TakeLemma ==
    ASSUME MonitorInv, NEW r \in Recorders, NEW type \in AlertTypes, NEW n \in Nanos,
           TakeAlertId(r, type, n)
    PROVE  MonitorInv'
<1> DEFINE id  == AlertId(type, n)
           new == [recorder[r] EXCEPT !.at = "build", !.id = id]
<1>0. /\ recorder[r].at = "alert" /\ recorder' = [recorder EXCEPT ![r] = new]
      /\ repeated' = IF id \in Named THEN repeated + 1 ELSE repeated
      /\ UNCHANGED <<now, prometheus, tracker, lastUpdate, alerts, direct>>
  BY DEF TakeAlertId, process, counts, MonitorInv, MonitorTyped
<1>1. id \in Ids
  BY DEF AlertId, Ids, MonitorInv, MonitorTyped
<1> HIDE DEF id
<1>2. new \in RecorderState /\ new.at = "build" /\ new.id = id
  BY <1>1 DEF RecorderState, MonitorInv, MonitorTyped
<1> HIDE DEF new
<1>3. direct' \in Nat /\ repeated' \in Nat /\ repeated \in Nat
  BY <1>0 DEF MonitorInv, MonitorTyped
<1>4. /\ MonitorTyped' /\ ReadsCovered' /\ StampsCounted'
      /\ recorder'[r] = new
      /\ \A q \in Recorders : q # r => recorder'[q] = recorder[q]
  BY <1>0, <1>2, <1>3, AlertStep
<1>5. r \in Unnamed /\ Unnamed' = Unnamed \ {r}
  BY <1>0, <1>2, <1>4 DEF Unnamed
<1>6. Named' = Named \cup {id}
  <2>1. InFlight' = InFlight \cup {id}
    BY <1>0, <1>2, <1>4 DEF InFlight
  <2> QED BY <1>0, <2>1 DEF Named
<1>7. IsFiniteSet(Named) /\ IsFiniteSet(Unnamed)
  BY DEF MonitorInv, AlertsCounted
<1>8. /\ IsFiniteSet(Named') /\ IsFiniteSet(Unnamed')
      /\ Cardinality(Unnamed') = Cardinality(Unnamed) - 1
      /\ Cardinality(Named') = IF id \in Named THEN Cardinality(Named) ELSE Cardinality(Named) + 1
      /\ Cardinality(Unnamed) \in Nat /\ Cardinality(Named) \in Nat
  BY <1>5, <1>6, <1>7, FS_AddElement, FS_RemoveElement, FS_CardinalityType
<1>9. Called' = Called /\ Called = Cardinality(Named) + repeated + Cardinality(Unnamed)
  BY <1>0 DEF Called, MonitorInv, AlertsCounted, AlertsAccountedFor
<1>10. Called' = Cardinality(Named') + repeated' + Cardinality(Unnamed')
  BY <1>0, <1>3, <1>8, <1>9
<1>11. AlertsCounted'
  BY <1>8, <1>10 DEF AlertsCounted, AlertsAccountedFor
<1> QED BY <1>4, <1>11 DEF MonitorInv

\* The Timestamp is read.
LEMMA BuildLemma ==
    ASSUME MonitorInv, NEW r \in Recorders, BuildAlert(r)
    PROVE  MonitorInv'
<1> DEFINE new == [recorder[r] EXCEPT !.at = "store", !.time = now]
<1>0. /\ recorder[r].at = "build" /\ recorder' = [recorder EXCEPT ![r] = new]
      /\ UNCHANGED <<now, prometheus, tracker, lastUpdate, alerts, direct, repeated>>
  BY DEF BuildAlert, process, counts, history, MonitorInv, MonitorTyped
<1>1. new \in RecorderState /\ new.at = "store" /\ new.id = recorder[r].id
  BY DEF RecorderState, MonitorInv, MonitorTyped
<1> HIDE DEF new
<1>2. direct' \in Nat /\ repeated' \in Nat
  BY <1>0 DEF MonitorInv, MonitorTyped
<1>3. /\ MonitorTyped' /\ ReadsCovered' /\ StampsCounted'
      /\ recorder'[r] = new
      /\ \A q \in Recorders : q # r => recorder'[q] = recorder[q]
  BY <1>0, <1>1, <1>2, AlertStep
<1>4. Unnamed' = Unnamed
  BY <1>0, <1>1, <1>3 DEF Unnamed
<1>5. InFlight' = InFlight
  BY <1>0, <1>1, <1>3 DEF InFlight
<1>6. Named' = Named /\ Called' = Called
  BY <1>0, <1>5 DEF Named, Called
<1>7. AlertsCounted'
  BY <1>0, <1>4, <1>6, SameAlerts
<1> QED BY <1>3, <1>7 DEF MonitorInv

\* The alert is stored: its id moves from the recorder to the map.
LEMMA StoreLemma ==
    ASSUME MonitorInv, NEW r \in Recorders, StoreAlert(r)
    PROVE  MonitorInv'
<1>0. /\ recorder[r].at = "store" /\ recorder' = [recorder EXCEPT ![r] = Idle]
      /\ DOMAIN alerts' = DOMAIN alerts \cup {recorder[r].id}
      /\ UNCHANGED <<now, prometheus, tracker, lastUpdate, direct, repeated>>
  BY DEF StoreAlert, process, counts, history
<1>1. direct' \in Nat /\ repeated' \in Nat
  BY <1>0 DEF MonitorInv, MonitorTyped
<1>2. /\ MonitorTyped' /\ ReadsCovered' /\ StampsCounted'
      /\ recorder'[r] = Idle
      /\ \A q \in Recorders : q # r => recorder'[q] = recorder[q]
  BY <1>0, <1>1, IdleLemma, AlertStep
<1>3. Unnamed' = Unnamed
  BY <1>0, <1>2, IdleLemma DEF Unnamed
<1>4. InFlight = InFlight' \cup {recorder[r].id}
  BY <1>0, <1>2, IdleLemma DEF InFlight
<1>5. Named' = Named
  BY <1>0, <1>4 DEF Named
<1>6. Called' = Called
  BY <1>0 DEF Called
<1>7. AlertsCounted'
  BY <1>0, <1>3, <1>5, <1>6, SameAlerts
<1> QED BY <1>2, <1>7 DEF MonitorInv

\* A reset of a field lowers it.
LEMMA ResetLemma ==
    ASSUME MonitorInv, ResetCounter
    PROVE  MonitorInv'
<1>0. /\ tracker' = [tracker EXCEPT ![ResetOrder[resetting]] = 0]
      /\ UNCHANGED <<now, recorder, prometheus, lastUpdate, alerts, direct, repeated>>
  BY DEF ResetCounter, process, history
<1>1. MonitorTyped'
  BY <1>0 DEF MonitorInv, MonitorTyped
<1>2. \A k \in Counters : tracker'[k] \in {0, tracker[k]} /\ prometheus[k] \in Nat
  BY <1>0 DEF MonitorInv, MonitorTyped
<1>3. ReadsCovered' /\ StampsCounted'
  BY <1>0, <1>2 DEF MonitorInv, ReadsCovered, StampsCounted
<1>4. Named' = Named /\ Unnamed' = Unnamed /\ Called' = Called
  BY <1>0 DEF Named, InFlight, Unnamed, Called
<1>5. AlertsCounted'
  BY <1>0, <1>4, SameAlerts
<1> QED BY <1>1, <1>3, <1>5 DEF MonitorInv

\* Every step preserves the invariant.
LEMMA MonitorNextLemma == MonitorInv /\ [Next]_vars => MonitorInv'
<1> SUFFICES ASSUME MonitorInv, [Next]_vars PROVE MonitorInv'
  OBVIOUS
<1>1. CASE \/ NewMonitor \/ NewMetrics
           \/ Start \/ Cancel \/ Tick \/ processExpiredAlerts \/ calculatePerformanceMetrics
           \/ \E id \in DOMAIN alerts : ResolveAlert(id)
           \/ UNCHANGED vars
  BY <1>1, HousekeepingLemma
<1>2. ASSUME NEW r \in Recorders, RecorderStep(r)
      PROVE  MonitorInv'
  BY <1>2, WriteLemma, StampLemma, TakeLemma, BuildLemma, StoreLemma DEF RecorderStep
<1>3. ASSUME NEW r \in Recorders, CallCreateAlert(r) \/ \E k \in Counters : Record(r, k)
      PROVE  MonitorInv'
  BY <1>3, CallLemma, RecordLemma
<1>4. CASE ResetCounter
  BY <1>4, ResetLemma
<1> QED
  BY <1>1, <1>2, <1>3, <1>4 DEF Next

\* The invariant holds in every reachable state.
THEOREM MonitorInvariance == Spec => []MonitorInv
BY MonitorInitLemma, MonitorNextLemma, PTL DEF Spec

\* However the Record functions and the resets of the performance goroutine
\* interleave, no field of the tracker exceeds its Prometheus counter, and
\* HealthCheck says "healthy" only after an update.
THEOREM NothingInventedTheorem == Spec => []NothingInvented
<1>1. MonitorInv => NothingInvented
  <2> SUFFICES ASSUME MonitorInv PROVE NothingInvented
    OBVIOUS
  <2>1. lastUpdate = Never => Unhealthy
    BY MonitorAssumption DEF MonitorInv, MonitorTyped, Unhealthy
  <2> QED
    BY <2>1 DEF NothingInvented, MonitorInv, ReadsCovered, StampsCounted
<1> QED BY <1>1, MonitorInvariance, PTL

\* Every alert of RecordRebalancingFailure and of other callers of CreateAlert
\* is in the map or about to be, except one for each reading of the clock that
\* repeated the id of another.
THEOREM AlertsTheorem == Spec => []AlertsAccountedFor
<1>1. MonitorInv => AlertsAccountedFor
  BY DEF MonitorInv, AlertsCounted
<1> QED BY <1>1, MonitorInvariance, PTL

=============================================================================
