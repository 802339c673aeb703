-------------------------------- MODULE Lifecycle --------------------------------
(* Node.Start, Node.Stop and the goroutines they leave behind, for one node     *)
(* that is started and stopped by several callers: its peer server, its ops     *)
(* probe server and the shutdowns that wait for the contexts of the starts.     *)
EXTENDS Integers, FiniteSets

CONSTANTS
  Starts,      \* calls of Start, each with a context of its own
  Stops        \* calls of Stop by the owner of the node

VARIABLES
  running,     \* n.running
  server,      \* n.server: the start that created it, or None
  opsServer,   \* n.opsServer, likewise
  listening,   \* peer servers that hold the listen address
  opsListening,
  healthCancel, \* n.healthCancel: the start whose health loop it cancels, or None
  probing,     \* starts whose health loop runs
  start,       \* where a call of Start is
  stop,        \* where a call of Stop is, or the Stop of the goroutine of a start
  cancelled    \* starts whose context is done

lifecycleVars == << running, server, opsServer, listening, opsListening, healthCancel,
                    probing, start, stop, cancelled >>
healthVars == << healthCancel, probing >>

None == "none"
Stoppers == Stops \cup Starts
NotStopping == [pc |-> "idle", server |-> None, ops |-> None]
at(s, pc) == start' = [start EXCEPT ![s] = pc]

--------------------------------------------------------------------------------
\* Start up to the first unlock: a node that runs already is left alone.
StartAgain(s) ==
  /\ start[s] = "new"
  /\ running
  /\ at(s, "refused")
  /\ UNCHANGED << running, server, opsServer, listening, opsListening, stop, cancelled, healthVars >>

Listen(s) ==
  /\ start[s] = "new"
  /\ ~running
  /\ listening = {}
  /\ listening' = {s}
  /\ server' = s
  /\ running' = TRUE
  /\ at(s, "serving")
  /\ UNCHANGED << opsServer, opsListening, stop, cancelled, healthVars >>

\* net.Listen fails: the address is still taken.
ListenFails(s) ==
  /\ start[s] = "new"
  /\ ~running
  /\ listening # {}
  /\ at(s, "refused")
  /\ UNCHANGED << running, server, opsServer, listening, opsListening, stop, cancelled, healthVars >>

\* startOpsServer.
ListenOps(s) ==
  /\ start[s] = "serving"
  /\ opsListening = {}
  /\ opsListening' = {s}
  /\ at(s, "ops")
  /\ UNCHANGED << running, server, opsServer, listening, stop, cancelled, healthVars >>

SetOps(s) ==
  /\ start[s] = "ops"
  /\ opsServer' = s
  /\ at(s, "started")
  /\ UNCHANGED << running, server, listening, opsListening, stop, cancelled, healthVars >>

\* startOpsServer fails: Start shuts its own server down, and then takes the node
\* back only if the server is still the node's.
ListenOpsFails(s) ==
  /\ start[s] = "serving"
  /\ opsListening # {}
  /\ listening' = listening \ {s}
  /\ at(s, "failing")
  /\ UNCHANGED << running, server, opsServer, opsListening, stop, cancelled, healthVars >>

StartFails_AnyServer(s) ==
  /\ start[s] = "failing"
  /\ server' = None
  /\ running' = FALSE
  /\ at(s, "returned")
  /\ UNCHANGED << opsServer, listening, opsListening, stop, cancelled, healthVars >>

StartFails(s) ==
  /\ start[s] = "failing"
  /\ server' = IF server = s THEN None ELSE server
  /\ running' = (running /\ server # s)
  /\ at(s, "returned")
  /\ UNCHANGED << opsServer, listening, opsListening, stop, cancelled, healthVars >>

\* Start ends with the health loop, on a context of its own.
StartHealthLoop(s) ==
  /\ start[s] = "started"
  /\ healthCancel' = s
  /\ probing' = probing \cup {s}
  /\ at(s, "returned")
  /\ UNCHANGED << running, server, opsServer, listening, opsListening, stop, cancelled >>

--------------------------------------------------------------------------------
\* The context of a start is done.
Cancel(s) ==
  /\ s \notin cancelled
  /\ start[s] # "new"
  /\ cancelled' = cancelled \cup {s}
  /\ UNCHANGED << running, server, opsServer, listening, opsListening, start, stop, healthVars >>

\* Stop up to its unlock, called by the owner or by the goroutine that Start left
\* waiting for its context.
mayStop(c) ==
  c \in Starts => c \in cancelled /\ start[c] \notin {"new", "refused"}

Stop(c) ==
  /\ stop[c].pc = "idle"
  /\ mayStop(c)
  /\ IF running
     THEN /\ stop' = [stop EXCEPT ![c] = [pc |-> "ops", server |-> server, ops |-> opsServer]]
          /\ running' = FALSE
          /\ opsServer' = None
          /\ probing' = probing \ {healthCancel}
          /\ healthCancel' = None
     ELSE /\ stop' = [stop EXCEPT ![c].pc = "done"]
          /\ UNCHANGED << running, opsServer, healthVars >>
  /\ UNCHANGED << server, listening, opsListening, start, cancelled >>

\* The two calls of Shutdown, on the servers that Stop has read.
ShutdownOps(c) ==
  /\ stop[c].pc = "ops"
  /\ opsListening' = opsListening \ {stop[c].ops}
  /\ stop' = [stop EXCEPT ![c].pc = "server"]
  /\ UNCHANGED << running, server, opsServer, listening, start, cancelled, healthVars >>

ShutdownServer(c) ==
  /\ stop[c].pc = "server"
  /\ listening' = listening \ {stop[c].server}
  /\ stop' = [stop EXCEPT ![c] = [NotStopping EXCEPT !.pc = "done"]]
  /\ UNCHANGED << running, server, opsServer, opsListening, start, cancelled, healthVars >>

\* The goroutine of startOpsServer that waits for the context.
ShutdownOpsOnCancel(s) ==
  /\ s \in cancelled
  /\ s \in opsListening
  /\ start[s] # "ops"
  /\ opsListening' = opsListening \ {s}
  /\ UNCHANGED << running, server, opsServer, listening, start, stop, cancelled, healthVars >>

\* A listener fails under a server. The peer server's goroutine takes the node out
\* of running if the server is still the node's.
ServeFails(s) ==
  /\ s \in listening
  /\ start[s] \in {"serving", "ops", "started", "returned"}
  /\ listening' = listening \ {s}
  /\ running' = (running /\ server # s)
  /\ UNCHANGED << server, opsServer, opsListening, start, stop, cancelled, healthVars >>

OpsServeFails(s) ==
  /\ s \in opsListening
  /\ start[s] \in {"started", "returned"}
  /\ opsListening' = opsListening \ {s}
  /\ opsServer' = IF opsServer = s THEN None ELSE opsServer
  /\ UNCHANGED << running, server, listening, start, stop, cancelled, healthVars >>

--------------------------------------------------------------------------------
Init ==
  /\ running = FALSE
  /\ server = None
  /\ opsServer = None
  /\ listening = {}
  /\ opsListening = {}
  /\ healthCancel = None
  /\ probing = {}
  /\ start = [s \in Starts |-> "new"]
  /\ stop = [c \in Stoppers |-> NotStopping]
  /\ cancelled = {}

Work ==
  \/ \E s \in Starts : \/ ListenOps(s)
                       \/ SetOps(s)
                       \/ StartHealthLoop(s)
                       \/ ListenOpsFails(s)
                       \/ StartFails(s)
                       \/ ShutdownOpsOnCancel(s)
                       \/ Stop(s)
  \/ \E c \in Stoppers : \/ ShutdownOps(c)
                         \/ ShutdownServer(c)

Next ==
  \/ Work
  \/ \E s \in Starts : \/ StartAgain(s)
                       \/ Listen(s)
                       \/ ListenFails(s)
                       \/ Cancel(s)
                       \/ ServeFails(s)
                       \/ OpsServeFails(s)
  \/ \E c \in Stops : Stop(c)

\* The goroutines run and the shutdowns return.
FairSpec == Init /\ [][Next]_lifecycleVars /\ WF_lifecycleVars(Work)

--------------------------------------------------------------------------------
\* A node whose contexts are all done ends: both addresses are free, whatever
\* starts and stops overlapped.
StopsServing ==
  (\A s \in Starts : start[s] # "new" /\ s \in cancelled)
    ~> listening = {} /\ opsListening = {}
================================================================================
