--------------------------------- MODULE Routing ---------------------------------
(* The private routing testbed: relays hold circuit sessions (routing/relay), a *)
(* runtime builds a three-hop circuit and sends through it (routing/testbed,    *)
(* routing/circuit) on streams of its manager (routing/stream), and a SOCKS5    *)
(* proxy serves clients through a runtime (routing/socks5).  Relays lock each   *)
(* access to their state, but a cell is processed in two of them.  Keys are     *)
(* abstract: a layer key is the extension it was derived for.                   *)
EXTENDS Integers, Sequences, FiniteSets

CONSTANTS
  Relays,
  Runtimes,      \* circuits built by BuildCircuit; each is built at most once
  Path,          \* the three relays of a runtime; equal paths share a circuit ID
  Sends,         \* calls of Runtime.Send, at most one each
  Destinations,
  Allowed,       \* the destinations the exits allow at first
  Policies,      \* the exit policies SetExitPolicy may set: sets of destinations
  MaxEvents      \* bound on teardowns, policy changes and relay stops

\* BuildCircuit refuses a path that does not have exactly three relays.
ASSUME PathAssumption == Path \in [Runtimes -> Relays \X Relays \X Relays]

NoSession == [ext |-> << "none", 0 >>, role |-> "none", forwarded |-> 0]
Roles == << "entry", "middle", "exit" >>
Hops == 1 .. 3
CircuitIDs == {Path[t] : t \in Runtimes}   \* NewCircuitID hashes the path
Extension(t, i) == << t, i >>              \* a fresh KEM ciphertext per hop

VARIABLES
  running, sessions, seenExtensions, exitPolicy, lastDestination,  \* relays
  built,       \* hops of a runtime built so far, 3 when ready, -1 when it failed
  tearing,     \* hops its Teardown has visited, -1 when it was not called
  streams,     \* its stream manager: next id, open ids, closed
  opened, completed,  \* Runtime.Opened and Runtime.Completed
  send,        \* the calls of Send
  wrapped,     \* history: the nonces used, and how many cells were wrapped
  torn,        \* history: circuits torn down at a relay since an extension
  events

relayVars == << running, sessions, seenExtensions, exitPolicy, lastDestination, torn >>
runtimeVars == << built, tearing, streams, opened, completed >>
vars == << relayVars, runtimeVars, send, wrapped, events >>

Event == events < MaxEvents /\ events' = events + 1

\* WrapLayer and UnwrapLayer: the nonce of a layer is a hash of its key and of these
\* values, and only the key of the extension opens what was wrapped with it.
layerNonce(key, stream, type, seq) == [key |-> key, stream |-> stream, type |-> type, seq |-> seq]
UnwrapLayer(session, key) == session.ext = key

\* ExitPolicy.Allows: an empty policy allows nothing.
Allows(x, d) == d \in exitPolicy[x]

--------------------------------------------------------------------------------
\* AcceptExtension: a running relay opens a session once per extension.
AcceptExtension(x, ext, role, c) ==
  /\ running[x]
  /\ ext \notin seenExtensions[x]
  /\ sessions' = [sessions EXCEPT ![x][c] = [ext |-> ext, role |-> role, forwarded |-> 0]]
  /\ seenExtensions' = [seenExtensions EXCEPT ![x] = @ \cup {ext}]
  /\ torn' = [torn EXCEPT ![x] = @ \ {c}]

\* BuildCircuit: one extension per hop.  A hop that refuses ends the build and
\* leaves the sessions of the hops before it.
BuildHop(t) ==
  LET i == built[t] + 1
      x == Path[t][i] IN
  /\ built[t] \in 0 .. 2
  /\ AcceptExtension(x, Extension(t, i), Roles[i], Path[t])
  /\ built' = [built EXCEPT ![t] = i]
  /\ UNCHANGED << running, exitPolicy, lastDestination, tearing, streams, opened,
                  completed, send, wrapped, events >>

BuildFails(t) ==
  /\ built[t] \in 0 .. 2
  /\ ~running[Path[t][built[t] + 1]]
  /\ built' = [built EXCEPT ![t] = -1]
  /\ UNCHANGED << relayVars, tearing, streams, opened, completed, send, wrapped, events >>

\* Runtime.Teardown: Relay.Teardown at the relays of the path in turn ...
StartTeardown(t) ==
  /\ Event
  /\ built[t] = 3
  /\ tearing[t] = -1
  /\ tearing' = [tearing EXCEPT ![t] = 0]
  /\ UNCHANGED << relayVars, built, streams, opened, completed, send, wrapped >>

Teardown(t) ==
  LET x == Path[t][tearing[t] + 1]
      c == Path[t] IN
  /\ tearing[t] \in 0 .. 2
  /\ tearing' = [tearing EXCEPT ![t] = @ + 1]
  /\ sessions' = [sessions EXCEPT ![x][c] = NoSession]
  /\ lastDestination' = [lastDestination EXCEPT ![x] =
       IF \A d \in CircuitIDs \ {c} : sessions[x][d] = NoSession THEN "none" ELSE @]
  /\ torn' = [torn EXCEPT ![x] = @ \cup {c}]
  /\ UNCHANGED << running, seenExtensions, exitPolicy, built, streams, opened, completed,
                  send, wrapped, events >>

\* ... and then CloseAll: no stream is opened any more.
CloseAll(t) ==
  /\ tearing[t] = 3
  /\ ~streams[t].closed
  /\ streams' = [streams EXCEPT ![t].open = {}, ![t].closed = TRUE]
  /\ UNCHANGED << relayVars, built, tearing, opened, completed, send, wrapped,
                  events >>

SetExitPolicy(x, p) ==
  /\ Event
  /\ exitPolicy' = [exitPolicy EXCEPT ![x] = p]
  /\ UNCHANGED << running, sessions, seenExtensions, lastDestination, torn,
                  runtimeVars, send, wrapped >>

Stop(x) ==
  /\ Event
  /\ running[x]
  /\ running' = [running EXCEPT ![x] = FALSE]
  /\ UNCHANGED << sessions, seenExtensions, exitPolicy, lastDestination, torn,
                  runtimeVars, send, wrapped >>

--------------------------------------------------------------------------------
\* ServeConn and Handle: the proxy asks the exit's policy and answers the client
\* before it sends; a client that calls Send itself is not asked.
Exit(t) == Path[t][3]

StartSend(s, t, d) ==
  /\ send[s].pc = "idle"
  /\ built[t] = 3
  /\ send' = [send EXCEPT ![s].pc = "open", ![s].t = t, ![s].dest = d]
  /\ UNCHANGED << relayVars, runtimeVars, wrapped, events >>

ServeConn(s, t, d) ==
  /\ Allows(Exit(t), d)
  /\ StartSend(s, t, d)

\* Stream.Open, and the unsynchronised read of Opened++.
Open_SameID(s) ==
  LET t == send[s].t
      id == streams[t].next IN
  /\ send[s].pc = "open"
  /\ ~streams[t].closed
  /\ streams' = [streams EXCEPT ![t].open = @ \cup {id}]
  /\ send' = [send EXCEPT ![s].pc = "count", ![s].stream = id, ![s].read = opened[t]]
  /\ UNCHANGED << relayVars, built, tearing, opened, completed, wrapped, events >>

Open(s) ==
  LET t == send[s].t
      id == streams[t].next IN
  /\ send[s].pc = "open"
  /\ ~streams[t].closed
  /\ streams' = [streams EXCEPT ![t].next = id + 1, ![t].open = @ \cup {id}]
  /\ send' = [send EXCEPT ![s].pc = "count", ![s].stream = id, ![s].read = opened[t]]
  /\ UNCHANGED << relayVars, built, tearing, opened, completed, wrapped, events >>

\* The deferred Close: every return after Open closes the stream.
closed(s) ==
  streams' = [streams EXCEPT ![send[s].t].open = @ \ {send[s].stream}]

Done(s) ==
  /\ send' = [send EXCEPT ![s].pc = "done"]
  /\ closed(s)

\* The stream manager is closed: Send returns its error.
OpenFails(s) ==
  /\ send[s].pc = "open"
  /\ streams[send[s].t].closed
  /\ send' = [send EXCEPT ![s].pc = "done"]
  /\ UNCHANGED << relayVars, runtimeVars, wrapped, events >>

\* Opened++ writes what it read: concurrent calls may lose an increment.
Count(s) ==
  /\ send[s].pc = "count"
  /\ opened' = [opened EXCEPT ![send[s].t] = send[s].read + 1]
  /\ send' = [send EXCEPT ![s].pc = "wrap"]
  /\ UNCHANGED << relayVars, built, tearing, streams, completed, wrapped, events >>

\* WrapLayers: a layer for every hop, with the current value of Opened.
wrap(s, type) ==
  wrapped' = [nonces |-> wrapped.nonces \cup
                {layerNonce(Extension(send[s].t, i), send[s].stream, type,
                            opened[send[s].t]) : i \in Hops},
              cells |-> wrapped.cells + 3]

\* The context may be done; otherwise the payload is wrapped for the three hops.
Wrap(s) ==
  /\ send[s].pc = "wrap"
  /\ wrap(s, "data")
  /\ send' = [send EXCEPT ![s].pc = "copy", ![s].hop = 1]
  /\ UNCHANGED << relayVars, runtimeVars, events >>

Cancelled(s) ==
  /\ send[s].pc = "wrap"
  /\ Done(s)
  /\ UNCHANGED << relayVars, built, tearing, opened, completed, wrapped, events >>

\* ProcessCell copies the session under the lock ...
ProcessCellCopy(s) ==
  LET x == Path[send[s].t][send[s].hop]
      c == Path[send[s].t] IN
  /\ send[s].pc = "copy"
  /\ sessions[x][c] # NoSession
  /\ send' = [send EXCEPT ![s].pc = "unwrap", ![s].copy = sessions[x][c]]
  /\ UNCHANGED << relayVars, runtimeVars, wrapped, events >>

\* ... unwraps the cell, and writes the updated copy back under the lock.
ProcessCellWrite(s) ==
  LET t == send[s].t
      x == Path[t][send[s].hop]
      c == Path[t] IN
  /\ send[s].pc = "unwrap"
  /\ UnwrapLayer(send[s].copy, Extension(t, send[s].hop))
  /\ sessions' = [sessions EXCEPT ![x][c] =
       [send[s].copy EXCEPT !.forwarded = @ + 1]]
  /\ send' = [send EXCEPT ![s].pc = IF send[s].hop = 3 THEN "exit" ELSE "copy",
                          ![s].hop = IF @ = 3 THEN @ ELSE @ + 1]
  /\ UNCHANGED << running, seenExtensions, exitPolicy, lastDestination, torn,
                  runtimeVars, wrapped, events >>

\* Unknown circuit, or the layer does not open with the session's key.
ProcessCellFails(s) ==
  LET x == Path[send[s].t][send[s].hop]
      c == Path[send[s].t] IN
  /\ \/ send[s].pc = "copy" /\ sessions[x][c] = NoSession
     \/ /\ send[s].pc = "unwrap"
        /\ ~UnwrapLayer(send[s].copy, Extension(send[s].t, send[s].hop))
  /\ Done(s)
  /\ UNCHANGED << relayVars, built, tearing, opened, completed, wrapped, events >>

--------------------------------------------------------------------------------
mayExit_NoSession(s) == Allows(Exit(send[s].t), send[s].dest)

\* RecordExitDestination: an exit session, and a destination the policy allows.
mayExit(s) ==
  /\ sessions[Exit(send[s].t)][Path[send[s].t]].role = "exit"
  /\ Allows(Exit(send[s].t), send[s].dest)

RecordExitDestination(s) ==
  LET x == Exit(send[s].t) IN
  /\ send[s].pc = "exit"
  /\ mayExit(s)
  /\ lastDestination' = [lastDestination EXCEPT ![x] = send[s].dest]
  /\ send' = [send EXCEPT ![s].pc = "service"]
  /\ UNCHANGED << running, sessions, seenExtensions, exitPolicy, torn,
                  runtimeVars, wrapped, events >>

ExitRefused(s) ==
  /\ send[s].pc = "exit"
  /\ ~mayExit(s)
  /\ Done(s)
  /\ UNCHANGED << relayVars, built, tearing, opened, completed, wrapped, events >>

\* The service answers, and the response is wrapped and unwrapped; Completed++.
Respond(s) ==
  /\ send[s].pc = "service"
  /\ wrap(s, "response")
  /\ completed' = [completed EXCEPT ![send[s].t] = @ + 1]
  /\ Done(s)
  /\ UNCHANGED << relayVars, built, tearing, opened, events >>

ServiceFails(s) ==
  /\ send[s].pc = "service"
  /\ Done(s)
  /\ UNCHANGED << relayVars, built, tearing, opened, completed, wrapped, events >>

--------------------------------------------------------------------------------
Init ==
  /\ running = [x \in Relays |-> TRUE]
  /\ sessions = [x \in Relays |-> [c \in CircuitIDs |-> NoSession]]
  /\ seenExtensions = [x \in Relays |-> {}]
  /\ exitPolicy = [x \in Relays |-> IF \E t \in Runtimes : Exit(t) = x THEN Allowed ELSE {}]
  /\ lastDestination = [x \in Relays |-> "none"]
  /\ built = [t \in Runtimes |-> 0]
  /\ tearing = [t \in Runtimes |-> -1]
  /\ streams = [t \in Runtimes |-> [next |-> 1, open |-> {}, closed |-> FALSE]]
  /\ opened = [t \in Runtimes |-> 0]
  /\ completed = [t \in Runtimes |-> 0]
  /\ send = [s \in Sends |-> [pc |-> "idle", t |-> "none", dest |-> "none", stream |-> 0,
                              read |-> 0, hop |-> 0, copy |-> NoSession]]
  /\ wrapped = [nonces |-> {}, cells |-> 0]
  /\ torn = [x \in Relays |-> {}]
  /\ events = 0

SendStep(s) ==
  \/ \E t \in Runtimes, d \in Destinations : StartSend(s, t, d)
  \/ \E t \in Runtimes, d \in Destinations : ServeConn(s, t, d)
  \/ Open(s)
  \/ OpenFails(s)
  \/ Count(s)
  \/ Wrap(s)
  \/ Cancelled(s)
  \/ ProcessCellCopy(s)
  \/ ProcessCellWrite(s)
  \/ ProcessCellFails(s)
  \/ RecordExitDestination(s)
  \/ ExitRefused(s)
  \/ Respond(s)
  \/ ServiceFails(s)

Next ==
  \/ \E t \in Runtimes : BuildHop(t) \/ BuildFails(t) \/ CloseAll(t)
  \/ \E x \in Relays : Stop(x) \/ \E p \in Policies : SetExitPolicy(x, p)
  \/ \E t \in Runtimes : StartTeardown(t) \/ Teardown(t)
  \/ \E s \in Sends : SendStep(s)

Spec == Init /\ [][Next]_vars

--------------------------------------------------------------------------------
\* No nonce is used twice under one layer key, although the sequence number that
\* goes into it is read from a counter that concurrent calls update unlocked.
NonceUnique == Cardinality(wrapped.nonces) = wrapped.cells

\* A relay knows a final destination only if it is an exit, and forgets it with the
\* last of its circuits: a call of Send that is under way while the circuit is torn
\* down leaves no destination behind (RecordExitDestination, Teardown, Visibility).
DestinationForgotten ==
  \A x \in Relays : lastDestination[x] # "none" =>
    /\ \E t \in Runtimes : x = Exit(t)
    /\ \E c \in CircuitIDs : sessions[x][c] # NoSession

\* A circuit that was torn down at a relay stays unknown there until the relay
\* accepts an extension for it again.
TornDownStaysGone ==
  \A x \in Relays : \A c \in torn[x] : sessions[x][c] = NoSession
================================================================================
