----------------------------- MODULE RoutingProofs ------------------------------
(* That a relay forgets a destination with the last of its circuits, for every  *)
(* set of relays, circuits and calls.                                           *)
EXTENDS Routing, FiniteSetTheorems, TLAPS

\* A session that a relay holds, and the places of a call of Send.
Held == [ext : Runtimes \X Hops, role : {"entry", "middle", "exit"}, forwarded : Nat]
Sessions == Held \cup {NoSession}
Places == {"idle", "open", "count", "wrap", "copy", "unwrap", "exit", "service", "done"}
SendCalls ==
  [pc : Places, t : Runtimes \cup {"none"}, dest : Destinations \cup {"none"}, stream : Nat,
   read : Nat, hop : 0 .. 3, copy : Sessions]

RoutingType ==
  /\ sessions \in [Relays -> [CircuitIDs -> Sessions]]
  /\ lastDestination \in [Relays -> Destinations \cup {"none"}]
  /\ built \in [Runtimes -> -1 .. 3]
  /\ tearing \in [Runtimes -> -1 .. 3]
  /\ streams \in [Runtimes -> [next : Nat, open : SUBSET Nat, closed : BOOLEAN]]
  /\ opened \in [Runtimes -> Nat]
  /\ send \in [Sends -> SendCalls]

\* A call that has begun has a runtime and a destination, and one that is between
\* the two steps of ProcessCell has the copy of a session that was there.
InPlace(q) ==
  /\ q.pc # "idle" => q.t \in Runtimes /\ q.dest \in Destinations
  /\ q.pc \in {"copy", "unwrap"} => q.hop \in Hops
  /\ q.pc = "unwrap" => q.copy \in Held

CallsInPlace == \A s \in Sends : InPlace(send[s])

RoutingInv == RoutingType /\ CallsInPlace /\ DestinationForgotten

--------------------------------------------------------------------------------
\* BuildCircuit takes exactly three relays, so that every hop and the exit is one.
LEMMA PathFacts ==
  \A t \in Runtimes :
    /\ Path[t] \in CircuitIDs
    /\ \A i \in Hops : Path[t][i] \in Relays
    /\ Exit(t) \in Relays
BY PathAssumption DEF CircuitIDs, Hops, Exit

\* A session is told from its absence.
LEMMA HeldIsNoNoSession == NoSession \notin Held
BY DEF NoSession, Held

\* The roles BuildCircuit assigns to the hops are roles of a session.
LEMMA RolesHeld == \A i \in Hops : Roles[i] \in {"entry", "middle", "exit"}
BY DEF Hops, Roles

\* New relays hold no session and know no destination.
LEMMA InitRouting == Init => RoutingInv
<1> SUFFICES ASSUME Init PROVE RoutingInv
  OBVIOUS
<1>1. RoutingType
  BY DEF Init, RoutingType, SendCalls, Places, Sessions
<1>2. CallsInPlace
  BY DEF Init, CallsInPlace, InPlace
<1>3. DestinationForgotten
  BY DEF Init, DestinationForgotten
<1> QED BY <1>1, <1>2, <1>3 DEF RoutingInv

--------------------------------------------------------------------------------
\* What relays hold and know does not change: the destinations are as they were.
LEMMA SameRelays ==
  ASSUME RoutingInv, UNCHANGED << sessions, lastDestination >>
  PROVE  DestinationForgotten'
BY DEF RoutingInv, DestinationForgotten

\* A step that writes a session for a circuit of a relay forgets no other.
LEMMA SessionWritten ==
  ASSUME RoutingInv, NEW x \in Relays, NEW c \in CircuitIDs, NEW h \in Held,
         sessions' = [sessions EXCEPT ![x][c] = h],
         lastDestination' = lastDestination
  PROVE  /\ sessions' \in [Relays -> [CircuitIDs -> Sessions]]
         /\ DestinationForgotten'
<1>1. sessions' \in [Relays -> [CircuitIDs -> Sessions]]
  BY DEF RoutingInv, RoutingType, Sessions
<1>2. \A y \in Relays, d \in CircuitIDs :
        sessions[y][d] # NoSession => sessions'[y][d] # NoSession
  BY HeldIsNoNoSession DEF RoutingInv, RoutingType
<1>3. DestinationForgotten'
  BY <1>2 DEF RoutingInv, DestinationForgotten
<1> QED BY <1>1, <1>3

\* A call moves to a place and a hop.
LEMMA HopChanges ==
  ASSUME NEW q \in SendCalls, NEW p \in Places, NEW k \in 0 .. 3
  PROVE  [q EXCEPT !.pc = p, !.hop = k] \in SendCalls
<1> DEFINE H == 0 .. 3
<1>1. q \in [pc : Places, t : Runtimes \cup {"none"}, dest : Destinations \cup {"none"},
             stream : Nat, read : Nat, hop : H, copy : Sessions]
  BY DEF SendCalls
<1>2. k \in H
  OBVIOUS
<1> HIDE DEF H
<1>3. [q EXCEPT !.pc = p, !.hop = k] \in
        [pc : Places, t : Runtimes \cup {"none"}, dest : Destinations \cup {"none"},
         stream : Nat, read : Nat, hop : H, copy : Sessions]
  BY <1>1, <1>2, Zenon
<1> QED BY <1>3 DEF H, SendCalls

\* A step replaces the state of one call by one that is in place.
LEMMA CallChanges ==
  ASSUME RoutingInv, NEW s \in Sends, NEW q \in SendCalls, InPlace(q),
         send' = [send EXCEPT ![s] = q]
  PROVE  send' \in [Sends -> SendCalls] /\ CallsInPlace'
<1>1. send' \in [Sends -> SendCalls]
  BY DEF RoutingInv, RoutingType
<1>2. \A r \in Sends : send'[r] = IF r = s THEN q ELSE send[r]
  BY DEF RoutingInv, RoutingType
<1>3. CallsInPlace'
  BY <1>2 DEF RoutingInv, CallsInPlace, InPlace
<1> QED BY <1>1, <1>3

\* A call moves on and keeps its runtime and destination.
LEMMA CallMoves ==
  ASSUME RoutingInv, NEW s \in Sends, send[s].pc # "idle", NEW p \in Places \ {"copy", "unwrap"},
         send' = [send EXCEPT ![s].pc = p]
  PROVE  send' \in [Sends -> SendCalls] /\ CallsInPlace'
<1> DEFINE q == [send[s] EXCEPT !.pc = p]
<1>1. send[s] \in SendCalls
  BY DEF RoutingInv, RoutingType
<1>2. q \in SendCalls /\ q.pc = p /\ q.t = send[s].t /\ q.dest = send[s].dest
  BY <1>1 DEF SendCalls
<1>3. InPlace(q)
  BY <1>2 DEF RoutingInv, CallsInPlace, InPlace
<1>4. send' = [send EXCEPT ![s] = q]
  OBVIOUS
<1> HIDE DEF q
<1> QED BY <1>2, <1>3, <1>4, CallChanges, Zenon

\* The deferred Close keeps the streams in their type.
LEMMA StreamCloses ==
  ASSUME RoutingInv, NEW s \in Sends, closed(s)
  PROVE  streams' \in [Runtimes -> [next : Nat, open : SUBSET Nat, closed : BOOLEAN]]
BY Zenon DEF RoutingInv, RoutingType, closed

\* Done: the call returns, with its stream closed.
LEMMA CallReturns ==
  ASSUME RoutingInv, NEW s \in Sends, send[s].pc # "idle", Done(s),
         UNCHANGED << sessions, lastDestination, built, tearing, opened >>
  PROVE  RoutingInv'
<1>1. send' \in [Sends -> SendCalls] /\ CallsInPlace'
  BY CallMoves, Zenon DEF Done, Places
<1>2. streams' \in [Runtimes -> [next : Nat, open : SUBSET Nat, closed : BOOLEAN]]
  BY StreamCloses DEF Done
<1>3. DestinationForgotten'
  BY SameRelays
<1> QED BY <1>1, <1>2, <1>3 DEF RoutingInv, RoutingType

--------------------------------------------------------------------------------
\* BuildCircuit adds a session and takes none away.
LEMMA BuildHopKeeps ==
  ASSUME RoutingInv, NEW t \in Runtimes, BuildHop(t)
  PROVE  RoutingInv'
<1> DEFINE i == built[t] + 1
           h == [ext |-> Extension(t, i), role |-> Roles[i], forwarded |-> 0]
<1>1. i \in Hops /\ built[t] \in -1 .. 3
  BY DEF BuildHop, Hops, RoutingInv, RoutingType
<1>2. h \in Held
  BY <1>1, RolesHeld DEF Held, Extension
<1>3. Path[t][i] \in Relays /\ Path[t] \in CircuitIDs
  BY <1>1, PathFacts, SMTT(40)
<1>4. sessions' = [sessions EXCEPT ![Path[t][i]][Path[t]] = h]
  BY DEF BuildHop, AcceptExtension
<1>5. lastDestination' = lastDestination
  BY DEF BuildHop
<1> HIDE DEF h
<1>6. sessions' \in [Relays -> [CircuitIDs -> Sessions]] /\ DestinationForgotten'
  BY <1>2, <1>3, <1>4, <1>5, SessionWritten, Zenon
<1>7. built' \in [Runtimes -> -1 .. 3]
  BY <1>1 DEF BuildHop, Hops, RoutingInv, RoutingType
<1>8. UNCHANGED << lastDestination, tearing, streams, opened, send >>
  BY DEF BuildHop
<1> QED BY <1>6, <1>7, <1>8 DEF RoutingInv, RoutingType, CallsInPlace

\* Teardown removes the destination together with the last session of the relay.
LEMMA TeardownKeeps ==
  ASSUME RoutingInv, NEW t \in Runtimes, Teardown(t)
  PROVE  RoutingInv'
<1> DEFINE x == Path[t][tearing[t] + 1]
           c == Path[t]
<1>1. tearing[t] + 1 \in Hops /\ tearing[t] \in -1 .. 3
  BY DEF Teardown, Hops, RoutingInv, RoutingType
<1>2. x \in Relays /\ c \in CircuitIDs
  BY <1>1, PathFacts, SMTT(40)
<1>3. /\ sessions' = [sessions EXCEPT ![x][c] = NoSession]
      /\ lastDestination' = [lastDestination EXCEPT ![x] =
           IF \A d \in CircuitIDs \ {c} : sessions[x][d] = NoSession THEN "none" ELSE @]
      /\ tearing' = [tearing EXCEPT ![t] = @ + 1]
      /\ UNCHANGED << built, streams, opened, send >>
  BY DEF Teardown
<1> HIDE DEF x, c
<1>4. sessions' \in [Relays -> [CircuitIDs -> Sessions]]
  BY <1>2, <1>3 DEF RoutingInv, RoutingType, Sessions
<1>5. lastDestination' \in [Relays -> Destinations \cup {"none"}]
  BY <1>2, <1>3 DEF RoutingInv, RoutingType
<1>6. tearing' \in [Runtimes -> -1 .. 3]
  BY <1>1, <1>3 DEF Hops, RoutingInv, RoutingType
<1>7. DestinationForgotten'
  <2> SUFFICES ASSUME NEW y \in Relays, lastDestination'[y] # "none"
               PROVE  /\ \E r \in Runtimes : y = Exit(r)
                      /\ \E d \in CircuitIDs : sessions'[y][d] # NoSession
    BY DEF DestinationForgotten
  <2>1. CASE y = x
    <3>1. PICK d \in CircuitIDs \ {c} : sessions[x][d] # NoSession
      BY <1>2, <1>3, <2>1 DEF RoutingInv, RoutingType
    <3>2. sessions'[y][d] # NoSession
      BY <1>2, <1>3, <2>1, <3>1 DEF RoutingInv, RoutingType
    <3>3. lastDestination[y] # "none"
      BY <1>2, <1>3, <2>1, <3>1 DEF RoutingInv, RoutingType
    <3> QED BY <3>2, <3>3 DEF RoutingInv, DestinationForgotten
  <2>2. CASE y # x
    <3>1. sessions'[y] = sessions[y] /\ lastDestination'[y] = lastDestination[y]
      BY <1>2, <1>3, <2>2 DEF RoutingInv, RoutingType
    <3> QED BY <3>1 DEF RoutingInv, DestinationForgotten
  <2> QED BY <2>1, <2>2
<1> QED BY <1>3, <1>4, <1>5, <1>6, <1>7, SMTT(40) DEF RoutingInv, RoutingType, CallsInPlace

--------------------------------------------------------------------------------
\* The steps of a runtime or a relay that write no session.
LEMMA RelayStepKeeps ==
  ASSUME RoutingInv,
         \/ \E t \in Runtimes : BuildFails(t) \/ CloseAll(t) \/ StartTeardown(t)
         \/ \E x \in Relays : Stop(x) \/ \E p \in Policies : SetExitPolicy(x, p)
  PROVE  RoutingInv'
<1>1. ASSUME NEW t \in Runtimes, BuildFails(t) PROVE RoutingInv'
  <2>1. UNCHANGED << sessions, lastDestination, tearing, streams, opened, send >>
    BY <1>1 DEF BuildFails, relayVars
  <2>2. built' \in [Runtimes -> -1 .. 3]
    BY <1>1 DEF BuildFails, RoutingInv, RoutingType
  <2> QED BY <2>1, <2>2, SameRelays DEF RoutingInv, RoutingType, CallsInPlace
<1>2. ASSUME NEW t \in Runtimes, CloseAll(t) PROVE RoutingInv'
  <2>1. UNCHANGED << sessions, lastDestination, tearing, built, opened, send >>
    BY <1>2 DEF CloseAll, relayVars
  <2>2. streams' \in [Runtimes -> [next : Nat, open : SUBSET Nat, closed : BOOLEAN]]
    BY <1>2, SMTT(30) DEF CloseAll, RoutingInv, RoutingType
  <2> QED BY <2>1, <2>2, SameRelays DEF RoutingInv, RoutingType, CallsInPlace
<1>3. ASSUME NEW t \in Runtimes, StartTeardown(t) PROVE RoutingInv'
  <2>1. UNCHANGED << sessions, lastDestination, built, streams, opened, send >>
    BY <1>3 DEF StartTeardown, relayVars
  <2>2. tearing' \in [Runtimes -> -1 .. 3]
    BY <1>3 DEF StartTeardown, RoutingInv, RoutingType
  <2> QED BY <2>1, <2>2, SameRelays DEF RoutingInv, RoutingType, CallsInPlace
<1>4. ASSUME NEW x \in Relays, Stop(x) \/ \E p \in Policies : SetExitPolicy(x, p)
      PROVE  RoutingInv'
  <2>1. UNCHANGED << sessions, lastDestination, built, tearing, streams, opened, send >>
    BY <1>4 DEF Stop, SetExitPolicy, runtimeVars
  <2> QED BY <2>1, SameRelays DEF RoutingInv, RoutingType, CallsInPlace
<1> QED BY <1>1, <1>2, <1>3, <1>4

\* StartSend, Open, OpenFails, Count, Wrap: a call before its first cell.
LEMMA BeginningKeeps ==
  ASSUME RoutingInv, NEW s \in Sends,
         \/ \E t \in Runtimes, d \in Destinations : StartSend(s, t, d)
         \/ Open(s) \/ OpenFails(s) \/ Count(s) \/ Wrap(s)
  PROVE  RoutingInv'
<1>0. send[s] \in SendCalls /\ InPlace(send[s])
  BY DEF RoutingInv, RoutingType, CallsInPlace
<1>1. ASSUME NEW t \in Runtimes, NEW d \in Destinations, StartSend(s, t, d) PROVE RoutingInv'
  <2> DEFINE q == [send[s] EXCEPT !.pc = "open", !.t = t, !.dest = d]
  <2>1. q \in SendCalls /\ InPlace(q)
    BY <1>0, Zenon DEF SendCalls, InPlace, Places
  <2>2. send' = [send EXCEPT ![s] = q]
    BY <1>1, Zenon DEF StartSend
  <2> HIDE DEF q
  <2>3. send' \in [Sends -> SendCalls] /\ CallsInPlace'
    BY <2>1, <2>2, CallChanges, Zenon
  <2>4. UNCHANGED << sessions, lastDestination, built, tearing, streams, opened >>
    BY <1>1, Zenon DEF StartSend, relayVars, runtimeVars
  <2> QED BY <2>3, <2>4, SameRelays DEF RoutingInv, RoutingType
<1>2. ASSUME Open(s) PROVE RoutingInv'
  <2> DEFINE id == streams[send[s].t].next
             q == [send[s] EXCEPT !.pc = "count", !.stream = id, !.read = opened[send[s].t]]
  <2>1. send[s].t \in Runtimes
    BY <1>0, <1>2 DEF Open, InPlace
  <2>2. id \in Nat /\ opened[send[s].t] \in Nat
    BY <2>1, SMTT(40) DEF RoutingInv, RoutingType
  <2>3. send[s].pc = "open"
    BY <1>2 DEF Open
  <2>4. send' = [send EXCEPT ![s] = q]
    BY <1>2, Zenon DEF Open
  <2>5. streams' = [streams EXCEPT ![send[s].t].next = id + 1, ![send[s].t].open = @ \cup {id}]
    BY <1>2, SMTT(40) DEF Open
  <2>6. streams' \in [Runtimes -> [next : Nat, open : SUBSET Nat, closed : BOOLEAN]]
    BY <2>1, <2>2, <2>5, SMTT(30) DEF RoutingInv, RoutingType
  <2>7. q \in SendCalls /\ InPlace(q)
    BY <1>0, <2>2, <2>3, Zenon DEF SendCalls, InPlace, Places
  <2> HIDE DEF q
  <2>8. send' \in [Sends -> SendCalls] /\ CallsInPlace'
    BY <2>4, <2>7, CallChanges, Zenon
  <2>9. UNCHANGED << sessions, lastDestination, built, tearing, opened >>
    BY <1>2 DEF Open, relayVars
  <2> QED BY <2>6, <2>8, <2>9, SameRelays, SMTT(40) DEF RoutingInv, RoutingType
<1>3. ASSUME OpenFails(s) PROVE RoutingInv'
  <2>1. send' \in [Sends -> SendCalls] /\ CallsInPlace'
    BY <1>3, CallMoves, Zenon DEF OpenFails, Places
  <2>2. UNCHANGED << sessions, lastDestination, built, tearing, streams, opened >>
    BY <1>3 DEF OpenFails, relayVars, runtimeVars
  <2> QED BY <2>1, <2>2, SameRelays DEF RoutingInv, RoutingType
<1>4. ASSUME Count(s) PROVE RoutingInv'
  <2>1. send' \in [Sends -> SendCalls] /\ CallsInPlace'
    BY <1>4, CallMoves, Zenon DEF Count, Places
  <2>2. opened' \in [Runtimes -> Nat]
    <3>1. send[s].read + 1 \in Nat
      BY <1>0 DEF SendCalls
    <3> QED BY <1>4, <3>1, Zenon DEF Count, RoutingInv, RoutingType
  <2>3. UNCHANGED << sessions, lastDestination, built, tearing, streams >>
    BY <1>4 DEF Count, relayVars
  <2> QED BY <2>1, <2>2, <2>3, SameRelays DEF RoutingInv, RoutingType
<1>5. ASSUME Wrap(s) PROVE RoutingInv'
  <2> DEFINE q == [send[s] EXCEPT !.pc = "copy", !.hop = 1]
  <2>1. send[s].pc = "wrap"
    BY <1>5 DEF Wrap
  <2>2. q \in SendCalls /\ InPlace(q)
    <3>1. q \in SendCalls
      <4>1. "copy" \in Places /\ 1 \in 0 .. 3
        BY DEF Places
      <4> QED BY <1>0, <4>1, HopChanges, Zenon
    <3>2. q.pc = "copy" /\ q.t = send[s].t /\ q.dest = send[s].dest /\ q.hop \in Hops
      BY <1>0 DEF SendCalls, Hops
    <3> HIDE DEF q
    <3> QED BY <1>0, <2>1, <3>1, <3>2 DEF InPlace
  <2>3. send' = [send EXCEPT ![s] = q]
    BY <1>5, Zenon DEF Wrap
  <2> HIDE DEF q
  <2>4. send' \in [Sends -> SendCalls] /\ CallsInPlace'
    BY <2>2, <2>3, CallChanges, Zenon
  <2>5. UNCHANGED << sessions, lastDestination, built, tearing, streams, opened >>
    BY <1>5 DEF Wrap, relayVars, runtimeVars
  <2> QED BY <2>4, <2>5, SameRelays DEF RoutingInv, RoutingType
<1> QED BY <1>1, <1>2, <1>3, <1>4, <1>5

\* A cell at a hop: the copy of a session, and the session written back.
LEMMA CellKeeps ==
  ASSUME RoutingInv, NEW s \in Sends, ProcessCellCopy(s) \/ ProcessCellWrite(s)
  PROVE  RoutingInv'
<1> DEFINE t == send[s].t
           x == Path[t][send[s].hop]
           c == Path[t]
<1>1. /\ send[s] \in SendCalls
      /\ send[s].pc \in {"copy", "unwrap"}
      /\ InPlace(send[s])
  BY Zenon DEF RoutingInv, RoutingType, CallsInPlace, ProcessCellCopy, ProcessCellWrite
<1>2. t \in Runtimes /\ send[s].hop \in Hops /\ send[s].dest \in Destinations
  BY <1>1 DEF InPlace
<1>3. x \in Relays /\ c \in CircuitIDs
  BY <1>2, PathFacts
<1>4. ASSUME ProcessCellCopy(s) PROVE RoutingInv'
  <2> DEFINE q == [send[s] EXCEPT !.pc = "unwrap", !.copy = sessions[x][c]]
  <2>1. sessions[x][c] \in Held
    BY <1>3, <1>4, SMTT(30) DEF ProcessCellCopy, RoutingInv, RoutingType, Sessions
  <2>2. send' = [send EXCEPT ![s] = q]
    BY <1>4, Zenon DEF ProcessCellCopy
  <2> HIDE DEF t, x, c
  <2>3. q \in SendCalls
    BY <1>1, <2>1, Zenon DEF SendCalls, Places, Sessions
  <2>4. q.t = send[s].t /\ q.dest = send[s].dest /\ q.hop = send[s].hop /\ q.copy = sessions[x][c]
    BY <1>1 DEF SendCalls
  <2> HIDE DEF q
  <2>5. InPlace(q)
    BY <1>2, <2>1, <2>4 DEF InPlace, t
  <2>6. send' \in [Sends -> SendCalls] /\ CallsInPlace'
    BY <2>2, <2>3, <2>5, CallChanges, ZenonT(40)
  <2>7. UNCHANGED << sessions, lastDestination, built, tearing, streams, opened >>
    BY <1>4 DEF ProcessCellCopy, relayVars, runtimeVars
  <2> QED BY <2>6, <2>7, SameRelays, SMTT(30) DEF RoutingInv, RoutingType
<1>5. ASSUME ProcessCellWrite(s) PROVE RoutingInv'
  <2> DEFINE h == [send[s].copy EXCEPT !.forwarded = @ + 1]
             q == [send[s] EXCEPT !.pc = IF send[s].hop = 3 THEN "exit" ELSE "copy",
                                  !.hop = IF @ = 3 THEN @ ELSE @ + 1]
  <2>1. h \in Held
    <3>1. send[s].copy \in Held
      BY <1>1, <1>5, Zenon DEF ProcessCellWrite, InPlace
    <3> QED BY <3>1, SMTT(30) DEF Held
  <2>2. /\ sessions' = [sessions EXCEPT ![x][c] = h]
        /\ UNCHANGED << lastDestination, built, tearing, streams, opened >>
    BY <1>5, Zenon DEF ProcessCellWrite, runtimeVars
  <2>3. send' = [send EXCEPT ![s] = q]
    BY <1>5, Zenon DEF ProcessCellWrite
  <2>4. q \in SendCalls
    <3>1. /\ (IF send[s].hop = 3 THEN "exit" ELSE "copy") \in Places
          /\ (IF send[s].hop = 3 THEN send[s].hop ELSE send[s].hop + 1) \in 0 .. 3
      BY <1>2 DEF Places, Hops
    <3> QED BY <1>1, <3>1, HopChanges, Zenon
  <2>5. /\ q.t = send[s].t /\ q.dest = send[s].dest
        /\ q.pc = "exit" \/ (q.pc = "copy" /\ q.hop \in Hops)
    BY <1>1, <1>2 DEF SendCalls, Hops
  <2> HIDE DEF h, q, x, c
  <2>6. InPlace(q)
    BY <1>2, <2>5 DEF InPlace
  <2>7. send' \in [Sends -> SendCalls] /\ CallsInPlace'
    BY <2>3, <2>4, <2>6, CallChanges, Zenon
  <2>8. sessions' \in [Relays -> [CircuitIDs -> Sessions]] /\ DestinationForgotten'
    BY <1>3, <2>1, <2>2, SessionWritten, Zenon
  <2> QED BY <2>2, <2>7, <2>8 DEF RoutingInv, RoutingType
<1> QED BY <1>4, <1>5, SMTT(30)

\* RecordExitDestination: the relay holds an exit session of the circuit.
LEMMA RecordKeeps ==
  ASSUME RoutingInv, NEW s \in Sends, RecordExitDestination(s)
  PROVE  RoutingInv'
<1> DEFINE x == Exit(send[s].t)
<1>1. send[s].t \in Runtimes /\ send[s].dest \in Destinations
  BY DEF RoutingInv, CallsInPlace, InPlace, RecordExitDestination
<1>2. x \in Relays /\ Path[send[s].t] \in CircuitIDs
  BY <1>1, PathFacts
<1>3. /\ lastDestination' = [lastDestination EXCEPT ![x] = send[s].dest]
      /\ UNCHANGED << sessions, built, tearing, streams, opened >>
  BY DEF RecordExitDestination, runtimeVars
<1>4. sessions[x][Path[send[s].t]] # NoSession
  BY DEF RecordExitDestination, mayExit, NoSession
<1>5. send' \in [Sends -> SendCalls] /\ CallsInPlace'
  BY CallMoves, Zenon DEF RecordExitDestination, Places
<1>6. lastDestination' \in [Relays -> Destinations \cup {"none"}]
  BY <1>1, <1>2, <1>3 DEF RoutingInv, RoutingType
<1>7. \A y \in Relays : y # x => lastDestination'[y] = lastDestination[y]
  BY <1>2, <1>3, SMTT(40) DEF RoutingInv, RoutingType
<1>8. DestinationForgotten'
  BY <1>1, <1>2, <1>3, <1>4, <1>7 DEF RoutingInv, DestinationForgotten
<1> QED BY <1>3, <1>5, <1>6, <1>8 DEF RoutingInv, RoutingType

\* The returns of a call: a cancelled context, a refused cell or destination, the
\* service's answer or its error.
LEMMA ReturnsKeep ==
  ASSUME RoutingInv, NEW s \in Sends,
         \/ Cancelled(s) \/ ProcessCellFails(s) \/ ExitRefused(s)
         \/ Respond(s) \/ ServiceFails(s)
  PROVE  RoutingInv'
<1>1. send[s].pc # "idle"
  BY SMTT(30) DEF Cancelled, ProcessCellFails, ExitRefused, Respond, ServiceFails
<1>2. Done(s) /\ UNCHANGED << sessions, lastDestination, built, tearing, opened >>
  BY DEF Cancelled, ProcessCellFails, ExitRefused, Respond, ServiceFails, relayVars
<1> QED BY <1>1, <1>2, CallReturns, SMTT(30)

--------------------------------------------------------------------------------
\* Every step of the testbed keeps the invariant: one case per group of actions.
LEMMA NextKeeps == RoutingInv /\ [Next]_vars => RoutingInv'
<1> SUFFICES ASSUME RoutingInv, [Next]_vars PROVE RoutingInv'
  OBVIOUS
<1>1. ASSUME NEW t \in Runtimes, BuildHop(t) PROVE RoutingInv'
  BY <1>1, BuildHopKeeps
<1>2. ASSUME NEW t \in Runtimes, Teardown(t) PROVE RoutingInv'
  BY <1>2, TeardownKeeps
<1>3. ASSUME NEW t \in Runtimes, BuildFails(t) \/ CloseAll(t) \/ StartTeardown(t)
      PROVE  RoutingInv'
  BY <1>3, RelayStepKeeps
<1>4. ASSUME NEW x \in Relays, Stop(x) \/ \E p \in Policies : SetExitPolicy(x, p)
      PROVE  RoutingInv'
  BY <1>4, RelayStepKeeps
<1>5. ASSUME NEW s \in Sends, SendStep(s) PROVE RoutingInv'
  <2>1. CASE \/ \E t \in Runtimes, d \in Destinations : StartSend(s, t, d)
             \/ Open(s) \/ OpenFails(s) \/ Count(s) \/ Wrap(s)
    BY <2>1, BeginningKeeps
  <2>2. CASE \E t \in Runtimes, d \in Destinations : ServeConn(s, t, d)
    <3>1. \E t \in Runtimes, d \in Destinations : StartSend(s, t, d)
      BY <2>2 DEF ServeConn
    <3> QED BY <3>1, BeginningKeeps
  <2>3. CASE ProcessCellCopy(s) \/ ProcessCellWrite(s)
    BY <2>3, CellKeeps
  <2>4. CASE RecordExitDestination(s)
    BY <2>4, RecordKeeps
  <2>5. CASE \/ Cancelled(s) \/ ProcessCellFails(s) \/ ExitRefused(s)
             \/ Respond(s) \/ ServiceFails(s)
    BY <2>5, ReturnsKeep
  <2> QED BY <1>5, <2>1, <2>2, <2>3, <2>4, <2>5 DEF SendStep
<1>6. CASE UNCHANGED vars
  <2>1. UNCHANGED << sessions, lastDestination, built, tearing, streams, opened, send >>
    BY <1>6 DEF vars, relayVars, runtimeVars
  <2> QED BY <2>1, SameRelays DEF RoutingInv, RoutingType, CallsInPlace
<1> QED BY <1>1, <1>2, <1>3, <1>4, <1>5, <1>6 DEF Next

\* A relay that knows a destination is the exit of a circuit and holds a session:
\* whatever calls of Send are under way while circuits are torn down, the last
\* Teardown at a relay leaves no destination there (relay.go: Teardown,
\* RecordExitDestination, ProcessCell).
THEOREM DestinationIsForgotten == Spec => []DestinationForgotten
<1>1. RoutingInv => DestinationForgotten
  BY Zenon DEF RoutingInv
<1> QED BY <1>1, InitRouting, NextKeeps, PTL DEF Spec

--------------------------------------------------------------------------------
(* The nonces of the layers.                                                *)

Unwrapped == {"count", "wrap"}                       \* has a stream, wrapped nothing
Unanswered == {"copy", "unwrap", "exit", "service"}  \* wrapped its data only

\* A call has the number of a stream that its runtime gave out, if it has one.
Numbered(q) ==
  /\ q.pc \in {"idle", "open"} => q.stream = 0
  /\ q.pc \in Unwrapped \cup Unanswered => q.stream # 0
  /\ q.stream # 0 => q.t \in Runtimes /\ q.stream < streams[q.t].next

\* A nonce that was used on the stream of a call.
OnStream(n, q) == n.key[1] = q.t /\ n.stream = q.stream

\* The sequence number in a nonce may repeat; the stream number does not, and a
\* stream wraps one payload and one response.
NonceInv ==
  /\ \A t \in Runtimes : streams[t].next >= 1
  /\ \A s \in Sends : Numbered(send[s])
  /\ \A s, r \in Sends :
       s # r /\ send[s].t = send[r].t /\ send[s].stream = send[r].stream => send[s].stream = 0
  /\ \A n \in wrapped.nonces :
       n.key[1] \in Runtimes /\ n.stream \in Nat /\ n.stream < streams[n.key[1]].next
  /\ \A s \in Sends : send[s].pc \in Unwrapped =>
       \A n \in wrapped.nonces : ~ OnStream(n, send[s])
  /\ \A s \in Sends : send[s].pc \in Unanswered =>
       \A n \in wrapped.nonces : OnStream(n, send[s]) => n.type # "response"
  /\ IsFiniteSet(wrapped.nonces) /\ wrapped.cells \in Nat
  /\ NonceUnique

\* The call s keeps its stream and wraps nothing more than before.
SameStream(q, p) ==
  /\ p.stream = q.stream
  /\ q.stream # 0 => p.t = q.t
  /\ p.pc \in {"idle", "open"} => q.pc \in {"idle", "open"}
  /\ p.pc \in Unwrapped => q.pc \in Unwrapped
  /\ p.pc \in Unanswered => q.pc \in Unanswered

\* A step that gives out no stream number and wraps nothing.
LEMMA NothingWrapped ==
  ASSUME NonceInv, wrapped' = wrapped,
         \A t \in Runtimes : streams'[t].next = streams[t].next,
         \A s \in Sends : SameStream(send[s], send'[s])
  PROVE  NonceInv'
<1>1. \A s \in Sends : Numbered(send[s])'
  BY SMTT(40) DEF NonceInv, SameStream, Numbered, Unwrapped, Unanswered
<1>2. \A s, r \in Sends :
        s # r /\ send'[s].t = send'[r].t /\ send'[s].stream = send'[r].stream
          => send'[s].stream = 0
  BY DEF NonceInv, SameStream
<1>3. \A s \in Sends : send'[s].pc \in Unwrapped =>
        \A n \in wrapped.nonces : ~ OnStream(n, send'[s])
  <2> SUFFICES ASSUME NEW s \in Sends, send'[s].pc \in Unwrapped, NEW n \in wrapped.nonces
               PROVE  ~ OnStream(n, send'[s])
    BY Zenon
  <2>1. send[s].pc \in Unwrapped /\ send[s].stream # 0
    BY Zenon DEF NonceInv, SameStream, Numbered
  <2> QED BY <2>1 DEF NonceInv, SameStream, OnStream
<1>4. \A s \in Sends : send'[s].pc \in Unanswered =>
        \A n \in wrapped.nonces : OnStream(n, send'[s]) => n.type # "response"
  <2> SUFFICES ASSUME NEW s \in Sends, send'[s].pc \in Unanswered, NEW n \in wrapped.nonces,
                      OnStream(n, send'[s])
               PROVE  n.type # "response"
    OBVIOUS
  <2>1. send[s].pc \in Unanswered /\ send[s].stream # 0
    BY DEF NonceInv, SameStream, Numbered
  <2> QED BY <2>1 DEF NonceInv, SameStream, OnStream
<1> QED
  BY <1>1, <1>2, <1>3, <1>4, Zenon DEF NonceInv, NonceUnique, OnStream

\* The nonces of the three layers of a cell.
Layers(t, stream, type, seq) ==
  {layerNonce(Extension(t, i), stream, type, seq) : i \in Hops}
IsLayers(K) == \E t, stream, type, seq : K = Layers(t, stream, type, seq)

\* The layers of a cell have three keys, so three nonces.
LEMMA ThreeNonces ==
  ASSUME NEW N, IsFiniteSet(N), NEW K, IsLayers(K), \A n \in K : n \notin N
  PROVE  IsFiniteSet(N \cup K) /\ Cardinality(N \cup K) = Cardinality(N) + 3
<1>0. PICK t, stream, type, seq : K = Layers(t, stream, type, seq)
  BY DEF IsLayers
<1> DEFINE L(i) == layerNonce(Extension(t, i), stream, type, seq)
           N1 == N \cup {L(1)}
           N2 == N1 \cup {L(2)}
           N3 == N2 \cup {L(3)}
<1>1. Hops = {1, 2, 3}
  BY DEF Hops
<1>2. L(1) # L(2) /\ L(1) # L(3) /\ L(2) # L(3)
  BY DEF layerNonce, Extension
<1>3. L(1) \notin N /\ L(2) \notin N1 /\ L(3) \notin N2
  BY <1>0, <1>1, <1>2, Zenon DEF Layers
<1>4. N \cup K = N3
  BY <1>0, <1>1, Zenon DEF Layers
<1> HIDE DEF L
<1>5. IsFiniteSet(N1) /\ Cardinality(N1) = Cardinality(N) + 1
  BY <1>3, FS_AddElement, Zenon
<1> HIDE DEF N1
<1>6. IsFiniteSet(N2) /\ Cardinality(N2) = Cardinality(N1) + 1
  BY <1>3, <1>5, FS_AddElement, Zenon
<1> HIDE DEF N2
<1>7. IsFiniteSet(N3) /\ Cardinality(N3) = Cardinality(N2) + 1
  BY <1>3, <1>6, FS_AddElement, Zenon
<1> HIDE DEF N3
<1>8. Cardinality(N) \in Nat
  BY FS_CardinalityType
<1>9. Cardinality(N3) = Cardinality(N) + 3
  BY <1>5, <1>6, <1>7, <1>8
<1> QED BY <1>4, <1>7, <1>9, Zenon

\* What a call wraps is new, and on its own stream.
LEMMA CellWrapped ==
  ASSUME RoutingType, NonceInv, NEW s \in Sends, NEW type \in {"data", "response"},
         wrap(s, type), send[s].t \in Runtimes, send[s].stream # 0,
         \A n \in wrapped.nonces : OnStream(n, send[s]) => n.type # type
  PROVE  /\ IsFiniteSet(wrapped'.nonces) /\ wrapped'.cells \in Nat /\ NonceUnique'
         /\ \A n \in wrapped'.nonces :
              n \notin wrapped.nonces => OnStream(n, send[s]) /\ n.type = type
<1> DEFINE t == send[s].t
           K == Layers(t, send[s].stream, type, opened[t])
<1>1. wrapped'.nonces = wrapped.nonces \cup K /\ wrapped'.cells = wrapped.cells + 3
  BY DEF wrap, Layers
<1>2. \A n \in K : OnStream(n, send[s]) /\ n.type = type
  BY DEF OnStream, layerNonce, Extension, Layers
<1>3. \A n \in K : n \notin wrapped.nonces
  BY <1>2, Zenon
<1>4. IsFiniteSet(wrapped.nonces) /\ wrapped.cells \in Nat
      /\ Cardinality(wrapped.nonces) = wrapped.cells
  BY DEF NonceInv, NonceUnique
<1>5. /\ IsFiniteSet(wrapped.nonces \cup K)
      /\ Cardinality(wrapped.nonces \cup K) = Cardinality(wrapped.nonces) + 3
  <2>1. IsLayers(K)
    BY DEF IsLayers
  <2> HIDE DEF K
  <2> QED BY <1>3, <1>4, <2>1, ThreeNonces, Zenon
<1> HIDE DEF K
<1>6. NonceUnique' /\ IsFiniteSet(wrapped'.nonces)
  BY <1>1, <1>4, <1>5, Zenon DEF NonceUnique
<1>7. wrapped'.cells \in Nat
  BY <1>1, <1>4, SMTT(40)
<1> QED BY <1>1, <1>2, <1>6, <1>7, Zenon

\* A call that wraps a cell: the other calls are on other streams.
LEMMA WrapKeeps ==
  ASSUME RoutingType, CallsInPlace, NonceInv, NEW s \in Sends,
         NEW type \in {"data", "response"}, wrap(s, type),
         send[s].pc \in Unwrapped \cup Unanswered,
         send[s].pc \in Unwrapped \/ type = "response",
         send'[s].pc \in Unanswered => type = "data",
         send'[s].pc \in Unanswered \cup {"done"},
         send'[s].t = send[s].t /\ send'[s].stream = send[s].stream,
         \A r \in Sends : r # s => send'[r] = send[r],
         \A t \in Runtimes : streams'[t].next = streams[t].next
  PROVE  NonceInv'
<1>1. send[s].t \in Runtimes /\ send[s].stream # 0 /\ send[s].stream < streams[send[s].t].next
      /\ send[s].stream \in Nat
  BY DEF NonceInv, Numbered, RoutingType, SendCalls
<1>2. \A n \in wrapped.nonces : OnStream(n, send[s]) => n.type # type
  BY DEF NonceInv
<1>3. /\ IsFiniteSet(wrapped'.nonces) /\ wrapped'.cells \in Nat /\ NonceUnique'
      /\ \A n \in wrapped'.nonces :
           n \notin wrapped.nonces => OnStream(n, send[s]) /\ n.type = type
  BY <1>1, <1>2, CellWrapped, Zenon
<1>4. \A r \in Sends : Numbered(send[r])'
  <2> SUFFICES ASSUME NEW r \in Sends PROVE Numbered(send[r])'
    OBVIOUS
  <2>1. CASE r = s
    BY <1>1, <2>1, Zenon DEF Numbered, Unwrapped, Unanswered
  <2>2. CASE r # s
    BY <2>2 DEF Numbered, NonceInv
  <2> QED BY <2>1, <2>2
<1>5. \A r \in Sends : send'[r].t = send[r].t /\ send'[r].stream = send[r].stream
  BY Zenon
<1>6. \A r, q \in Sends :
        r # q /\ send'[r].t = send'[q].t /\ send'[r].stream = send'[q].stream
          => send'[r].stream = 0
  BY <1>5 DEF NonceInv
<1>7. \A n \in wrapped'.nonces :
        n.key[1] \in Runtimes /\ n.stream \in Nat /\ n.stream < streams'[n.key[1]].next
  <2> SUFFICES ASSUME NEW n \in wrapped'.nonces
               PROVE  n.key[1] \in Runtimes /\ n.stream \in Nat /\ n.stream < streams'[n.key[1]].next
    BY Zenon
  <2>1. CASE n \in wrapped.nonces
    BY <2>1, Zenon DEF NonceInv
  <2>2. CASE n \notin wrapped.nonces
    BY <1>1, <1>3, <2>2, Zenon DEF OnStream
  <2> QED BY <2>1, <2>2
<1>8. ASSUME NEW r \in Sends, r # s, send[r].pc \in Unwrapped \cup Unanswered,
             NEW n \in wrapped'.nonces, OnStream(n, send[r])
      PROVE  n \in wrapped.nonces
  <2>1. send[r].stream # 0
    BY <1>8, Zenon DEF NonceInv, Numbered
  <2>2. send[r].t # send[s].t \/ send[r].stream # send[s].stream
    BY <1>8, <2>1, Zenon DEF NonceInv
  <2> QED BY <1>3, <1>8, <2>2, Zenon DEF OnStream
<1>9. \A r \in Sends : send'[r].pc \in Unwrapped =>
        \A n \in wrapped'.nonces : ~ OnStream(n, send'[r])
  <2> SUFFICES ASSUME NEW r \in Sends, send'[r].pc \in Unwrapped,
                      NEW n \in wrapped'.nonces, OnStream(n, send'[r])
               PROVE  FALSE
    OBVIOUS
  <2>1. r # s
    BY Zenon DEF Unwrapped, Unanswered
  <2>2. send'[r] = send[r] /\ n \in wrapped.nonces
    BY <1>8, <2>1
  <2> QED BY <2>2, Zenon DEF NonceInv
<1>10. \A r \in Sends : send'[r].pc \in Unanswered =>
         \A n \in wrapped'.nonces : OnStream(n, send'[r]) => n.type # "response"
  <2> SUFFICES ASSUME NEW r \in Sends, send'[r].pc \in Unanswered,
                      NEW n \in wrapped'.nonces, OnStream(n, send'[r])
               PROVE  n.type # "response"
    BY Zenon
  <2>1. CASE r # s
    <3>1. send'[r] = send[r] /\ n \in wrapped.nonces
      BY <1>8, <2>1, Zenon
    <3> QED BY <3>1, Zenon DEF NonceInv
  <2>2. CASE r = s
    <3>1. type = "data" /\ send[s].pc \in Unwrapped /\ OnStream(n, send[s])
      BY <2>2, Zenon DEF OnStream
    <3>2. n \notin wrapped.nonces
      BY <3>1, Zenon DEF NonceInv
    <3> QED BY <1>3, <3>1, <3>2, Zenon
  <2> QED BY <2>1, <2>2
<1> QED
  BY <1>3, <1>4, <1>6, <1>7, <1>9, <1>10, Zenon DEF NonceInv, OnStream

\* A call that has wrapped its cell is the same call on the same stream.
LEMMA WrapChanges ==
  ASSUME NEW q \in SendCalls
  PROVE  LET p == [q EXCEPT !.pc = "copy", !.hop = 1]
         IN  p.pc = "copy" /\ p.t = q.t /\ p.stream = q.stream
  BY DEF SendCalls

\* Stream.Open gives the call a number that none of its runtime has had.
LEMMA OpenKeeps ==
  ASSUME RoutingType, NonceInv, NEW s \in Sends, NEW t \in Runtimes, wrapped' = wrapped,
         send[s].t = t, send'[s].t = t, send'[s].pc = "count",
         send'[s].stream = streams[t].next,
         \A r \in Sends : r # s => send'[r] = send[r],
         streams'[t].next = streams[t].next + 1,
         \A u \in Runtimes : u # t => streams'[u].next = streams[u].next
  PROVE  NonceInv'
<1>1. \A u \in Runtimes : streams[u].next \in Nat /\ streams'[u].next \in Nat
                          /\ streams[u].next >= 1 /\ streams'[u].next >= streams[u].next
  BY DEF RoutingType, NonceInv
<1>2. \A r \in Sends : send[r].stream \in Nat
  BY Zenon DEF RoutingType, SendCalls
<1>3. \A r \in Sends : Numbered(send[r])'
  <2> SUFFICES ASSUME NEW r \in Sends PROVE Numbered(send[r])'
    OBVIOUS
  <2>1. CASE r = s
    BY <1>1, <2>1, SMTT(40) DEF Numbered, Unwrapped, Unanswered
  <2>2. CASE r # s
    BY <1>1, <1>2, <2>2, SMTT(40) DEF Numbered, NonceInv
  <2> QED BY <2>1, <2>2
<1>4. \A r \in Sends : r # s /\ send[r].t = t => send[r].stream # streams[t].next
  BY <1>1, <1>2, SMTT(40) DEF NonceInv, Numbered
<1>5. \A r, q \in Sends :
        r # q /\ send'[r].t = send'[q].t /\ send'[r].stream = send'[q].stream
          => send'[r].stream = 0
  BY <1>1, <1>4, SMTT(40) DEF NonceInv
<1>6. \A n \in wrapped.nonces :
        n.key[1] \in Runtimes /\ n.stream \in Nat /\ n.stream < streams'[n.key[1]].next
  BY <1>1, SMTT(40) DEF NonceInv
<1>7. \A r \in Sends : send'[r].pc \in Unwrapped =>
        \A n \in wrapped.nonces : ~ OnStream(n, send'[r])
  <2>1. \A n \in wrapped.nonces : ~ OnStream(n, send'[s])
    BY <1>1, SMTT(40) DEF OnStream, NonceInv
  <2> QED BY <2>1, Zenon DEF NonceInv
<1>8. \A r \in Sends : send'[r].pc \in Unanswered =>
        \A n \in wrapped.nonces : OnStream(n, send'[r]) => n.type # "response"
  BY DEF NonceInv, Unanswered
<1>9. \A u \in Runtimes : streams'[u].next >= 1
  BY <1>1
<1>10. NonceUnique' /\ IsFiniteSet(wrapped'.nonces) /\ wrapped'.cells \in Nat
  BY Zenon DEF NonceInv, NonceUnique
<1> QED
  BY <1>3, <1>5, <1>6, <1>7, <1>8, <1>9, <1>10, Zenon DEF NonceInv, OnStream

--------------------------------------------------------------------------------
\* The deferred Close takes no number back.
LEMMA CloseKeepsNext ==
  ASSUME RoutingType, NEW s \in Sends, closed(s)
  PROVE  \A t \in Runtimes : streams'[t].next = streams[t].next
<1> SUFFICES ASSUME NEW t \in Runtimes PROVE streams'[t].next = streams[t].next
  OBVIOUS
<1>1. streams[t] \in [next : Nat, open : SUBSET Nat, closed : BOOLEAN]
  BY DEF RoutingType
<1>2. streams' = [streams EXCEPT ![send[s].t].open = @ \ {send[s].stream}]
  BY DEF closed
<1>3. CASE t = send[s].t
  <2>1. streams'[t] = [streams[t] EXCEPT !.open = @ \ {send[s].stream}]
    BY <1>2, <1>3, Zenon DEF RoutingType
  <2> QED BY <1>1, <2>1
<1>4. CASE t # send[s].t
  BY <1>2, <1>4, Zenon DEF RoutingType
<1> QED BY <1>3, <1>4

\* A step of one call that keeps its stream.
LEMMA CallSteps ==
  ASSUME RoutingType, NonceInv, NEW s \in Sends, wrapped' = wrapped,
         \A t \in Runtimes : streams'[t].next = streams[t].next,
         \A r \in Sends : r # s => send'[r] = send[r],
         SameStream(send[s], send'[s])
  PROVE  NonceInv'
<1>1. \A r \in Sends : SameStream(send[r], send'[r])
  <2> SUFFICES ASSUME NEW r \in Sends PROVE SameStream(send[r], send'[r])
    OBVIOUS
  <2>1. CASE r = s
    BY <2>1
  <2>2. CASE r # s
    BY <2>2 DEF SameStream
  <2> QED BY <2>1, <2>2
<1> QED BY <1>1, NothingWrapped

\* A call that only changes its place.
LEMMA PlaceChanges ==
  ASSUME RoutingType, NEW s \in Sends, NEW p, send' = [send EXCEPT ![s].pc = p]
  PROVE  /\ send'[s].pc = p /\ send'[s].t = send[s].t /\ send'[s].stream = send[s].stream
         /\ \A r \in Sends : r # s => send'[r] = send[r]
<1>1. send[s] \in SendCalls
  BY DEF RoutingType
<1>2. send'[s] = [send[s] EXCEPT !.pc = p]
  BY Zenon DEF RoutingType
<1>3. \A r \in Sends : r # s => send'[r] = send[r]
  BY Zenon DEF RoutingType
<1> QED BY <1>1, <1>2, <1>3 DEF SendCalls

\* A call that returns without wrapping.
LEMMA ReturnKeepsNonces ==
  ASSUME RoutingType, NonceInv, NEW s \in Sends, wrapped' = wrapped,
         send[s].pc \notin {"idle", "open"}, Done(s)
  PROVE  NonceInv'
<1>1. send' = [send EXCEPT ![s].pc = "done"] /\ closed(s)
  BY DEF Done
<1>2. /\ send'[s].pc = "done" /\ send'[s].t = send[s].t /\ send'[s].stream = send[s].stream
      /\ \A r \in Sends : r # s => send'[r] = send[r]
  BY <1>1, PlaceChanges, Zenon
<1>3. SameStream(send[s], send'[s])
  BY <1>2 DEF SameStream, Unwrapped, Unanswered
<1>4. \A t \in Runtimes : streams'[t].next = streams[t].next
  BY <1>1, CloseKeepsNext, Zenon
<1> QED BY <1>2, <1>3, <1>4, CallSteps

\* The steps of relays and runtimes: no call moves.
LEMMA OtherStepsKeepNonces ==
  ASSUME RoutingType, NonceInv,
         \/ \E t \in Runtimes : BuildHop(t) \/ BuildFails(t) \/ CloseAll(t)
         \/ \E x \in Relays : Stop(x) \/ \E p \in Policies : SetExitPolicy(x, p)
         \/ \E t \in Runtimes : StartTeardown(t) \/ Teardown(t)
         \/ UNCHANGED vars
  PROVE  NonceInv'
<1>1. UNCHANGED << send, wrapped >>
  BY ZenonT(40) DEF BuildHop, BuildFails, CloseAll, Stop, SetExitPolicy, StartTeardown, Teardown, vars
<1>2. UNCHANGED streams \/ \E t \in Runtimes : CloseAll(t)
  BY Zenon DEF BuildHop, BuildFails, Stop, SetExitPolicy, StartTeardown, Teardown, runtimeVars, vars
<1>3. \A t \in Runtimes : streams'[t].next = streams[t].next
  <2>1. ASSUME NEW u \in Runtimes, CloseAll(u), NEW t \in Runtimes
        PROVE  streams'[t].next = streams[t].next
    <3>1. streams[t] \in [next : Nat, open : SUBSET Nat, closed : BOOLEAN]
      BY DEF RoutingType
    <3>2. streams' = [streams EXCEPT ![u].open = {}, ![u].closed = TRUE]
      BY <2>1 DEF CloseAll
    <3>3. CASE t = u
      <4>1. streams'[t] = [streams[t] EXCEPT !.open = {}, !.closed = TRUE]
        BY <3>2, <3>3, Zenon DEF RoutingType
      <4> QED BY <3>1, <4>1
    <3>4. CASE t # u
      BY <3>2, <3>4, Zenon DEF RoutingType
    <3> QED BY <3>3, <3>4
  <2> QED BY <1>2, <2>1
<1>4. \A s \in Sends : SameStream(send[s], send'[s])
  BY <1>1 DEF SameStream
<1> QED BY <1>1, <1>3, <1>4, NothingWrapped

\* The steps of a call.
LEMMA SendStepKeepsNonces ==
  ASSUME RoutingInv, NonceInv, NEW s \in Sends, SendStep(s)
  PROVE  NonceInv'
<1>0. RoutingType /\ CallsInPlace /\ InPlace(send[s]) /\ send[s] \in SendCalls /\ Numbered(send[s])
  BY DEF RoutingInv, CallsInPlace, RoutingType, NonceInv
<1>1. ASSUME NEW t \in Runtimes, NEW d \in Destinations, StartSend(s, t, d) PROVE NonceInv'
  <2> DEFINE q == [send[s] EXCEPT !.pc = "open", !.t = t, !.dest = d]
  <2>1. send' = [send EXCEPT ![s] = q] /\ send[s].pc = "idle"
        /\ UNCHANGED << streams, wrapped >>
    BY <1>1, Zenon DEF StartSend, runtimeVars
  <2>2. q.pc = "open" /\ q.stream = send[s].stream
    BY <1>0 DEF SendCalls
  <2> HIDE DEF q
  <2>3. send'[s] = q /\ \A r \in Sends : r # s => send'[r] = send[r]
    BY <1>0, <2>1, Zenon DEF RoutingType
  <2>4. SameStream(send[s], send'[s])
    BY <1>0, <2>1, <2>2, <2>3 DEF SameStream, Numbered, Unwrapped, Unanswered
  <2> QED BY <1>0, <2>1, <2>3, <2>4, CallSteps
<1>2. ASSUME Open(s) PROVE NonceInv'
  <2> DEFINE t == send[s].t
             id == streams[t].next
             q == [send[s] EXCEPT !.pc = "count", !.stream = id, !.read = opened[t]]
  <2>1. t \in Runtimes /\ wrapped' = wrapped
    BY <1>0, <1>2 DEF Open, InPlace
  <2>2. send' = [send EXCEPT ![s] = q]
    BY <1>2, Zenon DEF Open
  <2>3. streams' = [streams EXCEPT ![t].next = id + 1, ![t].open = @ \cup {id}]
    BY <1>2 DEF Open
  <2>4. q.pc = "count" /\ q.stream = id /\ q.t = t
    BY <1>0 DEF SendCalls
  <2>5. streams'[t].next = id + 1
    <3>1. streams[t] \in [next : Nat, open : SUBSET Nat, closed : BOOLEAN]
      BY <1>0, <2>1 DEF RoutingType
    <3>2. streams'[t] = [streams[t] EXCEPT !.next = id + 1, !.open = @ \cup {id}]
      BY <1>0, <2>1, <2>3, Zenon DEF RoutingType
    <3> QED BY <3>1, <3>2
  <2>6. \A u \in Runtimes : u # t => streams'[u].next = streams[u].next
    BY <1>0, <2>1, <2>3, Zenon DEF RoutingType
  <2> HIDE DEF q
  <2>7. send'[s] = q /\ \A r \in Sends : r # s => send'[r] = send[r]
    BY <1>0, <2>2, Zenon DEF RoutingType
  <2> QED BY <1>0, <2>1, <2>4, <2>5, <2>6, <2>7, OpenKeeps, Zenon
<1>3. ASSUME NEW p, send' = [send EXCEPT ![s].pc = p], UNCHANGED << streams, wrapped >>,
             \/ send[s].pc = "open" /\ p = "done"
             \/ send[s].pc = "count" /\ p = "wrap"
             \/ send[s].pc = "exit" /\ p = "service"
      PROVE  NonceInv'
  <2>1. /\ send'[s].pc = p /\ send'[s].t = send[s].t /\ send'[s].stream = send[s].stream
        /\ \A r \in Sends : r # s => send'[r] = send[r]
    BY <1>0, <1>3, PlaceChanges, Zenon
  <2>2. SameStream(send[s], send'[s])
    BY <1>3, <2>1 DEF SameStream, Unwrapped, Unanswered
  <2> QED BY <1>0, <1>3, <2>1, <2>2, CallSteps
<1>4. ASSUME OpenFails(s) \/ Count(s) \/ RecordExitDestination(s) PROVE NonceInv'
  BY <1>3, <1>4, Zenon DEF OpenFails, Count, RecordExitDestination, runtimeVars
<1>5. ASSUME Wrap(s) PROVE NonceInv'
  <2> DEFINE q == [send[s] EXCEPT !.pc = "copy", !.hop = 1]
  <2>1. send[s].pc = "wrap" /\ wrap(s, "data") /\ UNCHANGED streams
    BY <1>5 DEF Wrap, runtimeVars
  <2>2. send' = [send EXCEPT ![s] = q]
    BY <1>5, Zenon DEF Wrap
  <2>3. q.pc = "copy" /\ q.t = send[s].t /\ q.stream = send[s].stream
    BY <1>0, WrapChanges, Zenon
  <2> HIDE DEF q
  <2>4. send'[s] = q /\ \A r \in Sends : r # s => send'[r] = send[r]
    BY <1>0, <2>2, Zenon DEF RoutingType
  <2>5. send[s].pc \in Unwrapped /\ send'[s].pc \in Unanswered
    BY <2>1, <2>3, <2>4 DEF Unwrapped, Unanswered
  <2> QED BY <1>0, <2>1, <2>3, <2>4, <2>5, WrapKeeps, Zenon
<1>6. ASSUME Respond(s) PROVE NonceInv'
  <2>1. send[s].pc = "service" /\ wrap(s, "response") /\ Done(s)
    BY <1>6 DEF Respond
  <2>2. send' = [send EXCEPT ![s].pc = "done"] /\ closed(s)
    BY <2>1 DEF Done
  <2>3. /\ send'[s].pc = "done" /\ send'[s].t = send[s].t /\ send'[s].stream = send[s].stream
        /\ \A r \in Sends : r # s => send'[r] = send[r]
    BY <1>0, <2>2, PlaceChanges, Zenon
  <2>4. \A t \in Runtimes : streams'[t].next = streams[t].next
    BY <1>0, <2>2, CloseKeepsNext, Zenon
  <2>5. send[s].pc \in Unanswered /\ "done" \notin Unanswered
    BY <2>1 DEF Unanswered
  <2> QED BY <1>0, <2>1, <2>3, <2>4, <2>5, WrapKeeps, Zenon
<1>7. ASSUME ProcessCellCopy(s) PROVE NonceInv'
  <2> DEFINE q == [send[s] EXCEPT !.pc = "unwrap",
                                  !.copy = sessions[Path[send[s].t][send[s].hop]][Path[send[s].t]]]
  <2>1. send[s].pc = "copy" /\ UNCHANGED << streams, wrapped >>
    BY <1>7 DEF ProcessCellCopy, runtimeVars
  <2>2. send' = [send EXCEPT ![s] = q]
    BY <1>7, Zenon DEF ProcessCellCopy
  <2>3. q.pc = "unwrap" /\ q.t = send[s].t /\ q.stream = send[s].stream
    BY <1>0, Zenon DEF SendCalls
  <2> HIDE DEF q
  <2>4. send'[s] = q /\ \A r \in Sends : r # s => send'[r] = send[r]
    BY <1>0, <2>2, Zenon DEF RoutingType
  <2>5. SameStream(send[s], send'[s])
    BY <2>1, <2>3, <2>4 DEF SameStream, Unwrapped, Unanswered
  <2> QED BY <1>0, <2>1, <2>4, <2>5, CallSteps, ZenonT(40)
<1>8. ASSUME ProcessCellWrite(s) PROVE NonceInv'
  <2> DEFINE q == [send[s] EXCEPT !.pc = IF send[s].hop = 3 THEN "exit" ELSE "copy",
                                  !.hop = IF @ = 3 THEN @ ELSE @ + 1]
  <2>1. send[s].pc = "unwrap" /\ UNCHANGED << streams, wrapped >>
    BY <1>8, Zenon DEF ProcessCellWrite, runtimeVars
  <2>2. send' = [send EXCEPT ![s] = q]
    BY <1>8, Zenon DEF ProcessCellWrite
  <2>3. q.pc \in {"exit", "copy"} /\ q.t = send[s].t /\ q.stream = send[s].stream
    BY <1>0 DEF SendCalls
  <2> HIDE DEF q
  <2>4. send'[s] = q /\ \A r \in Sends : r # s => send'[r] = send[r]
    BY <1>0, <2>2, Zenon DEF RoutingType
  <2>5. SameStream(send[s], send'[s])
    BY <2>1, <2>3, <2>4 DEF SameStream, Unwrapped, Unanswered
  <2> QED BY <1>0, <2>1, <2>4, <2>5, CallSteps, Zenon
<1>9. ASSUME Cancelled(s) \/ ProcessCellFails(s) \/ ExitRefused(s) \/ ServiceFails(s)
      PROVE  NonceInv'
  <2>1. send[s].pc \in {"wrap", "copy", "unwrap", "exit", "service"} /\ Done(s) /\ wrapped' = wrapped
    BY <1>9, Zenon DEF Cancelled, ProcessCellFails, ExitRefused, ServiceFails
  <2>2. send[s].pc \notin {"idle", "open"}
    BY <2>1, Zenon
  <2> QED BY <1>0, <2>1, <2>2, ReturnKeepsNonces, Zenon
<1> QED
  BY <1>1, <1>2, <1>4, <1>5, <1>6, <1>7, <1>8, <1>9, ZenonT(40) DEF SendStep, ServeConn

LEMMA NonceInit == Init => NonceInv
<1> SUFFICES ASSUME Init PROVE NonceInv
  OBVIOUS
<1>1. /\ wrapped.nonces = {} /\ wrapped.cells = 0
      /\ \A t \in Runtimes : streams[t].next = 1
      /\ \A s \in Sends : send[s].pc = "idle" /\ send[s].stream = 0
  BY DEF Init
<1>2. IsFiniteSet({}) /\ Cardinality({}) = 0
  BY FS_EmptySet
<1> QED
  BY <1>1, <1>2, SMTT(40) DEF NonceInv, Numbered, NonceUnique, Unwrapped, Unanswered

\* No nonce is used twice under one layer key: the counter that goes into it is
\* updated unlocked and may repeat, but a runtime numbers its streams apart and a
\* stream carries one payload and one response (stream.go: Open; WrapLayer).
THEOREM NoncesAreUnique == Spec => []NonceUnique
<1>1. RoutingInv /\ NonceInv /\ [Next]_vars => NonceInv'
  <2> SUFFICES ASSUME RoutingInv, NonceInv, [Next]_vars PROVE NonceInv'
    OBVIOUS
  <2>1. RoutingType
    BY DEF RoutingInv
  <2>2. ASSUME NEW s \in Sends, SendStep(s) PROVE NonceInv'
    BY <2>2, SendStepKeepsNonces, Zenon
  <2> QED BY <2>1, <2>2, OtherStepsKeepNonces, Zenon DEF Next
<1>2. NonceInv => NonceUnique
  BY DEF NonceInv
<1> QED BY <1>1, <1>2, InitRouting, NextKeeps, NonceInit, PTL DEF Spec

================================================================================
