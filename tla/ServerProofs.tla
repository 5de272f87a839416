---------------------------- MODULE ServerProofs ----------------------------
(***************************************************************************)
(* The safety properties of Server hold for any number of connections.     *)
(***************************************************************************)
EXTENDS Server, TLAPS

\* The server is gone, or closes its database: no connection is left.
NoneOpen == phase = "closing" \/ (phase = "exited" /\ code = 0) => AllClosed

FlagFollows == Started /\ driver /\ ~errored => connected

Fresh == phase = "booting" => cause = "none" /\ code = 0

IndInv == TypeOK /\ NoneOpen /\ FlagFollows /\ Fresh

LEMMA InitOK == Init => IndInv
  BY DEF Init, IndInv, TypeOK, NoneOpen, FlagFollows, Fresh, Phases, Started

LEMMA StepOK == IndInv /\ [Next]_vars => IndInv'
  <1> SUFFICES ASSUME IndInv, [Next]_vars PROVE IndInv'
    OBVIOUS
  <1> USE DEF IndInv, TypeOK, NoneOpen, FlagFollows, Fresh, Phases, Started, mongo, AllClosed
  <1>1. CASE AbortBoot
    BY <1>1 DEF AbortBoot, Exit
  <1>2. CASE Start
    BY <1>2 DEF Start, FlagOnConnected
  <1>3. CASE Restart
    BY <1>3 DEF Restart
  <1>4. CASE Reconnected \/ Disconnected \/ DriverError
    BY <1>4 DEF Reconnected, Disconnected, DriverError, FlagOnDisconnected
  <1>5. ASSUME NEW c \in Conns, Request(c) PROVE IndInv'
    BY <1>5 DEF Request
  <1>6. ASSUME NEW c \in Conns, Write(c) PROVE IndInv'
    BY <1>6 DEF Write
  <1>7. ASSUME NEW c \in Conns, Finish(c) PROVE IndInv'
    BY <1>7 DEF Finish
  <1>8. ASSUME NEW c \in Conns, Close(c) PROVE IndInv'
    BY <1>8 DEF Close
  <1>9. ASSUME NEW c \in Conns, Uncaught(c) PROVE IndInv'
    BY <1>9 DEF Uncaught, Shutdown
  <1>10. CASE Signal
    BY <1>10 DEF Signal, Shutdown
  <1>11. CASE Drained
    BY <1>11 DEF Drained
  <1>12. CASE DisconnectMongo
    BY <1>12 DEF DisconnectMongo, Exit
  <1>13. CASE ForceExit
    BY <1>13 DEF ForceExit, Armed, Exit
  <1>14. CASE UNCHANGED vars
    BY <1>14 DEF vars
  <1> QED
    BY <1>1, <1>2, <1>3, <1>4, <1>5, <1>6, <1>7, <1>8, <1>9, <1>10, <1>11, <1>12,
       <1>13, <1>14 DEF Next

LEMMA Invariance == Spec => []IndInv
  BY InitOK, StepOK, PTL DEF Spec

\* Types, and what the flag and the connections have to do with the phase.
THEOREM TypeCorrect == Spec => []TypeOK
  BY Invariance, PTL DEF IndInv

\* However requests, clients, signals and the driver interleave, no clean exit
\* cuts a request that somebody waits for.
THEOREM CleanExit == Spec => []CleanExitCutsNothing
  <1>1. IndInv => CleanExitCutsNothing
    BY DEF IndInv, NoneOpen, AllClosed, CleanExitCutsNothing
  <1> QED
    BY <1>1, Invariance, PTL

\* Readiness follows the connection, but for errors.
THEOREM Readiness == Spec => []ReadyFollowsDriver
  <1>1. IndInv => ReadyFollowsDriver
    BY DEF IndInv, FlagFollows, ReadyFollowsDriver, IsMongoReady
  <1> QED
    BY <1>1, Invariance, PTL
=============================================================================
