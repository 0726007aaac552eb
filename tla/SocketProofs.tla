---------------------------- MODULE SocketProofs ----------------------------
(***************************************************************************)
(* Proofs about the admin socket, for streams and messages of any length   *)
(* and any number of crashes.                                              *)
(***************************************************************************)
EXTENDS AdminSocket, TLAPS

\* TypeOK in two parts, of numbers and of truth values.
Path == /\ daemon \in {"down", "starting", "up"}
        /\ daemon = "down" => socket \in {"absent", "stale"}
        /\ daemon = "starting" => socket = "absent"
        /\ daemon = "up" => socket = "bound"
Ends == /\ ctl \in {"idle", "writing", "reading", "printed", "failed", "killed"}
        /\ thread \in {"none", "queued", "reading", "writing", "gone"}
Streams == /\ sent \in 0 .. RequestLen /\ read \in 0 .. RequestLen
           /\ written \in 0 .. ResponseLen /\ received \in 0 .. ResponseLen
           /\ sent - read \in 0 .. Buffer /\ written - received \in 0 .. Buffer
           /\ crashes \in Nat /\ calls \in Nat

LEMMA Parts == TypeOK <=> Path /\ Ends /\ Streams /\ eof \in BOOLEAN
BY Zenon DEF TypeOK, Path, Ends, Streams

LEMMA EofStep == ASSUME eof \in BOOLEAN, [Next]_vars PROVE eof' \in BOOLEAN
BY Zenon DEF Next, vars, Process, RemoveSocket, BindSocket, Crash, Connect, Ctl,
       WriteRequest, ShutdownWrite, ReadResponse, Finish, Kill, Thread, Accept,
       ReadRequest, Handle, WriteResponse, ThreadGoes, up

LEMMA PathStep == ASSUME Path, [Next]_vars PROVE Path'
<1>1. CASE RemoveSocket \/ BindSocket \/ Crash
  BY <1>1 DEF RemoveSocket, BindSocket, Crash, Path
<1>2. CASE Connect \/ Ctl \/ Kill \/ Thread \/ UNCHANGED vars
  <2>1. UNCHANGED <<daemon, socket>>
    BY <1>2 DEF Connect, Ctl, WriteRequest, ShutdownWrite, ReadResponse, Finish,
         Kill, Thread, Accept, ReadRequest, Handle, WriteResponse, ThreadGoes, vars
  <2> QED
    BY <2>1 DEF Path
<1> QED
  BY <1>1, <1>2 DEF Next, Process

LEMMA StreamsStep ==
  ASSUME Ends, Streams, [Next]_vars PROVE Ends' /\ Streams'
<1>1. CASE RemoveSocket \/ BindSocket \/ Crash \/ Kill \/ UNCHANGED vars
  BY <1>1 DEF RemoveSocket, BindSocket, Crash, Kill, vars, up, down, Ends, Streams
<1>2. CASE Connect
  BY <1>2, LengthAssumption DEF Connect, Ends, Streams
<1>3. CASE WriteRequest \/ ReadResponse
  BY <1>3, LengthAssumption DEF WriteRequest, ReadResponse, up, down, Ends, Streams
<1>4. CASE ShutdownWrite \/ Finish
  BY <1>4 DEF ShutdownWrite, Finish, up, down, Ends, Streams
<1>5. CASE Accept \/ ReadRequest \/ WriteResponse
  BY <1>5, LengthAssumption DEF Accept, ThreadGoes, ReadRequest, WriteResponse, up, down, Ends, Streams
<1>6. CASE Handle
  <2>1. thread' \in {"writing", "gone"} /\ UNCHANGED <<ctl, sent, read, down, crashes, calls>>
    BY <1>6 DEF Handle, ThreadGoes, up
  <2> QED
    BY <2>1 DEF Ends, Streams, down
<1> QED
  BY <1>1, <1>2, <1>3, <1>4, <1>5, <1>6 DEF Next, Process, Ctl, Thread

\* The daemon finds its path free whenever it binds it, whatever processes
\* before it left behind (spawn_admin_loop removes the file first), and
\* neither end of a connection reads what the other has not written.
THEOREM SocketTypes == Spec => []TypeOK
<1>1. Init => TypeOK
  <2> SUFFICES ASSUME Init PROVE TypeOK
    OBVIOUS
  <2>1. Path /\ Ends /\ Streams
    BY LengthAssumption DEF Init, Path, Ends, Streams
  <2>2. eof \in BOOLEAN
    BY DEF Init
  <2> QED
    BY <2>1, <2>2, Parts
<1>2. TypeOK /\ [Next]_vars => TypeOK'
  <2> SUFFICES ASSUME TypeOK, [Next]_vars PROVE TypeOK'
    OBVIOUS
  <2>1. Path /\ Ends /\ Streams /\ eof \in BOOLEAN
    BY Parts
  <2>2. Path' /\ Ends' /\ Streams' /\ eof' \in BOOLEAN
    BY <2>1, PathStep, StreamsStep, EofStep
  <2> QED
    BY <2>2, Zenon DEF TypeOK, Path, Ends, Streams
<1> QED
  BY <1>1, <1>2, PTL DEF Spec
=============================================================================
