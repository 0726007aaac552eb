----------------------------- MODULE AdminSocket -----------------------------
(***************************************************************************)
(* The unix socket between stealthctl and the daemon: send_request in      *)
(* src/src/bin/stealthctl.rs, spawn_admin_loop and handle_admin_connection *)
(* in src/src/daemon.rs.  Connections share no state on this level, so one *)
(* call is followed; what a request does inside the daemon is in Daemon.   *)
(*                                                                         *)
(* A stream is counted in chunks: what one end has written, what the other *)
(* has read, at most Buffer chunks in between.  A proper prefix of a JSON  *)
(* value is not one, so a message parses exactly when it is whole.         *)
(***************************************************************************)
EXTENDS Naturals

CONSTANTS
  Buffer,          \* capacity of a stream in one direction
  RequestLen,      \* chunks of the request,
  ResponseLen,     \* and of the response
  MaxCrashes,      \* bound on daemon processes that die
  MaxCalls         \* bound on runs of stealthctl

ASSUME LengthAssumption ==
  /\ Buffer \in Nat \ {0} /\ RequestLen \in Nat \ {0} /\ ResponseLen \in Nat \ {0}
  /\ MaxCrashes \in Nat /\ MaxCalls \in Nat

VARIABLES
  daemon,          \* of the daemon process: "down", "starting", "up"
  socket,          \* the socket path: "absent", "stale" (no listener), "bound"
  ctl,             \* where stealthctl is
  thread,          \* where the thread of its connection is
  sent, read,      \* the request: chunks written, and read by the daemon
  eof,             \* stealthctl has shut down its writing half
  written, received,  \* the response: chunks written, and read by stealthctl
  crashes, calls

up   == <<sent, read, eof>>
down == <<written, received>>
vars == <<daemon, socket, ctl, thread, up, down, crashes, calls>>

CtlGone == ctl \in {"printed", "failed", "killed"}
-----------------------------------------------------------------------------
(***************************************************************************)
(* The daemon process and its socket path.                                 *)
(***************************************************************************)
\* Mutant: the file of the previous process is left where it is.
RemoveSocket_Not ==
  /\ daemon = "down" /\ daemon' = "starting"
  /\ UNCHANGED <<socket, ctl, thread, up, down, crashes, calls>>

RemoveSocket ==
  /\ daemon = "down" /\ daemon' = "starting"
  /\ socket' = "absent"
  /\ UNCHANGED <<ctl, thread, up, down, crashes, calls>>

\* bind needs a free path; where it fails, so does the daemon.
BindSocket ==
  /\ daemon = "starting"
  /\ IF socket = "absent" THEN daemon' = "up" /\ socket' = "bound"
                          ELSE daemon' = "down" /\ UNCHANGED socket
  /\ UNCHANGED <<ctl, thread, up, down, crashes, calls>>

\* The process dies and its connections with it; the path stays.
Crash ==
  /\ daemon = "up" /\ crashes < MaxCrashes
  /\ crashes' = crashes + 1
  /\ daemon' = "down" /\ socket' = "stale"
  /\ thread' = IF thread = "none" THEN "none" ELSE "gone"
  /\ UNCHANGED <<ctl, up, down, calls>>
-----------------------------------------------------------------------------
(***************************************************************************)
(* stealthctl.                                                             *)
(***************************************************************************)
\* A run of stealthctl; its connection is queued at the listener.
Connect ==
  /\ ctl = "idle" \/ (CtlGone /\ thread \in {"none", "gone"})
  /\ calls < MaxCalls /\ calls' = calls + 1
  /\ IF socket = "bound" THEN ctl' = "writing" /\ thread' = "queued"
                         ELSE ctl' = "failed" /\ thread' = "none"
  /\ sent' = 0 /\ read' = 0 /\ eof' = FALSE /\ written' = 0 /\ received' = 0
  /\ UNCHANGED <<daemon, socket, crashes>>

\* write_all; it fails when the other end is gone.
WriteRequest ==
  /\ ctl = "writing" /\ sent < RequestLen
  /\ \/ thread = "gone" /\ ctl' = "failed" /\ UNCHANGED sent
     \/ /\ thread # "gone" /\ sent - read < Buffer
        /\ sent' = sent + 1 /\ UNCHANGED ctl
  /\ UNCHANGED <<daemon, socket, thread, read, eof, down, crashes, calls>>

\* Mutant: the writing half stays open.
ShutdownWrite_Not ==
  /\ ctl = "writing" /\ sent = RequestLen
  /\ ctl' = "reading"
  /\ UNCHANGED <<daemon, socket, thread, up, down, crashes, calls>>

ShutdownWrite ==
  /\ ctl = "writing" /\ sent = RequestLen
  /\ ctl' = "reading" /\ eof' = TRUE
  /\ UNCHANGED <<daemon, socket, thread, sent, read, down, crashes, calls>>

ReadResponse ==
  /\ ctl = "reading" /\ received < written
  /\ received' = received + 1
  /\ UNCHANGED <<daemon, socket, ctl, thread, up, written, crashes, calls>>

\* End of file: the response is printed if it is whole.
Finish ==
  /\ ctl = "reading" /\ received = written /\ thread = "gone"
  /\ ctl' = IF received = ResponseLen THEN "printed" ELSE "failed"
  /\ UNCHANGED <<daemon, socket, thread, up, down, crashes, calls>>

Kill ==
  /\ ctl \in {"writing", "reading"} /\ ctl' = "killed"
  /\ UNCHANGED <<daemon, socket, thread, up, down, crashes, calls>>
-----------------------------------------------------------------------------
(***************************************************************************)
(* handle_admin_connection, in a thread of its own.                        *)
(***************************************************************************)
ThreadGoes(from, to) ==
  /\ thread = from /\ thread' = to
  /\ UNCHANGED <<daemon, socket, ctl, up, crashes, calls>>

Accept == ThreadGoes("queued", "reading") /\ UNCHANGED down

ReadRequest ==
  /\ thread = "reading" /\ read < sent
  /\ read' = read + 1
  /\ UNCHANGED <<daemon, socket, ctl, thread, sent, eof, down, crashes, calls>>

\* Mutant: the request is what a single read returns.
Handle_OneRead ==
  /\ read > 0
  /\ ThreadGoes("reading", IF read = RequestLen THEN "writing" ELSE "gone")
  /\ UNCHANGED down

\* End of file: the request is handled if it is whole, else the connection is
\* closed.  What handling does and how long it takes is in Daemon.
Handle ==
  /\ read = sent /\ (eof \/ CtlGone)
  /\ ThreadGoes("reading", IF read = RequestLen THEN "writing" ELSE "gone")
  /\ UNCHANGED down

\* write_all, then the stream is dropped; a failed write is only logged.
WriteResponse ==
  /\ thread = "writing"
  /\ \/ CtlGone /\ thread' = "gone" /\ UNCHANGED written
     \/ /\ ~CtlGone /\ written < ResponseLen /\ written - received < Buffer
        /\ written' = written + 1
        /\ thread' = IF written' = ResponseLen THEN "gone" ELSE "writing"
  /\ UNCHANGED <<daemon, socket, ctl, up, received, crashes, calls>>
-----------------------------------------------------------------------------
Init ==
  /\ daemon = "down" /\ socket = "absent"
  /\ ctl = "idle" /\ thread = "none"
  /\ sent = 0 /\ read = 0 /\ eof = FALSE /\ written = 0 /\ received = 0
  /\ crashes = 0 /\ calls = 0

Process == RemoveSocket \/ BindSocket
Ctl     == WriteRequest \/ ShutdownWrite \/ ReadResponse \/ Finish
Thread  == Accept \/ ReadRequest \/ Handle \/ WriteResponse

Next == Process \/ Crash \/ Connect \/ Ctl \/ Kill \/ Thread

Spec == Init /\ [][Next]_vars

\* The daemon is restarted (compose.yaml), and runnable code runs.
FairSpec == Spec /\ WF_vars(Process) /\ WF_vars(Ctl) /\ WF_vars(Thread)
-----------------------------------------------------------------------------
\* Every variable has its type: no buffer overflows, nothing is read that was
\* not written, and a process finds the path free when it binds it.
TypeOK ==
  /\ daemon \in {"down", "starting", "up"}
  /\ daemon = "down" => socket \in {"absent", "stale"}
  /\ daemon = "starting" => socket = "absent"
  /\ daemon = "up" => socket = "bound"
  /\ ctl \in {"idle", "writing", "reading", "printed", "failed", "killed"}
  /\ thread \in {"none", "queued", "reading", "writing", "gone"}
  /\ sent \in 0 .. RequestLen /\ read \in 0 .. RequestLen
  /\ written \in 0 .. ResponseLen /\ received \in 0 .. ResponseLen
  /\ sent - read \in 0 .. Buffer /\ written - received \in 0 .. Buffer
  /\ eof \in BOOLEAN /\ crashes \in Nat /\ calls \in Nat

\* A call whose connection is not broken prints its response, also when the
\* request and the response do not fit into the buffers: neither end takes a
\* part for the whole.
CallsSucceed ==
  ctl = "writing" /\ thread = "queued" /\ crashes = MaxCrashes
    ~> ctl \in {"printed", "killed"}

\* A call ends, and so does the thread that serves it, whatever happens to the
\* other end: the two never wait for each other.
CallsEnd == /\ ctl \in {"writing", "reading"} ~> CtlGone
            /\ thread = "queued" ~> thread = "gone"

\* A daemon that has crashed serves its socket again, and for good if it
\* crashes no more.
ServesAgain == crashes = MaxCrashes ~> [](socket = "bound" /\ daemon = "up")
=============================================================================
