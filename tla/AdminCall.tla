----------------------------- MODULE AdminCall -----------------------------
(***************************************************************************)
(* What a daemon promises to stealthctl (src/src/admin.rs), with no        *)
(* network, table or timer: a PING of count n collects n results and a     *)
(* CLIENTS request one, each result is a failure or the answer of the node *)
(* that was asked, and the response follows when all are there.            *)
(***************************************************************************)
EXTENDS Naturals, Sequences

CONSTANTS
  Thread, Command,
  Iterations(_),      \* how many results a command asks for
  Rightful(_, _)      \* the results a thread may collect for a command

VARIABLES call, request, answers
vars == <<call, request, answers>>

Init ==
  /\ call = [t \in Thread |-> "new"]
  /\ answers = [t \in Thread |-> <<>>]

Open(t) ==
  /\ call[t] = "new"
  /\ call' = [call EXCEPT ![t] = "open"]
  /\ \E c \in Command : request' = [request EXCEPT ![t] = c]
  /\ UNCHANGED answers

Answer(t) ==
  /\ call[t] = "open" /\ Len(answers[t]) < Iterations(request[t])
  /\ \E r \in Rightful(t, request[t]) :
       answers' = [answers EXCEPT ![t] = Append(@, r)]
  /\ UNCHANGED <<call, request>>

Close(t) ==
  /\ call[t] = "open" /\ Len(answers[t]) = Iterations(request[t])
  /\ call' = [call EXCEPT ![t] = "closed"]
  /\ UNCHANGED <<request, answers>>

\* The process dies: the open connections of a node break together.
Abort(ts) ==
  /\ \A t \in ts : call[t] # "new"
  /\ call' = [t \in Thread |-> IF t \in ts THEN "closed" ELSE call[t]]
  /\ UNCHANGED <<request, answers>>

Next ==
  \/ \E t \in Thread : Open(t) \/ Answer(t) \/ Close(t)
  \/ \E ts \in SUBSET Thread : Abort(ts)

Spec == Init /\ [][Next]_vars /\ \A t \in Thread : WF_vars(Answer(t) \/ Close(t))
=============================================================================
