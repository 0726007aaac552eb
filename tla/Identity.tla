------------------------------ MODULE Identity ------------------------------
(***************************************************************************)
(* The identities of the nodes (src/src/crypto.rs, GatewayDaemon::new):    *)
(* how a node gets its key file, how the operator brings the public keys   *)
(* into the files of the peers, and which key two nodes derive.            *)
(*                                                                         *)
(* A secret and its public key are one number, drawn afresh each time.     *)
(* X25519, HKDF and the AEAD are taken as ideal: the derived key is the    *)
(* pair of secrets with the context, and a frame opens with the key that   *)
(* sealed it.  A process may die between any two steps; the machine does   *)
(* not, so what was written stays.                                         *)
(***************************************************************************)
EXTENDS Naturals, FiniteSets

CONSTANTS
  Node,        \* node ids, numbered in the order of their names
  Peers,       \* the ids in the [[peers]] entries of each node's file
  MaxCrashes,  \* bound on processes that die
  MaxRemoved   \* bound on good key files that the operator removes

ASSUME NodeAssumption ==
  Node \subseteq Nat /\ Peers \in [Node -> SUBSET Node]
ASSUME BoundAssumption == MaxCrashes \in Nat /\ MaxRemoved \in Nat

\* An Option is a set: {} is None, {x} is Some(x).
Key == Nat \ {0}
NoKey == {}

VARIABLES
  exists,      \* whether the key file is there
  key_file,    \* its content, NoKey when it is torn
  drawn,       \* keys drawn so far
  phase,       \* of each process
  secret,      \* the identity it holds
  peer_key,    \* the public keys it has derived shared keys from
  shown,       \* the public key last seen in the log of a node
  entry,       \* public_key of the [[peers]] entries, NoKey: still to fill in
  removed,     \* keys whose files the operator has removed
  crashes

disk == <<exists, key_file, drawn>>
operator == <<entry, removed>>
vars == <<disk, phase, secret, peer_key, shown, operator, crashes>>

Phase == {"down", "writing", "loaded", "running"}
-----------------------------------------------------------------------------
\* Mutant: the ids in the order the node sees them.
Context_Unsorted(n, m) == <<n, m>>

\* symmetric_context: the same at both ends.
Context(n, m) == IF n <= m THEN <<n, m>> ELSE <<m, n>>

\* derive_shared_key, of the identity of n and the public key it has of m.
SharedKey(n, m) == [secrets |-> secret[n] \cup peer_key[n][m],
                    context |-> Context(n, m)]

\* encrypt at n and decrypt at m: the frame opens.
Opens(n, m) == SharedKey(n, m) = SharedKey(m, n)
-----------------------------------------------------------------------------
GoTo(n, from, to) == phase[n] = from /\ phase' = [phase EXCEPT ![n] = to]

\* load_or_generate reads the file, and new logs the public key.  A torn file
\* is refused: the process ends as if it had not begun.
Load(n) ==
  /\ exists[n] /\ key_file[n] # NoKey
  /\ GoTo(n, "down", "loaded")
  /\ secret' = [secret EXCEPT ![n] = key_file[n]]
  /\ shown' = [shown EXCEPT ![n] = key_file[n]]
  /\ UNCHANGED <<disk, peer_key, operator, crashes>>

\* Mutant: the public key is logged before the file is written.
Generate_Shows(n) ==
  /\ ~exists[n] /\ GoTo(n, "down", "writing")
  /\ drawn' = drawn + 1
  /\ exists' = [exists EXCEPT ![n] = TRUE]
  /\ secret' = [secret EXCEPT ![n] = {drawn'}]
  /\ shown' = [shown EXCEPT ![n] = {drawn'}]
  /\ UNCHANGED <<key_file, peer_key, operator, crashes>>

\* There is no file: a key is drawn, and fs::write creates an empty file ...
Generate(n) ==
  /\ ~exists[n] /\ GoTo(n, "down", "writing")
  /\ drawn' = drawn + 1
  /\ exists' = [exists EXCEPT ![n] = TRUE]
  /\ secret' = [secret EXCEPT ![n] = {drawn'}]
  /\ UNCHANGED <<key_file, peer_key, shown, operator, crashes>>

\* ... and fills it; then the public key is logged.
WriteKey(n) ==
  /\ GoTo(n, "writing", "loaded")
  /\ key_file' = [key_file EXCEPT ![n] = secret[n]]
  /\ shown' = [shown EXCEPT ![n] = secret[n]]
  /\ UNCHANGED <<exists, drawn, secret, peer_key, operator, crashes>>

\* Mutant: an entry that is not filled in is accepted.
DeriveKeys_Any(n) ==
  /\ GoTo(n, "loaded", "running")
  /\ peer_key' = [peer_key EXCEPT ![n] = entry[n]]
  /\ UNCHANGED <<disk, secret, shown, operator, crashes>>

\* The shared keys of all peers, once for the life of the process.
DeriveKeys(n) ==
  /\ \A m \in Peers[n] : entry[n][m] # NoKey
  /\ GoTo(n, "loaded", "running")
  /\ peer_key' = [peer_key EXCEPT ![n] = entry[n]]
  /\ UNCHANGED <<disk, secret, shown, operator, crashes>>

\* A public key that is not 32 bytes of base64 ends the process.
DeriveFails(n) ==
  /\ \E m \in Peers[n] : entry[n][m] = NoKey
  /\ GoTo(n, "loaded", "down")
  /\ UNCHANGED <<disk, secret, peer_key, shown, operator, crashes>>

\* The process dies; or create_dir_all or fs::write fails and its error ends it,
\* which leaves of the file as little as a crash at that point.
Crash(n) ==
  /\ phase[n] # "down" /\ crashes < MaxCrashes
  /\ phase' = [phase EXCEPT ![n] = "down"]
  /\ crashes' = crashes + 1
  /\ UNCHANGED <<disk, secret, peer_key, shown, operator>>
-----------------------------------------------------------------------------
\* The operator copies a public key from a log into the file of a peer,
Copy(n, m) ==
  /\ n \in Peers[m] /\ shown[n] # NoKey /\ entry[m][n] # shown[n]
  /\ entry' = [entry EXCEPT ![m][n] = shown[n]]
  /\ UNCHANGED <<disk, phase, secret, peer_key, shown, removed, crashes>>

\* restarts a node whose file has changed,
Reload(n) ==
  /\ peer_key[n] # entry[n] /\ GoTo(n, "running", "down")
  /\ UNCHANGED <<disk, secret, peer_key, shown, operator, crashes>>

\* removes a key file that is torn, or another one to get a new identity.
RemoveKey(n) ==
  /\ exists' = [exists EXCEPT ![n] = FALSE]
  /\ key_file' = [key_file EXCEPT ![n] = NoKey]
  /\ removed' = removed \cup key_file[n]
  /\ UNCHANGED <<drawn, phase, secret, peer_key, shown, entry, crashes>>
RemoveTorn(n) ==
  phase[n] = "down" /\ exists[n] /\ key_file[n] = NoKey /\ RemoveKey(n)
RemoveGood(n) ==
  /\ phase[n] = "down" /\ key_file[n] # NoKey
  /\ Cardinality(removed) < MaxRemoved /\ RemoveKey(n)
-----------------------------------------------------------------------------
Init ==
  /\ exists = [n \in Node |-> FALSE] /\ key_file = [n \in Node |-> NoKey]
  /\ drawn = 0 /\ crashes = 0 /\ removed = {}
  /\ phase = [n \in Node |-> "down"]
  /\ secret = [n \in Node |-> NoKey] /\ shown = [n \in Node |-> NoKey]
  /\ peer_key = [n \in Node |-> [m \in Node |-> NoKey]]
  /\ entry = [n \in Node |-> [m \in Node |-> NoKey]]

Process(n) == \/ Load(n) \/ Generate(n) \/ WriteKey(n)
              \/ DeriveKeys(n) \/ DeriveFails(n)

Next == \E n \in Node : \/ Process(n) \/ Crash(n) \/ Reload(n)
                        \/ RemoveTorn(n) \/ RemoveGood(n)
                        \/ \E m \in Node : Copy(n, m)

Spec == Init /\ [][Next]_vars

\* A node that is down is started again (by its container or the operator),
\* and the operator does in the end what the logs ask for.  So the key directory
\* can be written in the end (compose.yaml mounts it read-only, with the keys in
\* it), and the log shows public keys (its level is info or below).
FairSpec == /\ Spec
            /\ \A n \in Node : /\ WF_vars(Process(n)) /\ WF_vars(Reload(n))
                               /\ WF_vars(RemoveTorn(n))
                               /\ \A m \in Node : WF_vars(Copy(n, m))
-----------------------------------------------------------------------------
\* Every variable has its type, and a running node has a key of every peer.
TypeOK ==
  /\ exists \in [Node -> BOOLEAN] /\ key_file \in [Node -> SUBSET Key]
  /\ drawn \in Nat /\ crashes \in Nat /\ removed \subseteq Key
  /\ phase \in [Node -> Phase]
  /\ secret \in [Node -> SUBSET Key] /\ shown \in [Node -> SUBSET Key]
  /\ peer_key \in [Node -> [Node -> SUBSET Key]]
  /\ entry \in [Node -> [Node -> SUBSET Key]]
  /\ \A n \in Node : phase[n] = "running" =>
       \A m \in Peers[n] : peer_key[n][m] # NoKey

\* Peers are only ever given public keys of identities that are kept: the
\* node has the key on disk, wherever its process dies, or the operator has
\* removed it.  So a node never changes its identity by itself.
CopiedKeysAreKept ==
  \A n, m \in Node : entry[m][n] \subseteq key_file[n] \cup removed

\* Nodes that begin with no keys and with files that lack the keys of their
\* peers, and lose processes on the way, end up running with frames that
\* open at both ends: none waits for the key of another to show its own.
PeersTalk ==
  \A n \in Node : \A m \in Peers[n] :
    <>[](n \in Peers[m] => /\ phase[n] = "running" /\ phase[m] = "running"
                           /\ Opens(n, m))
=============================================================================
