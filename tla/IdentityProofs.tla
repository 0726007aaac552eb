--------------------------- MODULE IdentityProofs ---------------------------
(***************************************************************************)
(* Proofs about the identities of the nodes: for any number of nodes, any  *)
(* peers, and any number of processes that die at any step, a public key   *)
(* that was given to a peer belongs to an identity that is kept.           *)
(***************************************************************************)
EXTENDS Identity, TLAPS

\* Only a file that is not there is written, and only the first writer fills
\* it; so no step but the operator's takes a key from a file.
WrittenOnce ==
  \A n \in Node : /\ phase[n] = "writing" => exists[n]
                  /\ ~exists[n] \/ phase[n] = "writing" => key_file[n] = NoKey
\* Nothing is logged before it is on disk.
ShownIsKept == \A n \in Node : shown[n] \subseteq key_file[n] \cup removed
IdentityInv == TypeOK /\ WrittenOnce /\ ShownIsKept /\ CopiedKeysAreKept
-----------------------------------------------------------------------------
LEMMA IdentityInit == Init => IdentityInv
BY DEF Init, IdentityInv, TypeOK, Phase, Key, NoKey, WrittenOnce, ShownIsKept,
       CopiedKeysAreKept

LEMMA DrawnIsKey == ASSUME TypeOK PROVE {drawn + 1} \subseteq Key
BY DEF TypeOK, Key

\* A step that writes only files that were empty, and logs only what they then
\* hold: it takes nothing from what is kept.
LEMMA NothingIsTaken ==
  ASSUME IdentityInv, TypeOK', WrittenOnce', UNCHANGED <<entry, removed>>,
         \A m \in Node : /\ key_file[m] \subseteq key_file'[m]
                         /\ shown'[m] \in {shown[m], key_file'[m]}
  PROVE  IdentityInv'
BY DEF IdentityInv, ShownIsKept, CopiedKeysAreKept

\* The steps that read the file, or draw and write a key.
LEMMA IdentityLoad ==
  ASSUME IdentityInv, NEW n \in Node, Load(n) \/ Generate(n) \/ WriteKey(n)
  PROVE  IdentityInv'
<1>0. TypeOK /\ WrittenOnce
  BY DEF IdentityInv
<1>1. phase' \in [Node -> Phase] /\ \A m \in Node : phase'[m] = "running" => phase[m] = "running"
  BY <1>0 DEF Load, Generate, WriteKey, GoTo, Phase, TypeOK
<1>2. CASE Load(n)
  <2>1. /\ UNCHANGED <<exists, key_file, drawn, peer_key, entry, removed, crashes>>
        /\ phase' = [phase EXCEPT ![n] = "loaded"]
        /\ secret' = [secret EXCEPT ![n] = key_file[n]]
        /\ shown' = [shown EXCEPT ![n] = key_file[n]]
    BY <1>2 DEF Load, GoTo, disk, operator
  <2>2. TypeOK'
    BY <1>0, <1>1, <2>1 DEF TypeOK
  <2>3. WrittenOnce'
    BY <1>0, <2>1 DEF WrittenOnce, TypeOK
  <2>4. \A m \in Node : shown'[m] \in {shown[m], key_file'[m]}
    BY <1>0, <2>1 DEF TypeOK
  <2> QED
    BY <2>1, <2>2, <2>3, <2>4, NothingIsTaken
<1>3. CASE Generate(n)
  <2>1. /\ UNCHANGED <<key_file, shown, peer_key, entry, removed, crashes>>
        /\ ~exists[n] /\ exists' = [exists EXCEPT ![n] = TRUE]
        /\ phase' = [phase EXCEPT ![n] = "writing"]
        /\ drawn' = drawn + 1 /\ secret' = [secret EXCEPT ![n] = {drawn + 1}]
    BY <1>3 DEF Generate, GoTo, operator
  <2>2. TypeOK'
    BY <1>0, <1>1, <2>1, DrawnIsKey DEF TypeOK
  <2>3. WrittenOnce'
    BY <1>0, <2>1 DEF WrittenOnce, TypeOK
  <2> QED
    BY <2>1, <2>2, <2>3, NothingIsTaken
<1>4. CASE WriteKey(n)
  <2>1. /\ UNCHANGED <<exists, drawn, secret, peer_key, entry, removed, crashes>>
        /\ phase[n] = "writing" /\ phase' = [phase EXCEPT ![n] = "loaded"]
        /\ key_file' = [key_file EXCEPT ![n] = secret[n]]
        /\ shown' = [shown EXCEPT ![n] = secret[n]]
    BY <1>4 DEF WriteKey, GoTo, operator
  <2>2. TypeOK'
    BY <1>0, <1>1, <2>1 DEF TypeOK
  <2>3. exists[n] /\ key_file[n] = {}
    BY <1>0, <2>1 DEF WrittenOnce, NoKey
  <2>4. WrittenOnce'
    BY <1>0, <2>1, <2>3 DEF WrittenOnce, TypeOK
  <2>5. \A m \in Node : /\ key_file[m] \subseteq key_file'[m]
                        /\ shown'[m] \in {shown[m], key_file'[m]}
    BY <1>0, <2>1, <2>3 DEF TypeOK
  <2> QED
    BY <2>1, <2>2, <2>4, <2>5, NothingIsTaken
<1> QED
  BY <1>2, <1>3, <1>4

\* The steps of a process that leave the disk alone.
LEMMA IdentityRun ==
  ASSUME IdentityInv, NEW n \in Node,
         DeriveKeys(n) \/ DeriveFails(n) \/ Crash(n) \/ Reload(n)
  PROVE  IdentityInv'
<1>0. TypeOK /\ WrittenOnce
  BY DEF IdentityInv
<1>1. UNCHANGED <<exists, key_file, drawn, secret, shown, entry, removed>>
  BY DEF DeriveKeys, DeriveFails, Crash, Reload, disk, operator
<1>2. /\ phase' \in [Node -> Phase] /\ crashes' \in Nat
      /\ \A m \in Node : phase'[m] = "writing" => phase[m] = "writing"
  <2>1. PICK to \in {"running", "down"} : phase' = [phase EXCEPT ![n] = to]
    BY DEF DeriveKeys, DeriveFails, Crash, Reload, GoTo
  <2>2. crashes' \in Nat
    BY <1>0 DEF DeriveKeys, DeriveFails, Crash, Reload, TypeOK
  <2>3. phase \in [Node -> Phase]
    BY <1>0 DEF TypeOK
  <2> QED
    BY <2>1, <2>2, <2>3 DEF Phase
<1>3. TypeOK'
  <2>1. peer_key' \in [Node -> [Node -> SUBSET Key]]
    BY <1>0 DEF DeriveKeys, DeriveFails, Crash, Reload, TypeOK
  <2>2. ASSUME NEW m \in Node, phase'[m] = "running", NEW p \in Peers[m]
        PROVE  peer_key'[m][p] # NoKey
    <3>1. CASE DeriveKeys(n)
      BY <1>0, <2>2, <3>1 DEF DeriveKeys, GoTo, TypeOK
    <3>2. CASE DeriveFails(n) \/ Crash(n) \/ Reload(n)
      BY <1>0, <2>2, <3>2 DEF DeriveFails, Crash, Reload, GoTo, TypeOK
    <3> QED
      BY <3>1, <3>2
  <2> QED
    BY <1>0, <1>1, <1>2, <2>1, <2>2 DEF TypeOK
<1>4. WrittenOnce' /\ ShownIsKept' /\ CopiedKeysAreKept'
  BY <1>1, <1>2 DEF IdentityInv, WrittenOnce, ShownIsKept, CopiedKeysAreKept
<1> QED
  BY <1>3, <1>4 DEF IdentityInv

\* The operator: what is copied was shown, and what is removed is remembered.
LEMMA IdentityOperator ==
  ASSUME IdentityInv, NEW n \in Node,
         RemoveTorn(n) \/ RemoveGood(n) \/ \E m \in Node : Copy(n, m)
  PROVE  IdentityInv'
<1>0. TypeOK /\ WrittenOnce /\ ShownIsKept /\ CopiedKeysAreKept
  BY DEF IdentityInv
<1>1. CASE RemoveTorn(n) \/ RemoveGood(n)
  <2>1. /\ phase[n] = "down" /\ exists' = [exists EXCEPT ![n] = FALSE]
        /\ key_file' = [key_file EXCEPT ![n] = NoKey]
        /\ removed' = removed \cup key_file[n]
        /\ UNCHANGED <<drawn, phase, secret, peer_key, shown, entry, crashes>>
    BY <1>1 DEF RemoveTorn, RemoveGood, RemoveKey
  <2>2. \A m \in Node : key_file[m] \cup removed \subseteq key_file'[m] \cup removed'
    BY <1>0, <2>1 DEF TypeOK
  <2>3. TypeOK'
    BY <1>0, <2>1 DEF TypeOK, NoKey
  <2>4. WrittenOnce'
    BY <1>0, <2>1 DEF TypeOK, WrittenOnce
  <2>5. ShownIsKept' /\ CopiedKeysAreKept'
    BY <1>0, <2>1, <2>2 DEF ShownIsKept, CopiedKeysAreKept
  <2> QED
    BY <2>3, <2>4, <2>5 DEF IdentityInv
<1>2. ASSUME NEW m \in Node, Copy(n, m) PROVE IdentityInv'
  <2>1. /\ entry' = [entry EXCEPT ![m][n] = shown[n]]
        /\ UNCHANGED <<exists, key_file, drawn, phase, secret, peer_key, shown,
                       removed, crashes>>
    BY <1>2 DEF Copy, disk
  <2>2. TypeOK'
    BY <1>0, <2>1 DEF TypeOK
  <2>3. \A k, l \in Node : entry'[k][l] = entry[k][l] \/ (l = n /\ entry'[k][l] = shown[n])
    BY <1>0, <2>1 DEF TypeOK
  <2>4. CopiedKeysAreKept'
    BY <1>0, <2>1, <2>3 DEF ShownIsKept, CopiedKeysAreKept
  <2> QED
    BY <1>0, <2>1, <2>2, <2>4 DEF IdentityInv, WrittenOnce, ShownIsKept
<1> QED
  BY <1>1, <1>2

LEMMA IdentityStep == IdentityInv /\ [Next]_vars => IdentityInv'
<1> SUFFICES ASSUME IdentityInv, [Next]_vars PROVE IdentityInv'
  OBVIOUS
<1>1. CASE UNCHANGED vars
  BY <1>1 DEF vars, disk, operator, IdentityInv, TypeOK, WrittenOnce, ShownIsKept,
              CopiedKeysAreKept
<1> QED
  BY <1>1, IdentityLoad, IdentityRun, IdentityOperator DEF Next, Process

LEMMA IdentityInvariant == Spec => []IdentityInv
BY IdentityInit, IdentityStep, PTL DEF Spec
-----------------------------------------------------------------------------
\* The public keys in the files of the peers are those of identities that are
\* on disk, or that the operator has removed, in every network and wherever
\* processes die (load_or_generate logs a key only after it has written it).
THEOREM IdentitiesAreKept == Spec => []CopiedKeysAreKept
BY IdentityInvariant, PTL DEF IdentityInv

\* Every variable keeps its type, and a process that runs has a key of every
\* peer of its file (GatewayDaemon::new fails otherwise).
THEOREM IdentityTypes == Spec => []TypeOK
BY IdentityInvariant, PTL DEF IdentityInv
=============================================================================
