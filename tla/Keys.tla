--------------------------------- MODULE Keys ---------------------------------
(***************************************************************************)
(* The keys of the end-to-end encryption and their rotation.  A writer     *)
(* takes the names from its configuration when it starts, checks that it   *)
(* can read their public keys, and encrypts every message under all of     *)
(* them; the deliverer reads a private key by its name when a message asks *)
(* for it.  The operator follows the runbook docs/key-rotation.md, with    *)
(* any number of writers, which may crash or be restarted at any time.     *)
(***************************************************************************)

CONSTANTS
    Writers,    \* the writer processes
    Old, New    \* the name of the key that is replaced, and the replacement

ASSUME NamesAssumption == Old # New

VARIABLES
    env,     \* PULSAR_ENCRYPTION_KEY_NAMES, as the operator has set it
    pub,     \* the names whose public key is in the writers' directory
    priv,    \* the names whose private key is in the deliverer's directory
    names    \* names[w]: what w encrypts under; empty while it is down

kvars == <<env, pub, priv, names>>

KeysInit ==
    /\ env = {Old} /\ pub = {Old} /\ priv = {Old}
    /\ names = [w \in Writers |-> {Old}]

\* Mutant of LoadKeySet: the files are not looked at.
LoadKeySetUnread == env # {}

\* LoadKeySet, and the length check of Load in front of it.
LoadKeySet == env # {} /\ env \subseteq pub

\* A writer that cannot load its keys does not start.
StartWriter(w) ==
    /\ names[w] = {} /\ LoadKeySet
    /\ names' = [names EXCEPT ![w] = env]
    /\ UNCHANGED <<env, pub, priv>>

StopWriter(w) ==
    /\ names' = [names EXCEPT ![w] = {}]
    /\ UNCHANGED <<env, pub, priv>>

-----------------------------------------------------------------------------
(* The runbook.  Step 2 comes before step 4 for the private key only: what *)
(* a missing public key does is for LoadKeySet to find.                    *)

DistributePrivate == priv' = priv \cup {New} /\ UNCHANGED <<env, pub, names>>

DistributePublic == pub' = pub \cup {New} /\ UNCHANGED <<env, priv, names>>

OpenOverlap ==
    /\ env = {Old} /\ New \in priv
    /\ env' = {Old, New}
    /\ UNCHANGED <<pub, priv, names>>

RollBack ==
    /\ env = {Old, New}
    /\ env' = {Old}
    /\ UNCHANGED <<pub, priv, names>>

\* Every writer that runs has been restarted with the present configuration.
Rolled == \A w \in Writers : names[w] \in {env, {}}

\* Step 6, when the messages under Old alone are drained.
RetireOld(drained) ==
    /\ env = {Old, New} /\ Rolled /\ drained
    /\ env' = {New}
    /\ UNCHANGED <<pub, priv, names>>

\* Step 7, on either side; no pending message refers to Old.
RemovePublic(drained) ==
    /\ env = {New} /\ Rolled /\ drained
    /\ pub' = pub \ {Old}
    /\ UNCHANGED <<env, priv, names>>

RemovePrivate(drained) ==
    /\ env = {New} /\ Rolled /\ drained
    /\ priv' = priv \ {Old}
    /\ UNCHANGED <<env, pub, names>>

KeysTypeOK ==
    /\ env \in {{Old}, {Old, New}, {New}}
    /\ pub \subseteq {Old, New}
    /\ priv \subseteq {Old, New}
    /\ names \in [Writers -> SUBSET {Old, New}]

(***************************************************************************)
(* keys.go: "Useful for the writer to assert all active key names are      *)
(* readable at startup": no writer that runs lacks a key it encrypts       *)
(* under, then or later in a rotation.                                     *)
(***************************************************************************)
UpCanEncrypt == \A w \in Writers : names[w] \subseteq pub
=============================================================================
