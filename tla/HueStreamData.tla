--------------------------- MODULE HueStreamData ---------------------------
(***************************************************************************)
(* common/data/HueStreamData.cpp: the persistent list of bridges.          *)
(*                                                                         *)
(* A bridge is a shared object: the list, the retrievers, the pushlink     *)
(* attempts and queued messages may all refer to the same one, and what    *)
(* one of them writes the others read.  So bridges live in a heap, a       *)
(* function from object names to bridges, and the list is a sequence of    *)
(* names.  Its last element is the active bridge; the others are bridges   *)
(* the user was connected to before.                                       *)
(***************************************************************************)
EXTENDS Bridge, Naturals, SequencesExt

(* GetActiveBridge.  No operation leaves the list empty, so the branch     *)
(* that would add a bridge to an empty list is not taken.                  *)
Active(data) == Last(data)

(* RemoveBridge erases the first bridge with the id of bridge o.  Two      *)
(* bridges whose id is not known yet have the same, empty, id.             *)
RemoveBridge(heap, data, o) ==
    RemoveFirstMatch(data, LAMBDA p : heap[p].id = heap[o].id)

(* Mutant: an entry of the bridge that becomes active is left in the list. *)
BugSetActiveBridgeKeeps(heap, data, o) ==
    Append(IF HasEverBeenAuthorizedForStreaming(heap[Active(data)]) THEN data
           ELSE Front(data), o)

(* SetActiveBridge: the active bridge stays in the list as a known bridge  *)
(* only if it was ever authorized for streaming.                           *)
SetActiveBridge(heap, data, o) ==
    LET kept == IF HasEverBeenAuthorizedForStreaming(heap[Active(data)])
                THEN data
                ELSE Front(data)
    IN  Append(RemoveBridge(heap, kept, o), o)

(* Mutant: the whole list is cleared. *)
BugClearActiveBridge(data, o) == <<o>>

(* ClearActiveBridge and Clear put the new, empty, bridge o in the list. *)
ClearActiveBridge(data, o) == Append(Front(data), o)
ClearBridges(o) == <<o>>

(* RediscoverKnownBridge: the authorized bridges of the list that the      *)
(* search found, by id, get the address it found them at, that of the      *)
(* first match among the results; the last of them becomes active.         *)
Rediscovered(heap, data, found) ==
    {o \in Range(data) : /\ IsAuthorizedForStreaming(heap[o])
                         /\ \E p \in Range(found) : heap[p].id = heap[o].id}

RediscoveredHeap(heap, data, found) ==
    LET FirstMatch(o) ==
            found[SelectInSeq(found, LAMBDA p : heap[p].id = heap[o].id)]
    IN  [o \in DOMAIN heap |->
           IF o \in Rediscovered(heap, data, found)
           THEN [heap[o] EXCEPT !.ip = heap[FirstMatch(o)].ip, !.validIp = TRUE]
           ELSE heap[o]]

LastRediscovered(heap, data, found) ==
    data[SelectLastInSeq(data, LAMBDA o : o \in Rediscovered(heap, data, found))]

(* What Save writes, and what Load reads back. *)
StoredBridges(heap, data) == [i \in DOMAIN data |-> Stored(heap[data[i]])]
=============================================================================
