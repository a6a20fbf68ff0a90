---- MODULE IdList ----
(***************************************************************************)
(* The list of client ids a lab33 event loop walks (struct ProxyServer in  *)
(* lab33-server.c, the same code in lab33-proxy.c).  While a round of I/O  *)
(* is walking the list, removals only mark entries; commit_remove compacts *)
(* the list afterwards with two indices closing in on each other.          *)
(*                                                                         *)
(* One action per iteration of commit_remove's outer loop; its inner while *)
(* loop only finds an index and is part of that action.  The indices are   *)
(* of type size_t: decrementing zero wraps around to SizeMax.              *)
(***************************************************************************)
EXTENDS ServerTypes, FiniteSets

CONSTANT SizeMax            \* SIZE_MAX

ASSUME SizeMaxAssumption == SizeMax \in Nat /\ SizeMax >= MaxClients

VARIABLES
    list,                   \* ProxyServer.id_table
    listCount,              \* ProxyServer.client_count
    removedCount,           \* ProxyServer.removed_count
    committing,             \* inside commit_remove
    ci, cj, removed         \* its locals i, j, removed

listVars == <<list, listCount, removedCount, committing, ci, cj, removed>>

Positions == 0 .. MaxClients - 1

UsedPositions == 0 .. listCount - 1

ListTypeOK ==
    /\ list \in [Positions -> Ids \cup {REMOVED_CLIENT}]
    /\ listCount \in 0 .. MaxClients
    /\ removedCount \in 0 .. MaxClients
    /\ committing \in BOOLEAN
    /\ ci \in 0 .. MaxClients
    /\ cj \in (0 .. MaxClients) \cup {SizeMax}
    /\ removed \in 0 .. MaxClients

ListInit ==
    /\ list = [p \in Positions |-> REMOVED_CLIENT]
    /\ listCount = 0
    /\ removedCount = 0
    /\ committing = FALSE
    /\ ci = 0 /\ cj = 0 /\ removed = 0

(* x-- on a size_t. *)
Decrement(x) == IF x = 0 THEN SizeMax ELSE x - 1

IsRemoved(p) == list[p] = REMOVED_CLIENT

Swap(p, q) == [list EXCEPT ![p] = list[q], ![q] = list[p]]

-----------------------------------------------------------------------------
(* proxy->id_table[proxy->client_count++] = id *)
AppendId(id) ==
    /\ list' = [list EXCEPT ![listCount] = id]
    /\ listCount' = listCount + 1
    /\ UNCHANGED <<removedCount, committing, ci, cj, removed>>

(* pr_remove_client's part on the list; an entry that is already marked is *)
(* an early return.                                                        *)
MarkRemoved(p) ==
    /\ ~IsRemoved(p)
    /\ list' = [list EXCEPT ![p] = REMOVED_CLIENT]
    /\ removedCount' = removedCount + 1
    /\ UNCHANGED <<listCount, committing, ci, cj, removed>>

CommitBegin ==
    /\ ~committing
    /\ committing' = TRUE
    /\ ci' = 0
    /\ cj' = Decrement(listCount)
    /\ removed' = 0
    /\ UNCHANGED <<list, listCount, removedCount>>

(* A wrong loop condition that stops a step early. *)
CommitLoopGuardEarly == ci + 1 < cj /\ removed < removedCount

CommitLoopGuard == ci < cj /\ removed < removedCount

(* A wrong inner loop that swaps with the last entry, marked or not. *)
WhileStopsAtLast(k) == k = cj

(* Where the inner while loop leaves j: at the last entry not marked, or   *)
(* at i when everything above i is marked.                                 *)
WhileStopsAt(k) ==
    /\ k = ci \/ ~IsRemoved(k)
    /\ \A p \in k + 1 .. cj : IsRemoved(p)

CommitStep ==
    /\ committing
    /\ CommitLoopGuard
    /\ ci' = ci + 1
    /\ IF IsRemoved(ci)
         THEN \E k \in ci .. cj :
                /\ WhileStopsAt(k)
                /\ list' = Swap(ci, k)
                /\ cj' = Decrement(k)
                /\ removed' = removed + (cj - k) + 1
         ELSE UNCHANGED <<list, cj, removed>>
    /\ UNCHANGED <<listCount, removedCount, committing>>

CommitEnd ==
    /\ committing
    /\ ~CommitLoopGuard
    /\ listCount' = listCount - removedCount
    /\ removedCount' = 0
    /\ committing' = FALSE
    /\ ci' = 0 /\ cj' = 0 /\ removed' = 0       \* out of scope
    /\ UNCHANGED list

-----------------------------------------------------------------------------
(* The ids the list stands for. *)
Members == {list[p] : p \in UsedPositions} \ {REMOVED_CLIENT}

(* The list on its own: any ids added, any entries marked, in any order.   *)
ListNext ==
    \/ \E id \in Ids \ Members :
          /\ ~committing /\ removedCount = 0 /\ listCount < MaxClients
          /\ AppendId(id)
    \/ \E p \in UsedPositions : ~committing /\ MarkRemoved(p)
    \/ CommitBegin
    \/ CommitStep
    \/ CommitEnd

ListSpec == ListInit /\ [][ListNext]_listVars

-----------------------------------------------------------------------------
(* Properties. *)

MarkedPositions == {p \in UsedPositions : IsRemoved(p)}

NoDuplicates ==
    \A p, q \in UsedPositions : list[p] = list[q] => p = q \/ IsRemoved(p)

(* removed_count counts the marks, so subtracting it cuts the list exactly *)
(* behind the surviving entries.                                           *)
MarksCounted == removedCount = Cardinality(MarkedPositions)

(* What commit_remove's loop keeps true: everything before i and not       *)
(* behind j is kept, everything behind j is marked and has been counted.   *)
Behind(j) == IF j = SizeMax THEN UsedPositions ELSE j + 1 .. listCount - 1

CommitProgress ==
    committing =>
        /\ cj = SizeMax \/ cj < listCount
        /\ cj # SizeMax => ci <= cj + 2
        /\ removed = IF cj = SizeMax THEN listCount ELSE listCount - 1 - cj
        /\ \A p \in Behind(cj) : IsRemoved(p)
        /\ \A p \in UsedPositions \ Behind(cj) : p < ci => ~IsRemoved(p)

ListInv ==
    /\ ListTypeOK
    /\ NoDuplicates
    /\ MarksCounted
    /\ CommitProgress

(* Compacting keeps exactly the ids that were not marked: none is dropped  *)
(* with the tail that is cut off, none comes back.                         *)
CommitKeepsMembers ==
    [][committing \/ committing' => Members' = Members]_listVars

(* Outside a round the list has no holes: its count is the number of ids.  *)
Compacted ==
    ~committing /\ removedCount = 0 => MarkedPositions = {}

(* commit_remove never reads behind the list, although j wraps around when *)
(* every client was removed.                                               *)
CommitInBounds ==
    committing /\ CommitLoopGuard => {ci, cj} \subseteq UsedPositions
====
