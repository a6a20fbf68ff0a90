---- MODULE ServerTypes ----
(***************************************************************************)
(* What the lab33 servers share: the capacity of their tables, the client  *)
(* handles ("ids") and the value that marks an empty entry                 *)
(* (usual_server_management.h:10-15).                                      *)
(***************************************************************************)
EXTENDS Integers

CONSTANT MaxClients        \* MAX_CLIENTS, 1024 in the source

ASSUME MaxClientsAssumption == MaxClients \in Nat \ {0}

Ids == 0 .. MaxClients - 1

REMOVED_CLIENT == -1       \* "no descriptor", "no slot", "no id"
NO_ID == -1
====
