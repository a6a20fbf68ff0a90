---- MODULE ClientMap ----
(***************************************************************************)
(* What a client registry promises its server, without saying how: a map   *)
(* from client handles to connections.  A handle keeps its descriptor and  *)
(* the readiness poll reported for it until that very handle is            *)
(* disconnected or removed, whatever happens to the other handles, and the *)
(* descriptors the process has open are the ones in the map.               *)
(***************************************************************************)
CONSTANTS
    Handles,    \* the handles a server may give out
    Conns,      \* connected descriptors
    NoConn,     \* the "descriptor" of a disconnected client, not in Conns
    Events      \* readiness bits poll may report

VARIABLES
    conn,       \* the connection of every live handle
    ready,      \* the readiness last reported for it
    open,       \* client descriptors the process has open
    serving     \* FALSE once the server has shut down

mapVars == <<conn, ready, open, serving>>

Live == DOMAIN conn

MapTypeOK ==
    /\ Live \subseteq Handles
    /\ conn \in [Live -> Conns \cup {NoConn}]
    /\ ready \in [Live -> SUBSET Events]
    /\ open \subseteq Conns
    /\ serving \in BOOLEAN

Init ==
    /\ conn = [h \in {} |-> NoConn]
    /\ ready = [h \in {} |-> {}]
    /\ open = {}
    /\ serving = TRUE

(* A new connection gets a handle nobody holds; what poll said about the   *)
(* handle's slot before means nothing yet.                                 *)
Add(h, c) ==
    /\ serving
    /\ h \notin Live
    /\ c \notin open
    /\ \E r \in SUBSET Events :
          ready' = [x \in Live \cup {h} |-> IF x = h THEN r ELSE ready[x]]
    /\ conn' = [x \in Live \cup {h} |-> IF x = h THEN c ELSE conn[x]]
    /\ open' = open \cup {c}
    /\ UNCHANGED serving

Disconnect(h) ==
    /\ serving
    /\ h \in Live
    /\ conn' = [conn EXCEPT ![h] = NoConn]
    /\ open' = open \ {conn[h]}
    /\ UNCHANGED <<ready, serving>>

Remove(h) ==
    /\ serving
    /\ h \in Live
    /\ conn' = [x \in Live \ {h} |-> conn[x]]
    /\ ready' = [x \in Live \ {h} |-> ready[x]]
    /\ open' = open \ {conn[h]}
    /\ UNCHANGED serving

Poll ==
    /\ serving
    /\ \E r \in [Live -> SUBSET Events] :
          ready' = [h \in Live |-> IF conn[h] = NoConn THEN {} ELSE r[h]]
    /\ UNCHANGED <<conn, open, serving>>

Shutdown ==
    /\ serving
    /\ serving' = FALSE
    /\ open' = {}
    /\ UNCHANGED <<conn, ready>>

Next ==
    \/ \E h \in Handles, c \in Conns : Add(h, c)
    \/ \E h \in Handles : Disconnect(h) \/ Remove(h)
    \/ Poll
    \/ Shutdown

Spec == Init /\ [][Next]_mapVars
====
