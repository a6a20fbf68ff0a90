---- MODULE ProxyServerProofs ----
(***************************************************************************)
(* Proofs about the proxy, for every capacity, every set of descriptors,   *)
(* every size of the buffers and whatever the peers do: first about its    *)
(* registry of sessions, then about the loop.  What concerns the client    *)
(* side of the registry and the loop's list is cited from their proofs,    *)
(* operation by operation.                                                 *)
(***************************************************************************)
EXTENDS ProxyServer, ServerTablesProofs

LEMMA InitProxyRegistryInv == ProxyRegistryInit => ProxyRegistryInv
<1> SUFFICES ASSUME ProxyRegistryInit PROVE ProxyRegistryInv
  OBVIOUS
<1> USE BufferAssumption DEF ProxyRegistryInit, SessionInit
<1>1. RegistryInv /\ open = {} /\ UsedSlots = {} /\ Live = {}
  BY InitRegistryInv DEF RegistryInit, UsedSlots, Live, IsValidId
<1>2. SessionTypeOK
  BY DEF SessionTypeOK
<1> QED
  BY <1>1, <1>2 DEF ProxyRegistryInv, NoCrosstalk, BuffersAllocated, DestinationsDistinct

LEMMA AddSessionInv ==
  ASSUME ProxyRegistryInv, up, NEW clientFd \in Unused, NEW serverFd \in Unused,
         clientFd # serverFd, AddSession(clientFd, serverFd)
  PROVE  ProxyRegistryInv'
<1> USE MaxClientsAssumption, FdsAssumption, BufferAssumption
<1>a. /\ RegistryInv /\ AddClient(clientFd)
      /\ clientFd \in Fds \ open /\ serverFd \in Fds \ open
      /\ clientFd \notin openServers /\ serverFd \notin openServers
  BY DEF ProxyRegistryInv, AddSession, Unused
<1>1. RegistryInv'
  BY <1>a, AddClientInv
<1> DEFINE id == NextId
<1>2. id \in Ids /\ id \notin Live /\ Live' = Live \cup {id}
  BY <1>a, AddClientEffect
<1>3. /\ clientCount \in Slots
      /\ UsedSlots' = UsedSlots \cup {clientCount} /\ clientCount \notin UsedSlots
      /\ UsedSlots \subseteq Slots
  <2>1. clientCount' = clientCount + 1 /\ clientCount' \in 0 .. MaxClients
    BY <1>a, <1>1 DEF AddClient, RegistryInv, RegistryTypeOK
  <2> QED
    BY <2>1, <1>a DEF RegistryInv, RegistryTypeOK, UsedSlots, Slots, Ids
<1>4. /\ clients' = [clients EXCEPT ![clientCount].fd = clientFd]
      /\ open' = open \cup {clientFd} /\ up'
  BY <1>a DEF AddClient
<1>5. /\ servers' = [servers EXCEPT ![clientCount].fd = serverFd]
      /\ ctos' = [ctos EXCEPT ![id] = 0] /\ stoc' = [stoc EXCEPT ![id] = 0]
      /\ openServers' = openServers \cup {serverFd}
      /\ destination' = [destination EXCEPT ![clientFd] = serverFd]
  BY DEF AddSession
<1> HIDE DEF id
<1>6. SessionTypeOK'
  BY <1>a, <1>2, <1>3, <1>5 DEF ProxyRegistryInv, SessionTypeOK
<1>7. NoCrosstalk'
  <2> SUFFICES ASSUME NEW s \in UsedSlots', servers'[s].fd # REMOVED_CLIENT
               PROVE  /\ clients'[s].fd \in open'
                      /\ servers'[s].fd = destination'[clients'[s].fd]
                      /\ servers'[s].fd \in openServers'
    BY DEF NoCrosstalk
  <2>1. CASE s = clientCount
    BY <2>1, <1>a, <1>3, <1>4, <1>5
       DEF ProxyRegistryInv, SessionTypeOK, RegistryInv, RegistryTypeOK
  <2>2. CASE s # clientCount
    <3>1. s \in UsedSlots /\ s \in Slots
      BY <2>2, <1>3
    <3>2. clients'[s] = clients[s] /\ servers'[s] = servers[s]
      BY <3>1, <2>2, <1>3, <1>4, <1>5
         DEF ProxyRegistryInv, SessionTypeOK, RegistryInv, RegistryTypeOK
    <3>3. /\ clients[s].fd \in open
          /\ servers[s].fd = destination[clients[s].fd]
          /\ servers[s].fd \in openServers
      BY <3>1, <3>2 DEF ProxyRegistryInv, NoCrosstalk
    <3> QED
      BY <3>2, <3>3, <1>a, <1>4, <1>5 DEF ProxyRegistryInv, SessionTypeOK
  <2> QED
    BY <2>1, <2>2
<1>8. BuffersAllocated'
  BY <1>2, <1>5 DEF ProxyRegistryInv, SessionTypeOK, BuffersAllocated, NO_BUFFER
<1>9. DestinationsDistinct'
  BY <1>a, <1>4, <1>5
     DEF ProxyRegistryInv, SessionTypeOK, DestinationsDistinct, RegistryInv, RegistryTypeOK
<1> QED
  BY <1>1, <1>6, <1>7, <1>8, <1>9 DEF ProxyRegistryInv

(* What a session has in its slot: its own destination or none.            *)
LEMMA EntryOfSession ==
  ASSUME ProxyRegistryInv, up, NEW s \in UsedSlots
  PROVE  /\ s \in Slots
         /\ clients[s].fd \in Fds \cup {REMOVED_CLIENT}
         /\ servers[s].fd \in Fds \cup {REMOVED_CLIENT}
         /\ clients[s].fd # REMOVED_CLIENT => clients[s].fd \in open
         /\ clients[s].fd = REMOVED_CLIENT => servers[s].fd = REMOVED_CLIENT
         /\ servers[s].fd # REMOVED_CLIENT =>
               servers[s].fd = destination[clients[s].fd]
<1>1. s \in Slots
  BY MaxClientsAssumption
     DEF ProxyRegistryInv, RegistryInv, RegistryTypeOK, UsedSlots, Slots, Ids
<1>2. open \subseteq Fds
  BY DEF ProxyRegistryInv, RegistryInv, RegistryTypeOK
<1>3. clients[s].fd # REMOVED_CLIENT => clients[s].fd \in open
  BY DEF ProxyRegistryInv, RegistryInv, OpenFdsPolled
<1>4. servers[s].fd # REMOVED_CLIENT =>
        clients[s].fd \in open /\ servers[s].fd = destination[clients[s].fd]
  BY DEF ProxyRegistryInv, NoCrosstalk
<1> QED
  BY <1>1, <1>2, <1>3, <1>4, FdsAssumption
     DEF ProxyRegistryInv, RegistryInv, RegistryTypeOK, SessionTypeOK

LEMMA DisconnectSessionInv ==
  ASSUME ProxyRegistryInv, up, NEW id \in Ids, DisconnectSession(id)
  PROVE  ProxyRegistryInv'
<1> USE FdsAssumption, BufferAssumption
<1> DEFINE s0 == idTable[id]
           c == clients[s0].fd
           d == servers[s0].fd
<1>1. RegistryInv /\ RegistryInv'
  BY DisconnectClientInv DEF ProxyRegistryInv, DisconnectSession
<1>2. s0 \in UsedSlots /\ c # REMOVED_CLIENT
  BY <1>1 DEF DisconnectSession, DisconnectClient, RegistryInv, IdsOfSlots, Live, GetClient
<1>3. /\ clients' = [clients EXCEPT ![s0].fd = REMOVED_CLIENT]
      /\ open' = open \ {c}
      /\ servers' = [servers EXCEPT ![s0].fd = REMOVED_CLIENT]
      /\ openServers' = openServers \ {d}
      /\ destination' = [destination EXCEPT ![c] = REMOVED_CLIENT]
      /\ UNCHANGED <<idTable, indexToId, clientCount, up, ctos, stoc>>
  BY DEF DisconnectSession, DisconnectClient, CloseServer, Forget, GetClient,
         GetServer, Disconnected
<1>4. s0 \in Slots /\ c \in open /\ c \in Fds /\ d \in Fds \cup {REMOVED_CLIENT}
        /\ (d # REMOVED_CLIENT => d = destination[c])
  BY <1>2, EntryOfSession DEF ProxyRegistryInv, RegistryInv, RegistryTypeOK
<1>5. Live' = Live /\ UsedSlots' = UsedSlots
  BY <1>3 DEF Live, IsValidId, UsedSlots
<1> HIDE DEF s0, c, d
<1>6. SessionTypeOK'
  BY <1>3, <1>4 DEF ProxyRegistryInv, SessionTypeOK
<1>7. \A fd \in open : fd # c => destination'[fd] = destination[fd] /\ destination[fd] # d
  <2>1. open \subseteq Fds /\ openServers \subseteq Fds
    BY DEF ProxyRegistryInv, RegistryInv, RegistryTypeOK, SessionTypeOK
  <2> QED
    BY <2>1, <1>3, <1>4 DEF ProxyRegistryInv, SessionTypeOK, DestinationsDistinct
<1>8. NoCrosstalk'
  <2> SUFFICES ASSUME NEW s \in UsedSlots, servers'[s].fd # REMOVED_CLIENT
               PROVE  /\ clients'[s].fd \in open'
                      /\ servers'[s].fd = destination'[clients'[s].fd]
                      /\ servers'[s].fd \in openServers'
    BY <1>5 DEF NoCrosstalk
  <2>1. s \in Slots
    BY EntryOfSession
  <2>2. s # s0
    BY <2>1, <1>3 DEF ProxyRegistryInv, SessionTypeOK
  <2>3. clients'[s] = clients[s] /\ servers'[s] = servers[s]
    BY <2>1, <2>2, <1>3
       DEF ProxyRegistryInv, SessionTypeOK, RegistryInv, RegistryTypeOK
  <2>4. /\ clients[s].fd \in open
        /\ servers[s].fd = destination[clients[s].fd]
        /\ servers[s].fd \in openServers
    BY <2>3 DEF ProxyRegistryInv, NoCrosstalk
  <2>5. clients[s].fd # c
    BY <2>2, <2>4, <1>1, <1>2, <1>4 DEF RegistryInv, FdsDistinct, c
  <2> QED
    BY <2>3, <2>4, <2>5, <1>3, <1>7
<1>9. BuffersAllocated'
  BY <1>3, <1>5 DEF ProxyRegistryInv, BuffersAllocated
<1>10. DestinationsDistinct'
  BY <1>3, <1>7 DEF ProxyRegistryInv, DestinationsDistinct
<1> QED
  BY <1>1, <1>6, <1>8, <1>9, <1>10 DEF ProxyRegistryInv

(* What remove_client does to the slots: the last client comes into slot   *)
(* s0 without its destination.                                             *)
LEMMA RemoveSessionEffect ==
  ASSUME ProxyRegistryInv, up, NEW id \in Ids, RemoveSession(id),
         NEW s0, s0 = idTable[id],
         NEW c, c = clients[s0].fd, NEW d, d = servers[s0].fd
  PROVE  /\ s0 \in UsedSlots /\ s0 \in Slots
         /\ UsedSlots' \subseteq UsedSlots
         /\ \A s \in UsedSlots' : s # s0 => clients'[s] = clients[s]
         /\ servers' = [servers EXCEPT ![s0].fd = REMOVED_CLIENT]
         /\ open' = open \ {c} /\ openServers' = openServers \ {d}
         /\ c \in Fds \cup {REMOVED_CLIENT} /\ d \in Fds \cup {REMOVED_CLIENT}
         /\ destination' = IF c = REMOVED_CLIENT THEN destination
                           ELSE [destination EXCEPT ![c] = REMOVED_CLIENT]
         /\ up' = up
<1> DEFINE last == clientCount - 1
           lastId == indexToId[last]
           t0 == idTable[id]
<1>1. RegistryInv /\ RemoveClient(id)
  BY DEF ProxyRegistryInv, RemoveSession
<1>b. /\ t0 \in UsedSlots /\ last \in UsedSlots
      /\ id \in Live /\ lastId \in Live /\ idTable[lastId] = last
      /\ indexToId[t0] = id
      /\ clientCount' = last
      /\ open' = open \ {clients[t0].fd}
      /\ idTable' = [x \in Ids |-> IF x = id THEN REMOVED_CLIENT
                                    ELSE IF x = lastId THEN t0 ELSE idTable[x]]
      /\ indexToId' = [s \in Slots |-> IF s = last THEN NO_ID
                                        ELSE IF s = t0 THEN lastId ELSE indexToId[s]]
      /\ clients' = [s \in Slots |->
            IF s = last
              THEN [clients[t0] EXCEPT !.fd = REMOVED_CLIENT]
              ELSE IF s = t0 THEN clients[last] ELSE clients[s]]
      /\ up' = up
  BY <1>1, RemoveClientEffect
<1>2. /\ s0 \in UsedSlots /\ last \in UsedSlots
      /\ clientCount' = last
      /\ open' = open \ {c} /\ up' = up
      /\ clients' = [s \in Slots |->
            IF s = last THEN [clients[s0] EXCEPT !.fd = REMOVED_CLIENT]
            ELSE IF s = s0 THEN clients[last] ELSE clients[s]]
  BY <1>b
<1>3. UsedSlots' \subseteq UsedSlots /\ UsedSlots \subseteq Slots /\ last \notin UsedSlots'
  BY <1>1, <1>2, MaxClientsAssumption
     DEF RegistryInv, RegistryTypeOK, UsedSlots, Slots, Ids
<1>4. /\ c \in Fds \cup {REMOVED_CLIENT} /\ d \in Fds \cup {REMOVED_CLIENT}
      /\ c = REMOVED_CLIENT => d = REMOVED_CLIENT
  BY <1>2, EntryOfSession
<1>5. GetClient(id).fd = c /\ GetServer(id).fd = d
  BY DEF GetClient, GetServer
<1>6. CASE c # REMOVED_CLIENT
  <2>1. CloseServer(id)
    BY <1>5, <1>6 DEF RemoveSession
  <2> QED
    BY <2>1, <1>2, <1>3, <1>4, <1>5, <1>6 DEF CloseServer, Forget
<1>7. CASE c = REMOVED_CLIENT
  <2>1. UNCHANGED <<servers, openServers, destination>>
    BY <1>5, <1>7 DEF RemoveSession
  <2>2. servers = [servers EXCEPT ![s0].fd = REMOVED_CLIENT]
    BY <1>2, <1>3, <1>4, <1>7 DEF ProxyRegistryInv, SessionTypeOK
  <2>3. openServers = openServers \ {d}
    BY <1>4, <1>7, FdsAssumption DEF ProxyRegistryInv, SessionTypeOK
  <2> QED
    BY <2>1, <2>2, <2>3, <1>2, <1>3, <1>4, <1>7
<1> QED
  BY <1>6, <1>7

LEMMA RemoveSessionInv ==
  ASSUME ProxyRegistryInv, up, NEW id \in Ids, RemoveSession(id)
  PROVE  ProxyRegistryInv'
<1> USE FdsAssumption, BufferAssumption
<1> DEFINE s0 == idTable[id]
           c == clients[s0].fd
           d == servers[s0].fd
<1>1. RegistryInv /\ RegistryInv'
  BY RemoveClientInv DEF ProxyRegistryInv, RemoveSession
<1>2. /\ s0 \in UsedSlots /\ s0 \in Slots
      /\ UsedSlots' \subseteq UsedSlots
      /\ \A s \in UsedSlots' : s # s0 => clients'[s] = clients[s]
      /\ servers' = [servers EXCEPT ![s0].fd = REMOVED_CLIENT]
      /\ open' = open \ {c} /\ openServers' = openServers \ {d}
      /\ c \in Fds \cup {REMOVED_CLIENT} /\ d \in Fds \cup {REMOVED_CLIENT}
      /\ destination' = IF c = REMOVED_CLIENT THEN destination
                        ELSE [destination EXCEPT ![c] = REMOVED_CLIENT]
      /\ up' = up
  BY RemoveSessionEffect
<1>3. /\ c = REMOVED_CLIENT => d = REMOVED_CLIENT
      /\ c # REMOVED_CLIENT => c \in open
      /\ d # REMOVED_CLIENT => d = destination[c]
  BY <1>2, EntryOfSession
<1>4. /\ ctos' = [ctos EXCEPT ![id] = NO_BUFFER]
      /\ stoc' = [stoc EXCEPT ![id] = NO_BUFFER]
      /\ Live' = Live \ {id}
  BY <1>1, RemoveClientOthers DEF RemoveSession
<1>d. \A s \in UsedSlots : clients[s].fd = c => s = s0 \/ c = REMOVED_CLIENT
  BY <1>1, <1>2 DEF RegistryInv, FdsDistinct
<1> HIDE DEF s0, c, d
<1>5. SessionTypeOK'
  BY <1>2, <1>4 DEF ProxyRegistryInv, SessionTypeOK
<1>6. \A fd \in open : fd # c => destination'[fd] = destination[fd] /\ destination[fd] # d
  <2>1. open \subseteq Fds /\ openServers \subseteq Fds
    BY DEF ProxyRegistryInv, RegistryInv, RegistryTypeOK, SessionTypeOK
  <2> QED
    BY <2>1, <1>2, <1>3 DEF ProxyRegistryInv, SessionTypeOK, DestinationsDistinct
<1>7. NoCrosstalk'
  <2> SUFFICES ASSUME NEW s \in UsedSlots', servers'[s].fd # REMOVED_CLIENT
               PROVE  /\ clients'[s].fd \in open'
                      /\ servers'[s].fd = destination'[clients'[s].fd]
                      /\ servers'[s].fd \in openServers'
    BY DEF NoCrosstalk
  <2>1. s \in UsedSlots /\ s \in Slots
    BY <1>2, EntryOfSession
  <2>2. s # s0
    BY <2>1, <1>2 DEF ProxyRegistryInv, SessionTypeOK
  <2>3. clients'[s] = clients[s] /\ servers'[s] = servers[s]
    BY <2>1, <2>2, <1>2 DEF ProxyRegistryInv, SessionTypeOK
  <2>4. /\ clients[s].fd \in open
        /\ servers[s].fd = destination[clients[s].fd]
        /\ servers[s].fd \in openServers
    BY <2>1, <2>3 DEF ProxyRegistryInv, NoCrosstalk
  <2>5. clients[s].fd # c
    <3>1. open \subseteq Fds
      BY DEF ProxyRegistryInv, RegistryInv, RegistryTypeOK
    <3> QED
      BY <3>1, <2>1, <2>2, <2>4, <1>d
  <2> QED
    BY <2>3, <2>4, <2>5, <1>2, <1>6
<1>8. BuffersAllocated'
  BY <1>4 DEF ProxyRegistryInv, SessionTypeOK, BuffersAllocated
<1>9. DestinationsDistinct'
  BY <1>2, <1>6 DEF ProxyRegistryInv, DestinationsDistinct
<1> QED
  BY <1>1, <1>5, <1>7, <1>8, <1>9 DEF ProxyRegistryInv

LEMMA PollSessionsInv ==
  ASSUME ProxyRegistryInv, up, NEW ready \in [Fds -> SUBSET Events], PollSessions(ready)
  PROVE  ProxyRegistryInv'
<1> USE FdsAssumption
<1>1. RegistryInv /\ RegistryInv'
  BY PollClientsInv DEF ProxyRegistryInv, PollSessions
<1>2. /\ UNCHANGED <<idTable, clientCount, open, up>>
      /\ UNCHANGED <<ctos, stoc, openServers, destination>>
      /\ \A s \in Slots : clients'[s].fd = clients[s].fd
  BY <1>1 DEF PollSessions, PollClients, RegistryInv, RegistryTypeOK
<1>3. /\ servers' \in [Slots -> [fd : Fds \cup {REMOVED_CLIENT}, revents : SUBSET Events]]
      /\ \A s \in Slots : servers'[s].fd = servers[s].fd
  BY DEF PollSessions, ProxyRegistryInv, SessionTypeOK
<1>4. Live' = Live /\ UsedSlots' = UsedSlots
  BY <1>2 DEF Live, IsValidId, UsedSlots
<1>5. UsedSlots \subseteq Slots
  BY EntryOfSession
<1>6. SessionTypeOK'
  BY <1>2, <1>3 DEF ProxyRegistryInv, SessionTypeOK
<1>7. NoCrosstalk'
  BY <1>2, <1>3, <1>4, <1>5 DEF ProxyRegistryInv, NoCrosstalk
<1> QED
  BY <1>1, <1>2, <1>4, <1>6, <1>7
     DEF ProxyRegistryInv, BuffersAllocated, DestinationsDistinct

LEMMA CleanupSessionsInv ==
  ASSUME ProxyRegistryInv, up, CleanupSessions
  PROVE  ProxyRegistryInv'
<1>1. RegistryInv' /\ open' = {} /\ ~up'
  BY SafeCleanupInv DEF ProxyRegistryInv, CleanupSessions, SafeCleanup
<1>2. /\ UNCHANGED <<idTable, servers, ctos, stoc, destination>>
      /\ openServers' \subseteq openServers
  BY DEF CleanupSessions, SafeCleanup
<1>3. Live' = Live
  BY <1>2 DEF Live, IsValidId
<1>4. SessionTypeOK'
  BY <1>2 DEF ProxyRegistryInv, SessionTypeOK
<1> QED
  BY <1>1, <1>2, <1>3, <1>4
     DEF ProxyRegistryInv, NoCrosstalk, BuffersAllocated, DestinationsDistinct

-----------------------------------------------------------------------------
(* No client is ever connected to another client's destination, every live *)
(* session has its two buffers, and the client side keeps its invariant.   *)
THEOREM SessionsAreSeparate == ProxyRegistrySpec => []ProxyRegistryInv
<1>1. ProxyRegistryInit => ProxyRegistryInv
  BY InitProxyRegistryInv
<1>2. ProxyRegistryInv /\ [ProxyRegistryNext]_proxyRegistryVars => ProxyRegistryInv'
  <2> SUFFICES ASSUME ProxyRegistryInv, [ProxyRegistryNext]_proxyRegistryVars
               PROVE  ProxyRegistryInv'
    OBVIOUS
  <2>1. CASE up /\ \E clientFd, serverFd \in Unused :
                      clientFd # serverFd /\ AddSession(clientFd, serverFd)
    BY <2>1, AddSessionInv
  <2>2. CASE up /\ \E id \in Ids : DisconnectSession(id) \/ RemoveSession(id)
    BY <2>2, DisconnectSessionInv, RemoveSessionInv
  <2>3. CASE up /\ \E ready \in [Fds -> SUBSET Events] : PollSessions(ready)
    BY <2>3, PollSessionsInv
  <2>4. CASE up /\ CleanupSessions
    BY <2>4, CleanupSessionsInv
  <2>5. CASE UNCHANGED proxyRegistryVars
    BY <2>5 DEF proxyRegistryVars, registryVars, sessionVars, ProxyRegistryInv,
                RegistryInv, RegistryTypeOK, IdsOfSlots, UnusedSlotsEmpty,
                FdsDistinct, OpenFdsPolled, Live, IsValidId, UsedSlots,
                SessionTypeOK, NoCrosstalk, BuffersAllocated, DestinationsDistinct
  <2> QED
    BY <2>1, <2>2, <2>3, <2>4, <2>5 DEF ProxyRegistryNext
<1> QED
  BY <1>1, <1>2, PTL DEF ProxyRegistrySpec

(* Disconnecting or removing a session closes its two connections only.    *)
LEMMA SessionClosesTogether ==
  ASSUME ProxyRegistryInv, up, NEW id \in Ids, DisconnectSession(id) \/ RemoveSession(id),
         NEW fd \in openServers, fd \notin openServers'
  PROVE  \E client \in open \ open' : destination[client] = fd
<1>1. fd \in Fds /\ fd # REMOVED_CLIENT
  BY FdsAssumption DEF ProxyRegistryInv, SessionTypeOK
<1> DEFINE s0 == idTable[id]
           c == clients[s0].fd
           d == servers[s0].fd
<1>2. s0 \in UsedSlots /\ open' = open \ {c} /\ openServers' = openServers \ {d}
  <2>1. CASE DisconnectSession(id)
    BY <2>1 DEF DisconnectSession, DisconnectClient, CloseServer, GetClient, GetServer,
                ProxyRegistryInv, RegistryInv, IdsOfSlots, Live
  <2>2. CASE RemoveSession(id)
    <3>1. /\ s0 \in UsedSlots /\ s0 \in Slots
          /\ UsedSlots' \subseteq UsedSlots
          /\ \A s \in UsedSlots' : s # s0 => clients'[s] = clients[s]
          /\ servers' = [servers EXCEPT ![s0].fd = REMOVED_CLIENT]
          /\ open' = open \ {c} /\ openServers' = openServers \ {d}
          /\ c \in Fds \cup {REMOVED_CLIENT} /\ d \in Fds \cup {REMOVED_CLIENT}
          /\ destination' = IF c = REMOVED_CLIENT THEN destination
                            ELSE [destination EXCEPT ![c] = REMOVED_CLIENT]
          /\ up' = up
      BY <2>2, RemoveSessionEffect
    <3> QED
      BY <3>1
  <2> QED
    BY <2>1, <2>2
<1>3. d = fd
  BY <1>2
<1>4. c \in open /\ d = destination[c]
  BY <1>1, <1>2, <1>3, EntryOfSession
<1> QED
  BY <1>2, <1>3, <1>4

(* A registry in use closes a connection to a destination only together    *)
(* with the client it was made for.                                        *)
THEOREM ServersCloseWithClients == ProxyRegistrySpec => ServerClosedWithClient
<1> DEFINE Together == \A fd \in openServers : fd \notin openServers' /\ up' =>
                          \E client \in open \ open' : destination[client] = fd
<1>1. ProxyRegistryInv /\ [ProxyRegistryNext]_proxyRegistryVars => Together
  <2> SUFFICES ASSUME ProxyRegistryInv, [ProxyRegistryNext]_proxyRegistryVars,
                      NEW fd \in openServers, fd \notin openServers', up'
               PROVE  \E client \in open \ open' : destination[client] = fd
    OBVIOUS
  <2>1. up /\ \E id \in Ids : DisconnectSession(id) \/ RemoveSession(id)
    BY DEF ProxyRegistryNext, AddSession, PollSessions, CleanupSessions,
           SafeCleanup, proxyRegistryVars, sessionVars
  <2> QED
    BY <2>1, SessionClosesTogether
<1> QED
  BY <1>1, SessionsAreSeparate, PTL DEF ProxyRegistrySpec, ServerClosedWithClient
-----------------------------------------------------------------------------
(* The loop.  First what the registry's operations mean for a session.     *)

LEMMA SessionsUnchanged ==
  ASSUME ProxyRegistryInv, UNCHANGED proxyRegistryVars
  PROVE  /\ ProxyRegistryInv'
         /\ Live' = Live /\ UsedSlots' = UsedSlots
         /\ \A id : GetClient(id)' = GetClient(id) /\ GetServer(id)' = GetServer(id)
         /\ UNCHANGED <<idTable, indexToId, clientCount, clients, open, up,
                        servers, ctos, stoc, openServers, destination>>
<1>1. /\ UNCHANGED registryVars
      /\ UNCHANGED <<servers, ctos, stoc, openServers, destination>>
  BY DEF proxyRegistryVars, sessionVars
<1>2. /\ RegistryInv' /\ Live' = Live /\ UsedSlots' = UsedSlots
      /\ \A id : GetClient(id)' = GetClient(id)
      /\ UNCHANGED <<idTable, indexToId, clientCount, clients, open, up>>
  BY <1>1, RegistryUnchanged DEF ProxyRegistryInv
<1>3. \A id : GetServer(id)' = GetServer(id)
  BY <1>1, <1>2 DEF GetServer
<1> QED
  BY <1>1, <1>2, <1>3
     DEF ProxyRegistryInv, SessionTypeOK, NoCrosstalk, BuffersAllocated, DestinationsDistinct

NoneRemoved == \A s \in UsedSlots : clients[s].fd # REMOVED_CLIENT

Entry == [fd : Fds \cup {REMOVED_CLIENT}, revents : SUBSET Events]

(* In a running proxy a session has an open client and its buffers; its    *)
(* destination, when it still has one, is open, too, and neither is shared *)
(* with another session.                                                   *)
LEMMA EndsOfSession ==
  ASSUME ProxyRegistryInv, up, NoneRemoved, NEW id \in Live
  PROVE  /\ id \in Ids /\ idTable[id] \in UsedSlots /\ idTable[id] \in Slots
         /\ GetClient(id) \in Entry /\ GetServer(id) \in Entry
         /\ GetClient(id).fd \in open /\ GetClient(id).fd \in Fds
         /\ GetServer(id).fd # REMOVED_CLIENT => GetServer(id).fd \in openServers
         /\ GetServer(id).fd # GetClient(id).fd
         /\ \A other \in Live \ {id} :
              /\ GetClient(other).fd # GetClient(id).fd
              /\ GetClient(other).fd # GetServer(id).fd
              /\ GetServer(other).fd # GetClient(id).fd
              /\ GetServer(other).fd = GetServer(id).fd => GetServer(id).fd = REMOVED_CLIENT
         /\ ctos[id] \in 0 .. BufferSize /\ stoc[id] \in 0 .. BufferSize
<1> USE FdsAssumption
<1>1. \A x \in Live : /\ idTable[x] \in UsedSlots /\ idTable[x] \in Slots
                      /\ GetClient(x).fd \in open /\ GetClient(x).fd \in Fds
                      /\ \A y \in Live : GetClient(x).fd = GetClient(y).fd => x = y
  BY EntryOfLive, FdOfLive DEF ProxyRegistryInv, NoneRemoved
<1>2. id \in Ids /\ GetClient(id) \in Entry /\ GetServer(id) \in Entry
  BY <1>1 DEF ProxyRegistryInv, RegistryInv, RegistryTypeOK, SessionTypeOK, GetClient,
              GetServer, Entry, Live
<1>3. \A x \in Live : GetServer(x).fd # REMOVED_CLIENT =>
                        /\ GetServer(x).fd \in openServers
                        /\ GetServer(x).fd = destination[GetClient(x).fd]
  BY <1>1 DEF ProxyRegistryInv, NoCrosstalk, GetClient, GetServer
<1>4. /\ \A fd \in open : fd \notin openServers
      /\ \A fd, other \in open : destination[fd] = destination[other] => fd = other
  BY DEF ProxyRegistryInv, DestinationsDistinct
<1>5. \A x, y \in Live : GetServer(x).fd # GetClient(y).fd
  BY <1>1, <1>3, <1>4
<1>6. \A x, y \in Live :
        GetServer(x).fd = GetServer(y).fd /\ GetServer(x).fd # REMOVED_CLIENT => x = y
  BY <1>1, <1>3, <1>4
<1>7. ctos[id] \in 0 .. BufferSize /\ stoc[id] \in 0 .. BufferSize
  BY <1>2 DEF ProxyRegistryInv, SessionTypeOK, BuffersAllocated
<1> QED
  BY <1>1, <1>2, <1>3, <1>5, <1>6, <1>7

(* add_client leaves the other sessions alone.                             *)
LEMMA AddSessionEffect ==
  ASSUME ProxyRegistryInv, up, NEW clientFd \in Unused, NEW serverFd \in Unused,
         clientFd # serverFd, AddSession(clientFd, serverFd), NEW id, id = NextId
  PROVE  /\ id \in Ids /\ id \notin Live /\ Live' = Live \cup {id}
         /\ \A x \in Live : GetClient(x)' = GetClient(x) /\ GetServer(x)' = GetServer(x)
         /\ GetClient(id)'.fd = clientFd
         /\ clientCount' = clientCount + 1 /\ up' = up
<1>1. /\ RegistryInv /\ AddClient(clientFd) /\ clientFd \in Fds \ open
      /\ servers' = [servers EXCEPT ![clientCount].fd = serverFd]
  BY DEF ProxyRegistryInv, AddSession, Unused
<1>2. /\ id \in Ids /\ id \notin Live /\ Live' = Live \cup {id}
      /\ \A x \in Live : GetClient(x)' = GetClient(x)
      /\ GetClient(id)'.fd = clientFd
      /\ clientCount' = clientCount + 1 /\ up' = up
  BY <1>1, AddClientEffect
<1>3. \A x \in Live : GetServer(x)' = GetServer(x)
  <2> TAKE x \in Live
  <2>1. x # id /\ x \in Ids /\ idTable[x] \in UsedSlots /\ idTable[x] \in Slots
    BY <1>1, <1>2, EntryOfLive
  <2>2. idTable'[x] = idTable[x]
    BY <1>1, <1>2, <2>1 DEF AddClient, RegistryInv, RegistryTypeOK
  <2>3. idTable[x] # clientCount
    BY <1>1, <2>1 DEF UsedSlots, RegistryInv, RegistryTypeOK
  <2>4. servers'[idTable[x]] = servers[idTable[x]]
    BY <1>1, <2>1, <2>3 DEF ProxyRegistryInv, SessionTypeOK
  <2> QED
    BY <2>2, <2>4 DEF GetServer
<1> QED
  BY <1>2, <1>3

(* remove_client leaves the other sessions alone, but for the one it moves *)
(* into the hole, which loses its destination.                             *)
LEMMA RemoveSessionOthers ==
  ASSUME ProxyRegistryInv, up, NEW id \in Ids, RemoveSession(id)
  PROVE  /\ id \in Live /\ Live' = Live \ {id}
         /\ \A x \in Live \ {id} :
              /\ GetClient(x)' = GetClient(x)
              /\ GetServer(x)' = GetServer(x) \/ GetServer(x)'.fd = REMOVED_CLIENT
         /\ clientCount' = clientCount - 1 /\ up' = up
<1> DEFINE s0 == idTable[id]
           last == clientCount - 1
           lastId == indexToId[last]
<1>1. RegistryInv /\ RemoveClient(id)
  BY DEF ProxyRegistryInv, RemoveSession
<1>2. /\ id \in Live /\ Live' = Live \ {id}
      /\ \A x \in Live \ {id} : GetClient(x)' = GetClient(x)
      /\ clientCount' = clientCount - 1 /\ up' = up
  BY <1>1, RemoveClientOthers
<1>b. /\ s0 \in UsedSlots /\ last \in UsedSlots
      /\ id \in Live /\ lastId \in Live /\ idTable[lastId] = last
      /\ indexToId[s0] = id
      /\ clientCount' = last
      /\ open' = open \ {clients[s0].fd}
      /\ idTable' = [x \in Ids |-> IF x = id THEN REMOVED_CLIENT
                                    ELSE IF x = lastId THEN s0 ELSE idTable[x]]
      /\ indexToId' = [s \in Slots |-> IF s = last THEN NO_ID
                                        ELSE IF s = s0 THEN lastId ELSE indexToId[s]]
      /\ clients' = [s \in Slots |->
            IF s = last
              THEN [clients[s0] EXCEPT !.fd = REMOVED_CLIENT]
              ELSE IF s = s0 THEN clients[last] ELSE clients[s]]
      /\ up' = up
  BY <1>1, RemoveClientEffect
<1>3. /\ indexToId[s0] = id
      /\ idTable' = [x \in Ids |-> IF x = id THEN REMOVED_CLIENT
                                    ELSE IF x = lastId THEN s0 ELSE idTable[x]]
  BY <1>b
<1>4. servers' = [servers EXCEPT ![s0].fd = REMOVED_CLIENT] /\ s0 \in Slots
  BY RemoveSessionEffect
<1> HIDE DEF s0, last, lastId
<1>5. \A x \in Live \ {id} : GetServer(x)' = GetServer(x) \/ GetServer(x)'.fd = REMOVED_CLIENT
  <2> TAKE x \in Live \ {id}
  <2>1. x \in Ids /\ idTable[x] \in Slots /\ indexToId[idTable[x]] = x
    BY <1>1, EntryOfLive DEF RegistryInv, IdsOfSlots
  <2>2. CASE x = lastId
    BY <1>3, <1>4, <2>1, <2>2 DEF GetServer, ProxyRegistryInv, SessionTypeOK
  <2>3. CASE x # lastId
    <3>1. idTable'[x] = idTable[x] /\ idTable[x] # s0
      BY <1>3, <2>1, <2>3
    <3> QED
      BY <1>4, <2>1, <3>1 DEF GetServer, ProxyRegistryInv, SessionTypeOK
  <2> QED
    BY <2>2, <2>3
<1> QED
  BY <1>2, <1>5

(* The entries in use are the sessions'.                                   *)
Connected == \A id \in Live : GetClient(id).fd # REMOVED_CLIENT

LEMMA EntriesOfSessions == RegistryInv /\ Connected => NoneRemoved
BY DEF RegistryInv, IdsOfSlots, GetClient, NoneRemoved, Connected

-----------------------------------------------------------------------------
(* try_transfer: what it may change, and why it fails.                     *)

Results == [how : {"ok", "fail", "killed"}, count : 0 .. BufferSize,
            incoming : [Fds -> Conditions], sendFull : SUBSET Fds]

(* What a read of fd may leave of the kernel's state, and how it fails.    *)
ReadResult(q, fd) ==
    /\ q \in Results
    /\ q.how # "killed"
    /\ q.sendFull = sendFull
    /\ \A other \in Fds : other # fd => q.incoming[other] = incoming[other]
    /\ \A other \in Fds : q.incoming[other] = "reset" <=> incoming[other] = "reset"
    /\ q.how = "fail" => fd = REMOVED_CLIENT \/ incoming[fd] \in {"end", "reset"}

LEMMA ReceiveFacts ==
  ASSUME TypeOK, NEW sender \in Entry, NEW count \in 0 .. BufferSize,
         WantsRecv(sender, count), NEW q \in Received(sender, count)
  PROVE  ReadResult(q, sender.fd)
<1> USE BufferAssumption, FdsAssumption
<1>0. /\ incoming \in [Fds -> Conditions] /\ sendFull \in SUBSET Fds
      /\ sender.fd \in Fds \cup {REMOVED_CLIENT}
      /\ count \in Nat /\ BufferSize \in Nat /\ count < BufferSize
  BY DEF TypeOK, Entry, WantsRecv
<1> DEFINE fd == sender.fd
           Read(c, left) == Result("ok", c, [incoming EXCEPT ![fd] = left], sendFull)
<1>1. \/ q = Failed(count) /\ (fd = REMOVED_CLIENT \/ incoming[fd] \in {"end", "reset"})
      \/ /\ fd \in Fds
         /\ \E c \in 0 .. BufferSize, left \in Conditions :
              /\ q = Read(c, left)
              /\ left = "reset" <=> incoming[fd] = "reset"
  <2>1. CASE fd = REMOVED_CLIENT \/ incoming[fd] = "end"
    BY <2>1 DEF Received
  <2>2. CASE fd \in Fds /\ incoming[fd] = "data"
    <3>1. \/ \E c \in count + 1 .. BufferSize : q = Read(c, "quiet")
          \/ q = Read(BufferSize, "data")
      <4>1. q \in {Read(c, "quiet") : c \in count + 1 .. BufferSize}
                    \cup {Read(BufferSize, "data")}
        <5>1. fd # REMOVED_CLIENT /\ count # BufferSize /\ incoming[fd] = "data"
              /\ incoming[fd] # "end"
          BY <2>2, <1>0
        <5> QED
          BY <5>1, Zenon DEF Received
      <4> HIDE DEF Read
      <4> QED
        BY <4>1
    <3>2. BufferSize \in 0 .. BufferSize /\ count + 1 .. BufferSize \subseteq 0 .. BufferSize
      BY <1>0
    <3> HIDE DEF Read
    <3> QED
      BY <3>1, <3>2, <2>2 DEF Conditions
  <2>3. CASE fd \in Fds /\ incoming[fd] = "reset"
    <3>1. \/ \E c \in count + 1 .. BufferSize : q = Read(c, "reset")
          \/ q = Failed(count)
      BY <2>3, <1>0 DEF Received
    <3>2. count + 1 .. BufferSize \subseteq 0 .. BufferSize
      BY <1>0
    <3> HIDE DEF Read
    <3> QED
      BY <3>1, <3>2, <2>3 DEF Conditions
  <2>4. CASE fd \in Fds /\ incoming[fd] = "quiet"
    BY <2>4, <1>0 DEF Received
  <2> QED
    BY <2>1, <2>2, <2>3, <2>4, <1>0 DEF Conditions
<1>2. CASE q = Failed(count) /\ (fd = REMOVED_CLIENT \/ incoming[fd] \in {"end", "reset"})
  BY <1>0, <1>2 DEF Failed, Result, ReadResult, Results
<1>3. ASSUME NEW c \in 0 .. BufferSize, NEW left \in Conditions, fd \in Fds,
             q = Read(c, left), left = "reset" <=> incoming[fd] = "reset"
      PROVE  ReadResult(q, fd)
  BY <1>0, <1>3 DEF Result, ReadResult, Results
<1> QED
  BY <1>1, <1>2, <1>3

LEMMA TransferFacts ==
  ASSUME TypeOK, NEW sender \in Entry, NEW receiver \in Entry,
         NEW count \in 0 .. BufferSize,
         NEW r \in TransferResults(sender, count, receiver)
  PROVE  /\ r \in Results
         /\ \A fd \in Fds : fd # sender.fd => r.incoming[fd] = incoming[fd]
         /\ \A fd \in Fds : r.incoming[fd] = "reset" <=> incoming[fd] = "reset"
         /\ \A fd \in Fds : fd \in r.sendFull => fd \in sendFull \/ fd = receiver.fd
         /\ r.how = "fail" =>
               \/ REMOVED_CLIENT \in {sender.fd, receiver.fd}
               \/ incoming[sender.fd] \in {"end", "reset"}
               \/ incoming[receiver.fd] = "reset"
<1> USE BufferAssumption, FdsAssumption
<1>0. /\ incoming \in [Fds -> Conditions] /\ sendFull \in SUBSET Fds
      /\ sender.fd \in Fds \cup {REMOVED_CLIENT}
      /\ receiver.fd \in Fds \cup {REMOVED_CLIENT}
      /\ count \in Nat /\ BufferSize \in Nat
  BY DEF TypeOK, Entry
<1> DEFINE Read == IF WantsRecv(sender, count) THEN Received(sender, count)
                   ELSE {Result("ok", count, incoming, sendFull)}
           Written(q) == IF q.how = "ok" /\ WantsSend(q.count, receiver)
                           THEN Sent(receiver, q) ELSE {q}
<1>1. PICK q \in Read : r \in Written(q)
  <2>1. r \in UNION {Written(q) : q \in Read}
    BY DEF TransferResults
  <2> HIDE DEF Read, Written
  <2> QED
    BY <2>1
<1>2. ReadResult(q, sender.fd)
  <2>1. CASE WantsRecv(sender, count)
    BY <1>1, <2>1, ReceiveFacts
  <2>2. CASE ~WantsRecv(sender, count)
    BY <1>0, <1>1, <2>2 DEF Result, ReadResult, Results
  <2> QED
    BY <2>1, <2>2
<1>3. CASE r = q
  BY <1>0, <1>2, <1>3 DEF ReadResult
<1>4. CASE q.how = "ok" /\ r \in Sent(receiver, q)
  <2>1. CASE receiver.fd = REMOVED_CLIENT
    <3>1. r = [q EXCEPT !.how = "fail"]
      BY <1>4, <2>1 DEF Sent
    <3> QED
      BY <1>0, <1>2, <2>1, <3>1 DEF ReadResult, Results
  <2>2. CASE receiver.fd \in Fds /\ q.incoming[receiver.fd] = "reset"
    <3>1. PICK h \in {"fail", "killed"} : r = [q EXCEPT !.how = h]
      BY <1>4, <2>2 DEF Sent
    <3> QED
      BY <1>0, <1>2, <2>2, <3>1 DEF ReadResult, Results
  <2>3. CASE receiver.fd \in Fds /\ q.incoming[receiver.fd] # "reset"
    <3>1. PICK f \in {q.sendFull, q.sendFull \cup {receiver.fd}} :
            r = [q EXCEPT !.count = 0, !.sendFull = f]
      BY <1>4, <2>3 DEF Sent
    <3>2. /\ q.how = "ok" /\ q \in Results /\ q.sendFull = sendFull
          /\ f \in SUBSET Fds /\ 0 \in 0 .. BufferSize
      BY <1>0, <1>2, <1>4, <2>3 DEF ReadResult
    <3>3. r \in Results /\ r.how = "ok" /\ r.incoming = q.incoming /\ r.sendFull = f
      BY <3>1, <3>2 DEF Results
    <3> QED
      BY <1>2, <3>1, <3>2, <3>3 DEF ReadResult
  <2> QED
    BY <1>0, <2>1, <2>2, <2>3
<1> QED
  BY <1>1, <1>3, <1>4

(* It does not block when what poll reported of the two ends still holds.  *)
LEMMA TransferGoesOn ==
  ASSUME TypeOK, NEW sender \in Entry, NEW receiver \in Entry,
         NEW count \in 0 .. BufferSize,
         StillReported(sender, {"POLLOUT"}), StillReported(receiver, {"POLLIN"})
  PROVE  TransferResults(sender, count, receiver) # {}
<1> USE BufferAssumption, FdsAssumption
<1>0. /\ incoming \in [Fds -> Conditions] /\ sendFull \in SUBSET Fds
      /\ sender.fd \in Fds \cup {REMOVED_CLIENT}
      /\ receiver.fd \in Fds \cup {REMOVED_CLIENT}
      /\ count \in Nat /\ BufferSize \in Nat
  BY DEF TypeOK, Entry
<1> DEFINE Read == IF WantsRecv(sender, count) THEN Received(sender, count)
                   ELSE {Result("ok", count, incoming, sendFull)}
           Written(q) == IF q.how = "ok" /\ WantsSend(q.count, receiver)
                           THEN Sent(receiver, q) ELSE {q}
<1>1. Read # {}
  <2>1. CASE WantsRecv(sender, count) /\ sender.fd \in Fds
    <3>1. incoming[sender.fd] # "quiet"
      BY <2>1 DEF StillReported, WantsRecv, Revents
    <3> QED
      BY <1>0, <2>1, <3>1 DEF Received, Conditions
  <2>2. CASE ~(WantsRecv(sender, count) /\ sender.fd \in Fds)
    BY <1>0, <2>2 DEF Received
  <2> QED
    BY <2>1, <2>2
<1>2. PICK q : q \in Read
  BY <1>1
<1>3. ReadResult(q, sender.fd)
  <2>1. CASE WantsRecv(sender, count)
    BY <1>2, <2>1, ReceiveFacts
  <2>2. CASE ~WantsRecv(sender, count)
    BY <1>0, <1>2, <2>2 DEF Result, ReadResult, Results
  <2> QED
    BY <2>1, <2>2
<1>4. Written(q) # {}
  <2>1. CASE WantsSend(q.count, receiver) /\ receiver.fd \in Fds
    <3>1. receiver.fd \notin sendFull \/ incoming[receiver.fd] = "reset"
      BY <2>1 DEF StillReported, WantsSend, Revents
    <3>2. receiver.fd \notin q.sendFull \/ q.incoming[receiver.fd] = "reset"
      BY <2>1, <3>1, <1>3 DEF ReadResult
    <3> QED
      BY <2>1, <3>2 DEF Sent
  <2>2. CASE ~(WantsSend(q.count, receiver) /\ receiver.fd \in Fds)
    BY <1>0, <2>2 DEF Sent
  <2> QED
    BY <2>1, <2>2
<1> HIDE DEF Read, Written
<1>5. PICK r : r \in Written(q)
  BY <1>4
<1>6. r \in UNION {Written(p) : p \in Read}
  BY <1>2, <1>5
<1> QED
  BY <1>6 DEF TransferResults, Read, Written

-----------------------------------------------------------------------------
(* The invariant of the loop.  Of ListMatchesSessions only one half needs  *)
(* to be carried along; the rest follows.                                  *)

LoopInv ==
    /\ TypeOK
    /\ ProxyRegistryInv
    /\ ListInv
    /\ pc # "exit" => Members = Live
    /\ NoneRemoved
    /\ PhaseOfRound
    /\ RoundIsFresh

LEMMA VisitedIsLive ==
  ASSUME LoopInv, Visiting
  PROVE  /\ i \in UsedPositions /\ i \in Positions /\ i \in Nat /\ i < listCount
         /\ list[i] \in Live /\ list[i] \in Ids /\ list[i] # REMOVED_CLIENT
         /\ up /\ ~committing /\ pc \in {"ctos", "stoc"}
<1> USE MaxClientsAssumption
<1>1. up /\ ~committing /\ pc \in {"ctos", "stoc"} /\ \A p \in MarkedPositions : p < i
  BY DEF Visiting, LoopInv, PhaseOfRound
<1>2. i \in UsedPositions /\ i \in Nat /\ i < listCount /\ i \in Positions
  BY <1>1 DEF Visiting, ReadLoopGuard, LoopInv, TypeOK, PhaseOfRound, ListTypeOK,
              UsedPositions, Positions
<1>3. i \notin MarkedPositions
  BY <1>1, <1>2
<1>4. list[i] \in Members /\ list[i] # REMOVED_CLIENT
  BY <1>2, <1>3 DEF MarkedPositions, IsRemoved, Members
<1> QED
  BY <1>1, <1>2, <1>4 DEF LoopInv, Live

(* Between two rounds list and registry have the same size.                *)
LEMMA ListAsLongAsRegistry ==
  ASSUME LoopInv, pc \in {"poll", "accept"}
  PROVE  /\ listCount = clientCount /\ MarkedPositions = {}
         /\ ~committing /\ removedCount = 0 /\ up /\ Members = Live
         /\ \A p \in UsedPositions : list[p] \in Live
<1>1. ~committing /\ removedCount = 0 /\ Members = Live /\ up
  BY DEF LoopInv, PhaseOfRound
<1>2. listCount = clientCount /\ MarkedPositions = {}
  BY <1>1, CountLive, MembersCounted DEF LoopInv, ProxyRegistryInv, RegistryInv
<1>3. \A p \in UsedPositions : list[p] \in Members
  BY <1>2 DEF MarkedPositions, IsRemoved, Members
<1> QED
  BY <1>1, <1>2, <1>3

LEMMA LoopInvEquivalent == LoopInv <=> ProxyInv /\ ProxyRegistryInv
<1>1. ASSUME LoopInv PROVE ProxyInv /\ ProxyRegistryInv
  <2>1. ListMatchesSessions
    BY <1>1, VisitedIsLive, ListAsLongAsRegistry DEF LoopInv, ListInv, ListMatchesSessions
  <2> QED
    BY <1>1, <2>1 DEF LoopInv, ProxyInv, NoneRemoved
<1>2. ASSUME ProxyInv, ProxyRegistryInv PROVE LoopInv
  BY <1>2 DEF LoopInv, ProxyInv, NoneRemoved, ListMatchesSessions
<1> QED
  BY <1>1, <1>2

(* poll's report of a descriptor survives what adds to its conditions.     *)
ReportKept(fd) ==
    /\ incoming[fd] # "quiet" => incoming'[fd] # "quiet"
    /\ incoming[fd] = "reset" => incoming'[fd] = "reset"
    /\ fd \in sendFull' => fd \in sendFull

LEMMA FreshKept ==
  ASSUME NEW id, SessionIsFresh(id),
         GetClient(id)' = GetClient(id),
         GetServer(id)' = GetServer(id) \/ GetServer(id)'.fd = REMOVED_CLIENT,
         GetClient(id).fd # REMOVED_CLIENT => ReportKept(GetClient(id).fd),
         GetServer(id).fd # REMOVED_CLIENT => ReportKept(GetServer(id).fd)
  PROVE  SessionIsFresh(id)'
<1>1. PICK c : c = GetClient(id)
  OBVIOUS
<1>2. PICK d : d = GetServer(id)
  OBVIOUS
<1>3. \A fd : ReportKept(fd) => Revents(fd) \subseteq Revents(fd)'
  BY DEF ReportKept, Revents
<1>4. /\ c.fd # REMOVED_CLIENT => c.revents \subseteq Revents(c.fd)
      /\ d.fd # REMOVED_CLIENT => d.revents \subseteq Revents(d.fd)
  BY <1>1, <1>2 DEF SessionIsFresh, StillReported
<1>5. StillReported(GetClient(id), {})'
  <2>1. GetClient(id)' = c
    BY <1>1
  <2>2. c.fd # REMOVED_CLIENT => c.revents \subseteq Revents(c.fd)'
    BY <1>1, <1>3, <1>4
  <2> QED
    BY <2>1, <2>2 DEF StillReported, Revents
<1>6. StillReported(GetServer(id), {})'
  <2>1. GetServer(id)' = d \/ GetServer(id)'.fd = REMOVED_CLIENT
    BY <1>2
  <2>2. d.fd # REMOVED_CLIENT => d.revents \subseteq Revents(d.fd)'
    BY <1>2, <1>3, <1>4
  <2> QED
    BY <2>1, <2>2 DEF StillReported, Revents
<1> QED
  BY <1>5, <1>6 DEF SessionIsFresh

LEMMA InitLoopInv == Init => LoopInv
<1> SUFFICES ASSUME Init PROVE LoopInv
  OBVIOUS
<1> USE MaxClientsAssumption, ProxyAssumption
<1>1. ProxyRegistryInv /\ ListInv
  BY InitProxyRegistryInv, InitListInv DEF Init
<1>2. Live = {} /\ Members = {} /\ UsedSlots = {} /\ UsedPositions = {}
  BY DEF Init, ProxyRegistryInit, RegistryInit, ListInit, Live, IsValidId, Members,
         UsedPositions, UsedSlots
<1>3. TypeOK
  <2>1. incoming \in [Fds -> Conditions]
    BY DEF Init, Conditions
  <2>2. hasPending \in BOOLEAN
    BY DEF Init
  <2> QED
    BY <1>1, <2>1, <2>2 DEF Init, TypeOK, ProxyRegistryInv, RegistryInv, ListInv
<1>4. NoneRemoved /\ PhaseOfRound /\ RoundIsFresh
  BY <1>2 DEF Init, ProxyRegistryInit, ListInit, RegistryInit, NoneRemoved, PhaseOfRound, RoundIsFresh
<1> QED
  BY <1>1, <1>2, <1>3, <1>4 DEF LoopInv

LEMMA PollInv ==
  ASSUME LoopInv, Poll
  PROVE  LoopInv'
<1> USE MaxClientsAssumption, ProxyAssumption
<1> DEFINE ready == [fd \in Fds |-> Revents(fd)]
<1>1. /\ pc = "poll" /\ pc' = "accept"
      /\ PollSessions(ready)
      /\ hasPending' = (backlog > 0)
      /\ fdCount' = Ready(clients') + Ready(servers') + (IF backlog > 0 THEN 1 ELSE 0)
      /\ UNCHANGED <<listVars, i, processed, ioable, kernelVars>>
  BY DEF Poll
<1>2. up /\ removedCount = 0 /\ ~committing /\ Members = Live /\ hasPending' \in BOOLEAN
  BY <1>1 DEF LoopInv, PhaseOfRound
<1>3. ready \in [Fds -> SUBSET Events]
  BY DEF Revents
<1>4. ProxyRegistryInv'
  BY <1>1, <1>2, <1>3, PollSessionsInv DEF LoopInv
<1>5. /\ ListInv' /\ Members' = Members
      /\ UNCHANGED <<list, listCount, removedCount, committing>>
  BY <1>1, ListUnchanged DEF LoopInv
<1>6. /\ UNCHANGED <<idTable, indexToId, clientCount, open, up>>
      /\ Live' = Live /\ UsedSlots' = UsedSlots
  BY <1>1 DEF PollSessions, PollClients, Live, IsValidId, UsedSlots
<1>7. clientCount \in 0 .. MaxClients /\ UsedSlots \subseteq Slots
  BY DEF LoopInv, TypeOK, RegistryTypeOK, UsedSlots, Slots, Ids
<1>8. \A s \in UsedSlots :
        /\ clients'[s].fd = clients[s].fd /\ servers'[s].fd = servers[s].fd
        /\ clients[s].fd \in Fds => clients'[s].revents = Revents(clients[s].fd)
        /\ servers[s].fd \in Fds => servers'[s].revents = Revents(servers[s].fd)
  <2> SUFFICES ASSUME NEW s \in UsedSlots
               PROVE  /\ clients'[s].fd = clients[s].fd /\ servers'[s].fd = servers[s].fd
                      /\ clients[s].fd \in Fds => clients'[s].revents = Revents(clients[s].fd)
                      /\ servers[s].fd \in Fds => servers'[s].revents = Revents(servers[s].fd)
    OBVIOUS
  <2>1. clients[s] \in Entry /\ servers[s] \in Entry /\ s \in Slots
    BY <1>7 DEF LoopInv, TypeOK, RegistryTypeOK, SessionTypeOK, Entry
  <2>2. /\ clients' = [t \in Slots |->
              IF t \in UsedSlots
                THEN [clients[t] EXCEPT !.revents = IF clients[t].fd = REMOVED_CLIENT THEN {}
                                                    ELSE ready[clients[t].fd]]
                ELSE clients[t]]
        /\ servers' = [t \in Slots |->
              IF t \in UsedSlots
                THEN [servers[t] EXCEPT !.revents = IF servers[t].fd = REMOVED_CLIENT THEN {}
                                                    ELSE ready[servers[t].fd]]
                ELSE servers[t]]
    BY <1>1 DEF PollSessions, PollClients
  <2>3. \A fd \in Fds : ready[fd] = Revents(fd)
    OBVIOUS
  <2> HIDE DEF ready
  <2> QED
    BY <2>1, <2>2, <2>3, FdsAssumption DEF Entry
<1>9. \A id \in Live' : SessionIsFresh(id)'
  <2> SUFFICES ASSUME NEW id \in Live PROVE SessionIsFresh(id)'
    BY <1>6
  <2>1. idTable[id] \in UsedSlots
    BY EntryOfLive DEF LoopInv, ProxyRegistryInv
  <2>2. PICK s \in UsedSlots : s = idTable[id]
    BY <2>1
  <2>3. GetClient(id)' = clients'[s] /\ GetServer(id)' = servers'[s]
    BY <1>6, <2>2 DEF GetClient, GetServer
  <2>4. /\ clients'[s].fd \in Fds \cup {REMOVED_CLIENT}
        /\ servers'[s].fd \in Fds \cup {REMOVED_CLIENT}
    BY <1>4, <1>7 DEF ProxyRegistryInv, RegistryInv, RegistryTypeOK, SessionTypeOK
  <2>5. \A fd : Revents(fd)' = Revents(fd)
    BY <1>1 DEF kernelVars, Revents
  <2>6. PICK c : c = clients'[s]
    OBVIOUS
  <2>7. PICK d : d = servers'[s]
    OBVIOUS
  <2>8. /\ c.fd # REMOVED_CLIENT => c.revents = Revents(c.fd)'
        /\ d.fd # REMOVED_CLIENT => d.revents = Revents(d.fd)'
    BY <1>8, <2>4, <2>5, <2>6, <2>7
  <2> QED
    BY <2>3, <2>6, <2>7, <2>8 DEF SessionIsFresh, StillReported, Revents
<1>10. \A n \in {Ready(clients'), Ready(servers')} : n \in 0 .. clientCount
  <2>1. IsFiniteSet(UsedSlots) /\ Cardinality(UsedSlots) = clientCount
    <3>1. 0 \in Int /\ clientCount - 1 \in Int /\ clientCount \in Nat
      BY <1>7
    <3> QED
      BY <3>1, <1>7, FS_Interval DEF UsedSlots
  <2>2. \A S \in SUBSET UsedSlots : Cardinality(S) \in 0 .. clientCount
    <3> TAKE S \in SUBSET UsedSlots
    <3>1. IsFiniteSet(S) /\ Cardinality(S) <= clientCount
      BY <2>1, FS_Subset
    <3>2. Cardinality(S) \in Nat
      BY <3>1, FS_CardinalityType
    <3> QED
      BY <3>1, <3>2, <1>7
  <2> QED
    BY <2>2 DEF Ready
<1>11. /\ fdCount' \in 0 .. 2 * clientCount + 1
       /\ hasPending' => fdCount' >= 1
  <2>1. PICK n \in 0 .. clientCount, m \in 0 .. clientCount :
          n = Ready(clients') /\ m = Ready(servers')
    BY <1>10
  <2>2. /\ fdCount' = n + m + (IF backlog > 0 THEN 1 ELSE 0)
        /\ hasPending' => backlog > 0
    BY <1>1, <2>1
  <2>3. CASE backlog > 0
    BY <1>7, <2>2, <2>3
  <2>4. CASE ~(backlog > 0)
    BY <1>7, <2>2, <2>4
  <2> QED
    BY <2>3, <2>4
<1>12. TypeOK'
  <2>1. fdCount' \in 0 .. 2 * MaxClients + 1
    BY <1>7, <1>11
  <2> QED
    BY <1>1, <1>2, <1>4, <1>5, <2>1
       DEF LoopInv, TypeOK, ProxyRegistryInv, RegistryInv, ListInv, kernelVars
<1>13. NoneRemoved'
  BY <1>6, <1>8 DEF LoopInv, NoneRemoved
<1>14. PhaseOfRound'
  BY <1>1, <1>2, <1>5, <1>6, <1>7, <1>11 DEF LoopInv, PhaseOfRound
<1>15. RoundIsFresh'
  BY <1>1, <1>9 DEF RoundIsFresh
<1> QED
  BY <1>2, <1>4, <1>5, <1>6, <1>12, <1>13, <1>14, <1>15 DEF LoopInv

(* What holds of the list's positions when try_read starts without a       *)
(* newcomer.                                                               *)
LEMMA PositionsFresh ==
  ASSUME LoopInv, pc = "accept"
  PROVE  \A p \in UsedPositions : list[p] \in Live /\ SessionIsFresh(list[p])
BY ListAsLongAsRegistry DEF LoopInv, RoundIsFresh

LEMMA NothingPendingInv ==
  ASSUME LoopInv, NothingPending
  PROVE  LoopInv'
<1> USE MaxClientsAssumption, ProxyAssumption
<1>1. /\ pc = "accept" /\ ~hasPending
      /\ pc' = "ctos" /\ i' = 0 /\ processed' = 0 /\ ioable' = fdCount /\ fdCount' = 0
      /\ UNCHANGED <<proxyRegistryVars, listVars, hasPending, kernelVars>>
  BY DEF NothingPending, EnterTryRead
<1>2. /\ ProxyRegistryInv' /\ Live' = Live /\ UsedSlots' = UsedSlots
      /\ \A id : GetClient(id)' = GetClient(id) /\ GetServer(id)' = GetServer(id)
      /\ UNCHANGED <<idTable, clientCount, clients, up>>
  BY <1>1, SessionsUnchanged DEF LoopInv
<1>3. /\ ListInv' /\ Members' = Members /\ UsedPositions' = UsedPositions
      /\ MarkedPositions' = MarkedPositions
      /\ UNCHANGED <<list, listCount, removedCount, committing>>
  BY <1>1, ListUnchanged DEF LoopInv
<1>4. /\ MarkedPositions = {} /\ ~committing /\ up /\ Members = Live
  BY <1>1, ListAsLongAsRegistry
<1>5. TypeOK'
  BY <1>1, <1>2, <1>3 DEF LoopInv, TypeOK, ProxyRegistryInv, RegistryInv, ListInv, kernelVars
<1>6. \A p \in UsedPositions : SessionIsFresh(list[p])'
  <2> TAKE p \in UsedPositions
  <2>1. PICK id : id = list[p]
    OBVIOUS
  <2>2. SessionIsFresh(id)
    BY <1>1, <2>1, PositionsFresh
  <2>3. \A fd : ReportKept(fd)
    BY <1>1 DEF ReportKept, kernelVars
  <2>4. SessionIsFresh(id)'
    BY <1>2, <2>2, <2>3, FreshKept
  <2>5. list'[p] = id
    BY <1>3, <2>1
  <2> QED
    BY <2>4, <2>5 DEF SessionIsFresh, GetClient, GetServer
<1>7. RoundIsFresh'
  BY <1>1, <1>3, <1>6 DEF RoundIsFresh
<1>8. PhaseOfRound'
  BY <1>1, <1>2, <1>3, <1>4 DEF PhaseOfRound
<1> QED
  BY <1>2, <1>3, <1>4, <1>5, <1>7, <1>8 DEF LoopInv, NoneRemoved

LEMMA AcceptSessionInv ==
  ASSUME LoopInv, AcceptSession
  PROVE  LoopInv'
<1> USE MaxClientsAssumption, ProxyAssumption
<1>1. PICK clientFd \in Unused, serverFd \in Unused :
        clientFd # serverFd /\ AddSession(clientFd, serverFd)
  BY DEF AcceptSession
<1>2. PICK id : id = NextId
  OBVIOUS
<1>3. /\ pc = "accept" /\ hasPending /\ backlog > 0 /\ backlog' = backlog - 1
      /\ pc' = "ctos" /\ i' = 0 /\ processed' = 0 /\ ioable' = fdCount - 1
      /\ fdCount' = 0
      /\ AppendId(id)
      /\ UNCHANGED <<hasPending, incoming, sendFull>>
  BY <1>2 DEF AcceptSession, EnterTryRead
<1>4. /\ listCount = clientCount /\ MarkedPositions = {}
      /\ ~committing /\ removedCount = 0 /\ up /\ Members = Live
      /\ \A p \in UsedPositions : list[p] \in Live /\ SessionIsFresh(list[p])
  BY <1>3, ListAsLongAsRegistry, PositionsFresh
<1>5. ProxyRegistryInv'
  BY <1>1, <1>4, AddSessionInv DEF LoopInv
<1>6. /\ id \in Ids /\ id \notin Live /\ Live' = Live \cup {id}
      /\ \A x \in Live : GetClient(x)' = GetClient(x) /\ GetServer(x)' = GetServer(x)
      /\ GetClient(id)'.fd = clientFd
      /\ clientCount' = clientCount + 1 /\ up' = up
  BY <1>1, <1>2, <1>4, AddSessionEffect DEF LoopInv
<1>7. listCount < MaxClients /\ listCount \in Nat
  BY <1>4, <1>5, <1>6
     DEF ProxyRegistryInv, RegistryInv, RegistryTypeOK, LoopInv, ListInv, ListTypeOK
<1>8. ListInv' /\ Members' = Members \cup {id} /\ MarkedPositions' = {}
  BY <1>3, <1>4, <1>6, <1>7, AppendInv DEF LoopInv
<1>9. /\ listCount' = listCount + 1
      /\ UNCHANGED <<removedCount, committing>>
      /\ \A p \in UsedPositions : list'[p] = list[p]
      /\ UsedPositions' = UsedPositions \cup {listCount}
      /\ listCount \notin UsedPositions
  <2>1. list' = [list EXCEPT ![listCount] = id] /\ listCount' = listCount + 1
        /\ UNCHANGED <<removedCount, committing>>
    BY <1>3 DEF AppendId
  <2>2. UsedPositions \subseteq Positions /\ listCount \notin UsedPositions
        /\ UsedPositions' = UsedPositions \cup {listCount}
    BY <1>7, <2>1 DEF UsedPositions, Positions
  <2> QED
    BY <2>1, <2>2 DEF LoopInv, ListInv, ListTypeOK
<1>10. TypeOK'
  <2>1. fdCount - 1 \in 0 .. 2 * MaxClients + 1
    BY <1>3 DEF LoopInv, TypeOK, PhaseOfRound
  <2>2. backlog' \in 0 .. Backlog
    BY <1>3 DEF LoopInv, TypeOK
  <2> QED
    BY <1>3, <1>5, <1>8, <2>1, <2>2
       DEF LoopInv, TypeOK, ProxyRegistryInv, RegistryInv, ListInv
<1>11. NoneRemoved'
  <2>1. RegistryInv' /\ Connected' => NoneRemoved'
    BY EntriesOfSessions, PTL
  <2>2. \A x \in Live' : GetClient(x)'.fd # REMOVED_CLIENT
    <3>1. \A x \in Live : GetClient(x).fd # REMOVED_CLIENT
      BY <1>4, EndsOfSession, FdsAssumption DEF LoopInv
    <3> QED
      BY <3>1, <1>6, FdsAssumption DEF Unused
  <2> QED
    BY <2>1, <2>2, <1>5 DEF ProxyRegistryInv, Connected
<1>12. \A p \in UsedPositions : SessionIsFresh(list[p])'
  <2> TAKE p \in UsedPositions
  <2>1. PICK x \in Live : x = list[p]
    BY <1>4
  <2>2. SessionIsFresh(x)
    BY <1>4, <2>1
  <2>3. \A fd : ReportKept(fd)
    BY <1>3 DEF ReportKept
  <2>4. SessionIsFresh(x)'
    BY <1>6, <2>2, <2>3, FreshKept
  <2>5. list'[p] = x
    BY <1>9, <2>1
  <2> QED
    BY <2>4, <2>5 DEF SessionIsFresh, GetClient, GetServer
<1>13. RoundIsFresh'
  <2>1. \A p \in UsedPositions' : SessionIsFresh(list[p])' \/ p = listCount' - 1
    BY <1>7, <1>9, <1>12
  <2> QED
    BY <1>3, <2>1 DEF RoundIsFresh, Newcomer
<1>14. PhaseOfRound'
  BY <1>3, <1>4, <1>6, <1>8, <1>9 DEF PhaseOfRound
<1> QED
  BY <1>4, <1>5, <1>6, <1>8, <1>10, <1>11, <1>13, <1>14 DEF LoopInv

LEMMA RoundCutShortInv ==
  ASSUME LoopInv, AcceptUndone \/ AcceptFails
  PROVE  LoopInv'
<1> USE MaxClientsAssumption, ProxyAssumption
<1>1. /\ pc = "accept" /\ pc' = "poll"
      /\ i' = 0 /\ processed' = 0 /\ ioable' = 0 /\ hasPending' = FALSE /\ fdCount' = 0
      /\ backlog' = backlog \/ (backlog > 0 /\ backlog' = backlog - 1)
      /\ UNCHANGED <<proxyRegistryVars, listVars, incoming, sendFull>>
  BY DEF AcceptUndone, AcceptFails, EndRound
<1>2. /\ ProxyRegistryInv' /\ Live' = Live /\ UsedSlots' = UsedSlots
      /\ UNCHANGED <<idTable, clientCount, clients, up>>
  BY <1>1, SessionsUnchanged DEF LoopInv
<1>3. /\ ListInv' /\ Members' = Members
      /\ UNCHANGED <<list, listCount, removedCount, committing>>
  BY <1>1, ListUnchanged DEF LoopInv
<1>4. TypeOK'
  <2>1. backlog' \in 0 .. Backlog
    BY <1>1 DEF LoopInv, TypeOK
  <2>2. hasPending' \in BOOLEAN
    BY <1>1
  <2> QED
    BY <1>1, <1>2, <1>3, <2>1, <2>2 DEF LoopInv, TypeOK, ProxyRegistryInv, RegistryInv, ListInv
<1>5. RoundIsFresh' /\ PhaseOfRound' /\ NoneRemoved'
  BY <1>1, <1>2, <1>3 DEF LoopInv, RoundIsFresh, PhaseOfRound, NoneRemoved
<1> QED
  BY <1>1, <1>2, <1>3, <1>4, <1>5 DEF LoopInv

LEMMA TryReadEndInv ==
  ASSUME LoopInv, TryReadEnd
  PROVE  LoopInv'
<1> USE MaxClientsAssumption, ProxyAssumption
<1>1. /\ pc = "ctos" /\ pc' = "commit" /\ CommitBegin
      /\ i' = 0 /\ processed' = 0 /\ ioable' = 0
      /\ UNCHANGED <<proxyRegistryVars, hasPending, fdCount, kernelVars>>
  BY DEF TryReadEnd
<1>2. /\ ProxyRegistryInv' /\ Live' = Live /\ UsedSlots' = UsedSlots
      /\ UNCHANGED <<idTable, clientCount, clients, up>>
  BY <1>1, SessionsUnchanged DEF LoopInv
<1>3. ListInv' /\ Members' = Members /\ committing'
  BY <1>1, CommitBeginInv DEF LoopInv, CommitBegin
<1>4. TypeOK'
  BY <1>1, <1>2, <1>3 DEF LoopInv, TypeOK, ProxyRegistryInv, RegistryInv, ListInv, kernelVars
<1>5. RoundIsFresh' /\ PhaseOfRound' /\ NoneRemoved'
  BY <1>1, <1>2, <1>3 DEF LoopInv, RoundIsFresh, PhaseOfRound, NoneRemoved
<1> QED
  BY <1>1, <1>2, <1>3, <1>4, <1>5 DEF LoopInv

LEMMA CommitLoopInv ==
  ASSUME LoopInv, CommitLoop
  PROVE  LoopInv'
<1>1. /\ pc = "commit" /\ pc' = pc /\ CommitStep
      /\ UNCHANGED <<proxyRegistryVars, i, processed, ioable, hasPending, fdCount, kernelVars>>
  BY DEF CommitLoop, loopVars
<1>2. /\ ProxyRegistryInv' /\ Live' = Live /\ UsedSlots' = UsedSlots
      /\ UNCHANGED <<idTable, clientCount, clients, up>>
  BY <1>1, SessionsUnchanged DEF LoopInv
<1>3. ListInv' /\ Members' = Members /\ committing'
  BY <1>1, CommitStepInv DEF LoopInv, CommitStep
<1>4. TypeOK'
  BY <1>1, <1>2, <1>3 DEF LoopInv, TypeOK, ProxyRegistryInv, RegistryInv, ListInv, kernelVars
<1>5. RoundIsFresh' /\ PhaseOfRound' /\ NoneRemoved'
  BY <1>1, <1>2, <1>3 DEF LoopInv, RoundIsFresh, PhaseOfRound, NoneRemoved
<1> QED
  BY <1>1, <1>2, <1>3, <1>4, <1>5 DEF LoopInv

LEMMA CommitDoneInv ==
  ASSUME LoopInv, CommitDone
  PROVE  LoopInv'
<1> USE MaxClientsAssumption, ProxyAssumption
<1>1. /\ pc = "commit" /\ pc' = "poll" /\ CommitEnd
      /\ i' = 0 /\ processed' = 0 /\ ioable' = 0 /\ hasPending' = FALSE /\ fdCount' = 0
      /\ UNCHANGED <<proxyRegistryVars, kernelVars>>
  BY DEF CommitDone, EndRound
<1>2. /\ ProxyRegistryInv' /\ Live' = Live /\ UsedSlots' = UsedSlots
      /\ UNCHANGED <<idTable, clientCount, clients, up>>
  BY <1>1, SessionsUnchanged DEF LoopInv
<1>3. ListInv' /\ Members' = Members /\ removedCount' = 0 /\ ~committing'
  BY <1>1, CommitEndInv DEF LoopInv, CommitEnd
<1>4. TypeOK'
  <2>1. hasPending' \in BOOLEAN
    BY <1>1
  <2> QED
    BY <1>1, <1>2, <1>3, <2>1
       DEF LoopInv, TypeOK, ProxyRegistryInv, RegistryInv, ListInv, kernelVars
<1>5. RoundIsFresh' /\ PhaseOfRound' /\ NoneRemoved'
  BY <1>1, <1>2, <1>3 DEF LoopInv, RoundIsFresh, PhaseOfRound, NoneRemoved
<1> QED
  BY <1>1, <1>2, <1>3, <1>4, <1>5 DEF LoopInv

LEMMA InterruptInv ==
  ASSUME LoopInv, Interrupt
  PROVE  LoopInv'
<1>1. /\ pc # "exit" /\ pc' = "exit" /\ CleanupSessions /\ up /\ ~up'
      /\ incoming' = [fd \in Fds |-> "quiet"] /\ sendFull' = {}
      /\ UNCHANGED <<listVars, i, processed, ioable, hasPending, fdCount, backlog>>
  BY DEF Interrupt, CleanupSessions, SafeCleanup, LoopInv, PhaseOfRound
<1>2. ProxyRegistryInv' /\ UsedSlots' = UsedSlots /\ clients' = clients
  BY <1>1, CleanupSessionsInv DEF LoopInv, CleanupSessions, SafeCleanup, UsedSlots
<1>3. ListInv'
  BY <1>1, ListUnchanged DEF LoopInv
<1>4. TypeOK'
  <2>1. incoming' \in [Fds -> Conditions] /\ sendFull' \in SUBSET Fds
    BY <1>1 DEF Conditions
  <2> QED
    BY <1>1, <1>2, <1>3, <2>1 DEF LoopInv, TypeOK, ProxyRegistryInv, RegistryInv, ListInv
<1>5. RoundIsFresh' /\ PhaseOfRound' /\ NoneRemoved'
  BY <1>1, <1>2 DEF LoopInv, RoundIsFresh, PhaseOfRound, NoneRemoved
<1> QED
  BY <1>1, <1>2, <1>3, <1>4, <1>5 DEF LoopInv

(* SIGPIPE ends the process; the kernel closes its descriptors.            *)
LEMMA KilledInv ==
  ASSUME LoopInv, Killed, processed' \in 0 .. 2 * MaxClients + 1,
         UNCHANGED <<ioable, hasPending, fdCount, backlog>>
  PROVE  LoopInv'
<1>1. /\ pc' = "exit" /\ ~up' /\ up' \in BOOLEAN
      /\ open' = {} /\ openServers' = {}
      /\ incoming' = [fd \in Fds |-> "quiet"] /\ sendFull' = {}
      /\ UNCHANGED <<idTable, indexToId, clientCount, clients, servers, ctos,
                     stoc, destination, i>>
      /\ UNCHANGED listVars
  BY DEF Killed
<1>2. Live' = Live /\ UsedSlots' = UsedSlots
  BY <1>1 DEF Live, IsValidId, UsedSlots
<1>3. RegistryInv'
  BY <1>1, <1>2 DEF LoopInv, ProxyRegistryInv, RegistryInv, RegistryTypeOK, IdsOfSlots,
                    UnusedSlotsEmpty, FdsDistinct, OpenFdsPolled
<1>4. ProxyRegistryInv'
  BY <1>1, <1>2, <1>3 DEF LoopInv, ProxyRegistryInv, SessionTypeOK, NoCrosstalk,
                          BuffersAllocated, DestinationsDistinct
<1>5. ListInv'
  BY <1>1, ListUnchanged DEF LoopInv
<1>6. TypeOK'
  <2>1. incoming' \in [Fds -> Conditions] /\ sendFull' \in SUBSET Fds
    BY <1>1 DEF Conditions
  <2> QED
    BY <1>1, <1>4, <1>5, <2>1 DEF LoopInv, TypeOK, ProxyRegistryInv, RegistryInv, ListInv
<1>7. RoundIsFresh' /\ PhaseOfRound' /\ NoneRemoved'
  BY <1>1, <1>2 DEF LoopInv, RoundIsFresh, PhaseOfRound, NoneRemoved
<1> QED
  BY <1>1, <1>4, <1>5, <1>6, <1>7 DEF LoopInv

(* The peers, and clients that connect, only add to what poll reported.    *)
LEMMA EnvironmentInv ==
  ASSUME LoopInv, Connect \/ PeerStep
  PROVE  LoopInv'
<1> USE ProxyAssumption
<1>0. incoming \in [Fds -> Conditions] /\ sendFull \in SUBSET Fds /\ backlog \in 0 .. Backlog
  BY DEF LoopInv, TypeOK
<1>1. /\ UNCHANGED <<proxyRegistryVars, listVars, loopVars>>
      /\ backlog' \in 0 .. Backlog
      /\ incoming' \in [Fds -> Conditions] /\ sendFull' \in SUBSET Fds
      /\ \A fd : ReportKept(fd)
  <2>1. CASE Connect
    BY <1>0, <2>1 DEF Connect, ReportKept
  <2>2. CASE PeerStep
    <3>1. /\ UNCHANGED <<proxyRegistryVars, listVars, loopVars>>
          /\ UNCHANGED backlog
      BY <2>2 DEF PeerStep
    <3>2. PICK fd \in open \cup openServers : PeerSends(fd) \/ PeerResets(fd) \/ PeerReads(fd)
      BY <2>2 DEF PeerStep
    <3>3. fd \in Fds
      BY DEF LoopInv, TypeOK, RegistryTypeOK, SessionTypeOK
    <3>4. CASE PeerSends(fd)
      <4>1. /\ incoming[fd] = "quiet" /\ sendFull' = sendFull
            /\ \E c \in {"data", "end"} : incoming' = [incoming EXCEPT ![fd] = c]
        BY <3>4 DEF PeerSends
      <4> QED
        BY <1>0, <3>1, <3>3, <4>1 DEF ReportKept, Conditions
    <3>5. CASE PeerResets(fd)
      BY <1>0, <3>1, <3>3, <3>5 DEF PeerResets, ReportKept, Conditions
    <3>6. CASE PeerReads(fd)
      BY <1>0, <3>1, <3>6 DEF PeerReads, ReportKept
    <3> QED
      BY <3>2, <3>4, <3>5, <3>6
  <2> QED
    BY <2>1, <2>2
<1>2. /\ ProxyRegistryInv' /\ Live' = Live /\ UsedSlots' = UsedSlots
      /\ \A id : GetClient(id)' = GetClient(id) /\ GetServer(id)' = GetServer(id)
      /\ UNCHANGED <<idTable, clientCount, clients, up>>
  BY <1>1, SessionsUnchanged DEF LoopInv
<1>3. /\ ListInv' /\ Members' = Members /\ UsedPositions' = UsedPositions
      /\ MarkedPositions' = MarkedPositions
      /\ UNCHANGED <<list, listCount, removedCount, committing>>
  BY <1>1, ListUnchanged DEF LoopInv
<1>4. TypeOK'
  BY <1>1, <1>2, <1>3 DEF LoopInv, TypeOK, ProxyRegistryInv, RegistryInv, ListInv, loopVars
<1>5. \A id : SessionIsFresh(id) => SessionIsFresh(id)'
  BY <1>1, <1>2, FreshKept
<1>6. \A p : SessionIsFresh(list[p]) => SessionIsFresh(list[p])'
  <2> TAKE p
  <2>1. PICK id : id = list[p]
    OBVIOUS
  <2>2. SessionIsFresh(id) => SessionIsFresh(id)'
    BY <1>5
  <2>3. list'[p] = id
    BY <1>3, <2>1
  <2> QED
    BY <2>1, <2>2, <2>3 DEF SessionIsFresh, GetClient, GetServer
<1>7. \A fd : Revents(fd) \subseteq Revents(fd)'
  BY <1>1 DEF ReportKept, Revents
<1>8. pc = "stoc" => \A used : /\ StillReported(CurrentClient, used) => StillReported(CurrentClient, used)'
                               /\ StillReported(CurrentServer, used) => StillReported(CurrentServer, used)'
  <2>1. PICK c : c = CurrentClient
    OBVIOUS
  <2>2. PICK d : d = CurrentServer
    OBVIOUS
  <2>3. CurrentClient' = c /\ CurrentServer' = d
    BY <1>1, <1>2, <1>3, <2>1, <2>2 DEF CurrentClient, CurrentServer, loopVars, GetClient, GetServer,
       proxyRegistryVars, sessionVars
  <2> QED
    BY <1>7, <2>1, <2>2, <2>3 DEF StillReported, Revents
<1>9. RoundIsFresh'
  BY <1>1, <1>2, <1>3, <1>5, <1>6, <1>8 DEF LoopInv, RoundIsFresh, Newcomer, loopVars
<1>10. PhaseOfRound' /\ NoneRemoved'
  BY <1>1, <1>2, <1>3 DEF LoopInv, PhaseOfRound, NoneRemoved, loopVars
<1> QED
  BY <1>1, <1>2, <1>3, <1>4, <1>9, <1>10 DEF LoopInv, loopVars

-----------------------------------------------------------------------------
(* An iteration of try_read.                                               *)

(* What may be said of the sessions still to be visited when the one at i  *)
(* is served or dropped: only its own descriptors are touched.             *)
OthersKept ==
    \A fd \in Fds : fd \notin {CurrentClient.fd, CurrentServer.fd} => ReportKept(fd)

(* A session still to be visited stays as fresh as it was.                 *)
LEMMA OthersStayFresh ==
  ASSUME LoopInv, Visiting, OthersKept,
         NEW p \in UsedPositions, p > i, UNCHANGED <<hasPending, listCount>>,
         list'[p] = list[p],
         \A x \in Live \ {list[i]} :
            /\ GetClient(x)' = GetClient(x)
            /\ GetServer(x)' = GetServer(x) \/ GetServer(x)'.fd = REMOVED_CLIENT
  PROVE  SessionIsFresh(list[p])' \/ Newcomer(p)'
<1> USE FdsAssumption
<1>1. /\ i \in UsedPositions /\ i \in Nat
      /\ list[i] \in Live /\ list[i] # REMOVED_CLIENT
      /\ up /\ pc \in {"ctos", "stoc"}
  BY VisitedIsLive
<1>2. p \notin MarkedPositions /\ p # i
  <2>1. p \in Nat
    BY DEF UsedPositions, LoopInv, ListInv, ListTypeOK
  <2> QED
    BY <1>1, <2>1 DEF LoopInv, PhaseOfRound, MarkedPositions
<1>3. list[p] \in Live
  BY <1>1, <1>2 DEF MarkedPositions, IsRemoved, LoopInv, Members
<1>4. list[p] # list[i]
  BY <1>1, <1>2 DEF LoopInv, ListInv, NoDuplicates, IsRemoved
<1>5. PICK x : x = list[p]
  OBVIOUS
<1>6. PICK id : id = list[i]
  OBVIOUS
<1>7. SessionIsFresh(x) \/ Newcomer(p)
  BY <1>1, <1>5 DEF LoopInv, RoundIsFresh
<1>8. CASE Newcomer(p)
  BY <1>8 DEF Newcomer
<1>9. CASE SessionIsFresh(x)
  <2>1. /\ GetClient(x).fd \in Fds
        /\ GetServer(x).fd \in Fds \cup {REMOVED_CLIENT}
    BY <1>1, <1>3, <1>5, EndsOfSession DEF LoopInv, Entry
  <2>2. /\ GetClient(x).fd # GetClient(id).fd
        /\ GetClient(x).fd # GetServer(id).fd
        /\ GetServer(x).fd # GetClient(id).fd
        /\ GetServer(x).fd = GetServer(id).fd => GetServer(x).fd = REMOVED_CLIENT
    BY <1>1, <1>3, <1>4, <1>5, <1>6, EndsOfSession DEF LoopInv
  <2>3. /\ ReportKept(GetClient(x).fd)
        /\ GetServer(x).fd # REMOVED_CLIENT => ReportKept(GetServer(x).fd)
    BY <1>6, <2>1, <2>2 DEF OthersKept, CurrentClient, CurrentServer
  <2>4. SessionIsFresh(x)'
    BY <1>3, <1>4, <1>5, <1>9, <2>3, FreshKept
  <2>5. list'[p] = x
    BY <1>5
  <2> QED
    BY <2>4, <2>5 DEF SessionIsFresh, GetClient, GetServer
<1> QED
  BY <1>5, <1>7, <1>8, <1>9

LEMMA DropCurrentInv ==
  ASSUME LoopInv, Visiting,
         NEW in \in [Fds -> Conditions], NEW full \in SUBSET Fds,
         DropCurrent(in, full),
         \A fd \in Fds : fd \notin {CurrentClient.fd, CurrentServer.fd} =>
            in[fd] = incoming[fd] /\ (fd \in full => fd \in sendFull),
         processed' \in Nat, processed' <= 2 * i + 2,
         UNCHANGED <<ioable, hasPending, fdCount, backlog>>
  PROVE  LoopInv'
<1> USE MaxClientsAssumption, ProxyAssumption
<1>1. /\ i \in UsedPositions /\ i \in Nat /\ i < listCount
      /\ list[i] \in Live /\ list[i] \in Ids
      /\ up /\ ~committing /\ pc \in {"ctos", "stoc"}
  BY VisitedIsLive
<1>2. PICK id : id = list[i]
  OBVIOUS
<1>3. /\ RemoveSession(id) /\ MarkRemoved(i)
      /\ incoming' = [fd \in Fds |-> IF fd \in {CurrentClient.fd, CurrentServer.fd}
                                       THEN "quiet" ELSE in[fd]]
      /\ sendFull' = full \ {CurrentClient.fd, CurrentServer.fd}
      /\ pc' = "ctos" /\ i' = i + 1
  BY <1>2 DEF DropCurrent, CloseConnections
<1>4. ProxyRegistryInv'
  BY <1>1, <1>2, <1>3, RemoveSessionInv DEF LoopInv
<1>5. /\ Live' = Live \ {id}
      /\ \A x \in Live \ {id} :
           /\ GetClient(x)' = GetClient(x)
           /\ GetServer(x)' = GetServer(x) \/ GetServer(x)'.fd = REMOVED_CLIENT
      /\ up' = up
  BY <1>1, <1>2, <1>3, RemoveSessionOthers DEF LoopInv
<1>6. ListInv' /\ Members' = Members \ {id} /\ MarkedPositions' = MarkedPositions \cup {i}
  BY <1>1, <1>2, <1>3, MarkRemovedInv DEF LoopInv
<1>7. /\ UNCHANGED <<listCount, committing>> /\ UsedPositions' = UsedPositions
      /\ \A p \in UsedPositions : p # i => list'[p] = list[p]
  BY <1>3 DEF MarkRemoved, UsedPositions, LoopInv, ListInv, ListTypeOK
<1>8. listCount \in 0 .. MaxClients
  BY DEF LoopInv, ListInv, ListTypeOK
<1>9. TypeOK'
  <2>1. incoming' \in [Fds -> Conditions]
    BY <1>3 DEF Conditions
  <2>2. sendFull' \in SUBSET Fds
    BY <1>3
  <2>3. i' \in 0 .. MaxClients /\ processed' \in 0 .. 2 * MaxClients + 1
    BY <1>1, <1>3, <1>8
  <2> QED
    BY <1>3, <1>4, <1>6, <2>1, <2>2, <2>3
       DEF LoopInv, TypeOK, ProxyRegistryInv, RegistryInv, ListInv
<1>10. NoneRemoved'
  <2>1. RegistryInv' /\ Connected' => NoneRemoved'
    BY EntriesOfSessions, PTL
  <2>2. \A x \in Live' : GetClient(x)'.fd # REMOVED_CLIENT
    <3>1. \A x \in Live : GetClient(x).fd # REMOVED_CLIENT
      BY <1>1, EndsOfSession, FdsAssumption DEF LoopInv
    <3> QED
      BY <3>1, <1>5
  <2> QED
    BY <2>1, <2>2, <1>4 DEF ProxyRegistryInv, Connected
<1>11. OthersKept
  <2> SUFFICES ASSUME NEW fd \in Fds, fd \notin {CurrentClient.fd, CurrentServer.fd}
               PROVE  ReportKept(fd)
    BY DEF OthersKept
  <2>1. incoming'[fd] = incoming[fd] /\ (fd \in sendFull' => fd \in sendFull)
    BY <1>3
  <2> QED
    BY <2>1 DEF ReportKept
<1>12. RoundIsFresh'
  <2>1. \A p \in UsedPositions : p > i + 1 \/ p = i + 1 =>
          SessionIsFresh(list[p])' \/ Newcomer(p)'
    <3> SUFFICES ASSUME NEW p \in UsedPositions, p > i + 1 \/ p = i + 1
                 PROVE  SessionIsFresh(list[p])' \/ Newcomer(p)'
      OBVIOUS
    <3>1. p > i /\ p # i
      BY <1>1, <1>8 DEF UsedPositions
    <3> QED
      BY <3>1, <1>2, <1>5, <1>7, <1>11, OthersStayFresh
  <2> QED
    BY <2>1, <1>3, <1>7 DEF RoundIsFresh
<1>13. PhaseOfRound'
  <2>1. \A p \in MarkedPositions' : p < i + 1
    BY <1>1, <1>6, <1>8 DEF LoopInv, PhaseOfRound, MarkedPositions, UsedPositions
  <2>2. processed' <= 2 * (i + 1)
    BY <1>1
  <2> QED
    BY <2>1, <2>2, <1>1, <1>3, <1>5, <1>7 DEF PhaseOfRound
<1>14. Members' = Live'
  BY <1>1, <1>5, <1>6 DEF LoopInv
<1> QED
  BY <1>4, <1>6, <1>9, <1>10, <1>12, <1>13, <1>14 DEF LoopInv

LEMMA CurrentSession ==
  ASSUME LoopInv, Visiting
  PROVE  /\ CurrentClient \in Entry /\ CurrentServer \in Entry
         /\ CurrentClient.fd \in Fds /\ CurrentServer.fd # CurrentClient.fd
         /\ ctos[list[i]] \in 0 .. BufferSize /\ stoc[list[i]] \in 0 .. BufferSize
<1>1. up /\ list[i] \in Live
  BY VisitedIsLive
<1>2. PICK id \in Live : id = list[i]
  BY <1>1
<1> QED
  BY <1>1, <1>2, EndsOfSession DEF LoopInv, CurrentClient, CurrentServer

(* A transfer that went well changes one buffer of a session.              *)
LEMMA BufferFilled ==
  ASSUME ProxyRegistryInv, NEW id \in Live, NEW c \in 0 .. BufferSize,
         UNCHANGED <<registryVars, servers, openServers, destination>>,
         \/ ctos' = [ctos EXCEPT ![id] = c] /\ stoc' = stoc
         \/ stoc' = [stoc EXCEPT ![id] = c] /\ ctos' = ctos
  PROVE  /\ ProxyRegistryInv' /\ Live' = Live /\ UsedSlots' = UsedSlots
         /\ \A x : GetClient(x)' = GetClient(x) /\ GetServer(x)' = GetServer(x)
         /\ UNCHANGED <<idTable, clientCount, clients, up>>
<1> USE BufferAssumption
<1>1. /\ RegistryInv' /\ Live' = Live /\ UsedSlots' = UsedSlots
      /\ \A x : GetClient(x)' = GetClient(x)
      /\ UNCHANGED <<idTable, indexToId, clientCount, clients, open, up>>
  BY RegistryUnchanged DEF ProxyRegistryInv
<1>2. \A x : GetServer(x)' = GetServer(x)
  BY <1>1 DEF GetServer
<1>3. id \in Ids /\ c # NO_BUFFER
  BY DEF Live, NO_BUFFER
<1>4. ctos \in [Ids -> 0 .. BufferSize \cup {NO_BUFFER}]
        /\ stoc \in [Ids -> 0 .. BufferSize \cup {NO_BUFFER}]
  BY DEF ProxyRegistryInv, SessionTypeOK
<1>5. SessionTypeOK'
  <2>1. ctos' \in [Ids -> 0 .. BufferSize \cup {NO_BUFFER}]
          /\ stoc' \in [Ids -> 0 .. BufferSize \cup {NO_BUFFER}]
    BY <1>3, <1>4
  <2> QED
    BY <2>1 DEF ProxyRegistryInv, SessionTypeOK
<1>6. BuffersAllocated'
  BY <1>1, <1>3, <1>4 DEF ProxyRegistryInv, BuffersAllocated
<1> QED
  BY <1>1, <1>2, <1>5, <1>6 DEF ProxyRegistryInv, NoCrosstalk, DestinationsDistinct

(* A transfer leaves the report on the other sessions as it is.            *)
LEMMA TransferKeepsOthers ==
  ASSUME TypeOK, CurrentClient \in Entry, CurrentServer \in Entry, NEW r \in Results,
         \/ \E count \in 0 .. BufferSize :
               r \in TransferResults(CurrentClient, count, CurrentServer)
         \/ \E count \in 0 .. BufferSize :
               r \in TransferResults(CurrentServer, count, CurrentClient)
  PROVE  \A fd \in Fds : fd \notin {CurrentClient.fd, CurrentServer.fd} =>
            r.incoming[fd] = incoming[fd] /\ (fd \in r.sendFull => fd \in sendFull)
<1>1. PICK c \in Entry : c = CurrentClient
  OBVIOUS
<1>2. PICK d \in Entry : d = CurrentServer
  OBVIOUS
<1>3. \E sender, receiver \in {c, d}, count \in 0 .. BufferSize :
        r \in TransferResults(sender, count, receiver)
  BY <1>1, <1>2
<1>4. PICK sender \in {c, d}, receiver \in {c, d}, count \in 0 .. BufferSize :
        r \in TransferResults(sender, count, receiver)
  BY <1>3
<1>5. /\ \A fd \in Fds : fd # sender.fd => r.incoming[fd] = incoming[fd]
      /\ \A fd \in Fds : fd \in r.sendFull => fd \in sendFull \/ fd = receiver.fd
  BY <1>4, TransferFacts
<1> QED
  BY <1>1, <1>2, <1>5

(* The client's bytes went up; its server's come next.                     *)
LEMMA UpToServerInv ==
  ASSUME LoopInv, pc = "ctos", ReadLoopGuard,
         NEW r \in TransferResults(CurrentClient, ctos[list[i]], CurrentServer),
         ctos' = [ctos EXCEPT ![list[i]] = r.count],
         Kept(r), pc' = "stoc",
         UNCHANGED <<registryVars, servers, stoc, openServers, destination, listVars, i>>,
         processed' \in Nat, processed' <= 2 * i + 2,
         UNCHANGED <<ioable, hasPending, fdCount, backlog>>
  PROVE  LoopInv'
<1> USE MaxClientsAssumption, ProxyAssumption
<1>1. /\ i \in UsedPositions /\ i \in Nat /\ i < listCount
      /\ list[i] \in Live /\ list[i] \in Ids
      /\ up /\ ~committing /\ Visiting
  BY VisitedIsLive DEF Visiting
<1>2. /\ CurrentClient \in Entry /\ CurrentServer \in Entry
      /\ CurrentClient.fd \in Fds /\ CurrentServer.fd # CurrentClient.fd
      /\ ctos[list[i]] \in 0 .. BufferSize
  BY <1>1, CurrentSession
<1>3. /\ r \in Results
      /\ \A fd \in Fds : fd # CurrentClient.fd => r.incoming[fd] = incoming[fd]
      /\ \A fd \in Fds : r.incoming[fd] = "reset" <=> incoming[fd] = "reset"
      /\ \A fd \in Fds : fd \in r.sendFull => fd \in sendFull \/ fd = CurrentServer.fd
  BY <1>2, TransferFacts DEF LoopInv
<1>4. /\ incoming' = r.incoming /\ sendFull' = r.sendFull
      /\ r.count \in 0 .. BufferSize
      /\ incoming' \in [Fds -> Conditions] /\ sendFull' \in SUBSET Fds
  BY <1>3 DEF Kept, Results
<1>5. PICK id \in Live : id = list[i]
  BY <1>1
<1>6. /\ ProxyRegistryInv' /\ Live' = Live /\ UsedSlots' = UsedSlots
      /\ \A x : GetClient(x)' = GetClient(x) /\ GetServer(x)' = GetServer(x)
      /\ UNCHANGED <<idTable, clientCount, clients, up>>
  BY <1>4, <1>5, BufferFilled DEF LoopInv
<1>7. /\ ListInv' /\ Members' = Members /\ UsedPositions' = UsedPositions
      /\ MarkedPositions' = MarkedPositions
      /\ UNCHANGED <<list, listCount, removedCount, committing>>
  BY ListUnchanged DEF LoopInv
<1>8. listCount \in 0 .. MaxClients
  BY DEF LoopInv, ListInv, ListTypeOK
<1>9. TypeOK'
  <2>1. processed' \in 0 .. 2 * MaxClients + 1
    BY <1>1, <1>8
  <2> QED
    BY <1>4, <1>6, <1>7, <2>1 DEF LoopInv, TypeOK, ProxyRegistryInv, RegistryInv, ListInv
<1>10. OthersKept
  BY <1>3, <1>4 DEF OthersKept, ReportKept
<1>11. \A p \in UsedPositions : p > i => SessionIsFresh(list[p])' \/ Newcomer(p)'
  BY <1>1, <1>6, <1>7, <1>10, OthersStayFresh
<1>12. \/ Newcomer(i)'
       \/ /\ StillReported(CurrentClient, {"POLLIN"})'
          /\ StillReported(CurrentServer, {"POLLOUT"})'
  <2>1. Newcomer(i) \/ SessionIsFresh(id)
    BY <1>1, <1>5 DEF LoopInv, RoundIsFresh
  <2>2. CASE Newcomer(i)
    BY <2>2, <1>7 DEF Newcomer
  <2>3. CASE SessionIsFresh(id)
    <3>1. PICK c \in Entry : c = CurrentClient
      BY <1>2
    <3>2. PICK d \in Entry : d = CurrentServer
      BY <1>2
    <3>3. CurrentClient' = c /\ CurrentServer' = d
      BY <1>5, <1>6, <1>7, <3>1, <3>2 DEF CurrentClient, CurrentServer, GetClient, GetServer
    <3>4. c.fd \in Fds /\ d.fd # c.fd /\ d.fd \in Fds \cup {REMOVED_CLIENT}
      BY <1>2, <3>1, <3>2 DEF Entry
    <3>5. /\ c.revents \subseteq Revents(c.fd)
          /\ d.fd # REMOVED_CLIENT => d.revents \subseteq Revents(d.fd)
      BY <2>3, <1>5, <3>1, <3>2, <3>4, FdsAssumption
         DEF SessionIsFresh, StillReported, CurrentClient, CurrentServer
    <3>6. c.revents \ {"POLLIN"} \subseteq Revents(c.fd)'
      <4>1. /\ incoming'[c.fd] = "reset" <=> incoming[c.fd] = "reset"
            /\ c.fd \in sendFull' => c.fd \in sendFull
        BY <1>3, <1>4, <3>2, <3>4
      <4> QED
        BY <3>5, <4>1 DEF Revents
    <3>7. d.fd # REMOVED_CLIENT => d.revents \ {"POLLOUT"} \subseteq Revents(d.fd)'
      <4>1. d.fd # REMOVED_CLIENT => incoming'[d.fd] = incoming[d.fd]
        BY <1>3, <1>4, <3>1, <3>4
      <4> QED
        BY <3>5, <4>1 DEF Revents
    <3>8. /\ StillReported(CurrentClient, {"POLLIN"})'
          /\ StillReported(CurrentServer, {"POLLOUT"})'
      BY <3>3, <3>6, <3>7 DEF StillReported, Revents
    <3> QED
      BY <3>8
  <2> QED
    BY <2>1, <2>2, <2>3
<1>13. RoundIsFresh'
  <2>1. \A p \in UsedPositions' : p > i' => SessionIsFresh(list[p])' \/ Newcomer(p)'
    BY <1>7, <1>11
  <2>2. pc' = "stoc" /\ i' = i
    OBVIOUS
  <2> QED
    BY <1>12, <2>1, <2>2 DEF RoundIsFresh, Newcomer, StillReported, CurrentClient, CurrentServer
<1>14. PhaseOfRound'
  BY <1>1, <1>6, <1>7 DEF LoopInv, PhaseOfRound
<1> QED
  BY <1>6, <1>7, <1>9, <1>13, <1>14 DEF LoopInv, NoneRemoved

(* The server's bytes came down: on to the next session.                   *)
LEMMA DownToClientInv ==
  ASSUME LoopInv, pc = "stoc",
         NEW r \in TransferResults(CurrentServer, stoc[list[i]], CurrentClient),
         stoc' = [stoc EXCEPT ![list[i]] = r.count],
         Kept(r), pc' = "ctos", i' = i + 1,
         UNCHANGED <<registryVars, servers, ctos, openServers, destination, listVars>>,
         UNCHANGED <<processed, ioable, hasPending, fdCount, backlog>>
  PROVE  LoopInv'
<1> USE MaxClientsAssumption, ProxyAssumption
<1>1. /\ i \in UsedPositions /\ i \in Nat /\ i < listCount
      /\ list[i] \in Live /\ list[i] \in Ids
      /\ up /\ ~committing /\ Visiting
  BY VisitedIsLive DEF Visiting
<1>2. /\ CurrentClient \in Entry /\ CurrentServer \in Entry
      /\ CurrentClient.fd \in Fds /\ CurrentServer.fd # CurrentClient.fd
      /\ stoc[list[i]] \in 0 .. BufferSize
  BY <1>1, CurrentSession
<1>3. /\ r \in Results
      /\ \A fd \in Fds : fd # CurrentServer.fd => r.incoming[fd] = incoming[fd]
      /\ \A fd \in Fds : fd \in r.sendFull => fd \in sendFull \/ fd = CurrentClient.fd
  BY <1>2, TransferFacts DEF LoopInv
<1>4. /\ incoming' = r.incoming /\ sendFull' = r.sendFull
      /\ r.count \in 0 .. BufferSize
      /\ incoming' \in [Fds -> Conditions] /\ sendFull' \in SUBSET Fds
  BY <1>3 DEF Kept, Results
<1>5. PICK id \in Live : id = list[i]
  BY <1>1
<1>6. /\ ProxyRegistryInv' /\ Live' = Live /\ UsedSlots' = UsedSlots
      /\ \A x : GetClient(x)' = GetClient(x) /\ GetServer(x)' = GetServer(x)
      /\ UNCHANGED <<idTable, clientCount, clients, up>>
  BY <1>4, <1>5, BufferFilled DEF LoopInv
<1>7. /\ ListInv' /\ Members' = Members /\ UsedPositions' = UsedPositions
      /\ MarkedPositions' = MarkedPositions
      /\ UNCHANGED <<list, listCount, removedCount, committing>>
  BY ListUnchanged DEF LoopInv
<1>8. listCount \in 0 .. MaxClients
  BY DEF LoopInv, ListInv, ListTypeOK
<1>9. TypeOK'
  <2>1. i' \in 0 .. MaxClients
    BY <1>1, <1>8
  <2> QED
    BY <1>4, <1>6, <1>7, <2>1 DEF LoopInv, TypeOK, ProxyRegistryInv, RegistryInv, ListInv
<1>10. OthersKept
  BY <1>3, <1>4 DEF OthersKept, ReportKept
<1>11. \A p \in UsedPositions : p > i => SessionIsFresh(list[p])' \/ Newcomer(p)'
  BY <1>1, <1>6, <1>7, <1>10, OthersStayFresh
<1>12. RoundIsFresh'
  <2>1. \A p \in UsedPositions' : p > i + 1 \/ p = i + 1 => SessionIsFresh(list[p])' \/ Newcomer(p)'
    <3>1. \A p \in UsedPositions : p > i + 1 \/ p = i + 1 => p > i
      BY <1>1, <1>8 DEF UsedPositions
    <3> QED
      BY <1>7, <1>11, <3>1
  <2> QED
    BY <2>1 DEF RoundIsFresh
<1>13. PhaseOfRound'
  <2>1. \A p \in MarkedPositions : p < i + 1
    BY <1>1, <1>8 DEF LoopInv, PhaseOfRound, MarkedPositions, UsedPositions
  <2>2. processed' <= 2 * (i + 1)
    BY <1>1 DEF LoopInv, PhaseOfRound, TypeOK
  <2> QED
    BY <1>1, <1>6, <1>7, <2>1, <2>2 DEF PhaseOfRound
<1> QED
  BY <1>6, <1>7, <1>9, <1>12, <1>13 DEF LoopInv, NoneRemoved

LEMMA TryReadClientInv ==
  ASSUME LoopInv, TryReadClient
  PROVE  LoopInv'
<1>1. /\ pc = "ctos" /\ ReadLoopGuard /\ Visiting
      /\ UNCHANGED <<ioable, hasPending, fdCount, backlog>>
  BY DEF TryReadClient, Visiting
<1>2. /\ i \in Nat /\ i < listCount /\ listCount \in 0 .. MaxClients
      /\ processed \in Nat /\ processed <= 2 * i
  BY <1>1, VisitedIsLive DEF LoopInv, TypeOK, PhaseOfRound, ListInv, ListTypeOK
<1>3. /\ processed' \in Nat /\ processed' <= 2 * i + 2
      /\ processed' \in 0 .. 2 * MaxClients + 1
  <2>1. processed' = processed + CountIoable(CurrentClient) + CountIoable(CurrentServer)
    BY DEF TryReadClient
  <2>2. PICK n \in 0 .. 1, m \in 0 .. 1 :
          n = CountIoable(CurrentClient) /\ m = CountIoable(CurrentServer)
    BY DEF CountIoable
  <2> QED
    BY <2>1, <2>2, <1>2, MaxClientsAssumption
<1>4. CASE HasErrors
  <2>1. DropCurrent(incoming, sendFull)
    BY <1>4 DEF TryReadClient
  <2> QED
    BY <1>1, <1>3, <2>1, DropCurrentInv DEF LoopInv, TypeOK
<1>5. CASE ~HasErrors
  <2>1. UpToServer
    BY <1>5 DEF TryReadClient
  <2>2. PICK r \in TransferResults(CurrentClient, ctos[list[i]], CurrentServer) :
          \/ /\ r.how = "ok"
             /\ ctos' = [ctos EXCEPT ![list[i]] = r.count]
             /\ Kept(r)
             /\ pc' = "stoc"
             /\ UNCHANGED <<registryVars, servers, stoc, openServers, destination,
                            listVars, i>>
          \/ r.how = "fail" /\ DropCurrent(r.incoming, r.sendFull)
          \/ r.how = "killed" /\ Killed
    BY <2>1 DEF UpToServer
  <2>3. CASE r.how = "fail" /\ DropCurrent(r.incoming, r.sendFull)
    <3>1. /\ CurrentClient \in Entry /\ CurrentServer \in Entry
          /\ ctos[list[i]] \in 0 .. BufferSize
      BY <1>1, CurrentSession
    <3>2. r \in Results
      BY <3>1, TransferFacts DEF LoopInv
    <3>3. /\ r.incoming \in [Fds -> Conditions] /\ r.sendFull \in SUBSET Fds
          /\ \A fd \in Fds : fd \notin {CurrentClient.fd, CurrentServer.fd} =>
               r.incoming[fd] = incoming[fd] /\ (fd \in r.sendFull => fd \in sendFull)
      BY <3>1, <3>2, TransferKeepsOthers DEF LoopInv, Results
    <3> QED
      BY <1>1, <1>3, <2>3, <3>3, DropCurrentInv
  <2> QED
    BY <1>1, <1>3, <2>2, <2>3, UpToServerInv, KilledInv
<1> QED
  BY <1>4, <1>5

LEMMA TryReadServerInv ==
  ASSUME LoopInv, TryReadServer
  PROVE  LoopInv'
<1>1. /\ pc = "stoc" /\ Visiting
      /\ UNCHANGED <<processed, ioable, hasPending, fdCount, backlog>>
  BY DEF TryReadServer, Visiting
<1>2. /\ processed' \in Nat /\ processed' <= 2 * i + 2
      /\ processed' \in 0 .. 2 * MaxClients + 1
  BY <1>1 DEF LoopInv, TypeOK, PhaseOfRound
<1>3. PICK r \in TransferResults(CurrentServer, stoc[list[i]], CurrentClient) :
        \/ /\ r.how = "ok"
           /\ stoc' = [stoc EXCEPT ![list[i]] = r.count]
           /\ Kept(r)
           /\ pc' = "ctos"
           /\ i' = i + 1
           /\ UNCHANGED <<registryVars, servers, ctos, openServers, destination,
                          listVars>>
        \/ r.how = "fail" /\ DropCurrent(r.incoming, r.sendFull)
        \/ r.how = "killed" /\ Killed
  BY DEF TryReadServer
<1>4. CASE r.how = "fail" /\ DropCurrent(r.incoming, r.sendFull)
  <2>1. /\ CurrentClient \in Entry /\ CurrentServer \in Entry
        /\ stoc[list[i]] \in 0 .. BufferSize
    BY <1>1, CurrentSession
  <2>2. r \in Results
    BY <2>1, TransferFacts DEF LoopInv
  <2>3. /\ r.incoming \in [Fds -> Conditions] /\ r.sendFull \in SUBSET Fds
        /\ \A fd \in Fds : fd \notin {CurrentClient.fd, CurrentServer.fd} =>
             r.incoming[fd] = incoming[fd] /\ (fd \in r.sendFull => fd \in sendFull)
    BY <2>1, <2>2, TransferKeepsOthers DEF LoopInv, Results
  <2> QED
    BY <1>1, <1>2, <1>4, <2>3, DropCurrentInv
<1> QED
  BY <1>1, <1>2, <1>3, <1>4, DownToClientInv, KilledInv

LEMMA StutterInv ==
  ASSUME LoopInv, UNCHANGED vars
  PROVE  LoopInv'
<1>1. UNCHANGED proxyRegistryVars /\ UNCHANGED listVars /\ UNCHANGED loopVars
        /\ UNCHANGED kernelVars
  BY DEF vars
<1>2. /\ ProxyRegistryInv' /\ Live' = Live /\ UsedSlots' = UsedSlots
      /\ \A id : GetClient(id)' = GetClient(id) /\ GetServer(id)' = GetServer(id)
      /\ UNCHANGED <<idTable, indexToId, clientCount, clients, open, up,
                     servers, ctos, stoc, openServers, destination>>
  BY <1>1, SessionsUnchanged DEF LoopInv
<1>3. /\ ListInv' /\ Members' = Members /\ UsedPositions' = UsedPositions
      /\ MarkedPositions' = MarkedPositions
      /\ UNCHANGED <<list, listCount, removedCount, committing>>
  BY <1>1, ListUnchanged DEF LoopInv
<1>4. /\ UNCHANGED <<pc, i, processed, ioable, hasPending, fdCount>>
      /\ UNCHANGED <<incoming, sendFull, backlog>>
  BY <1>1 DEF loopVars, kernelVars
<1>5. TypeOK'
  BY <1>2, <1>3, <1>4 DEF LoopInv, TypeOK, ProxyRegistryInv, RegistryInv, ListInv
<1>6. RoundIsFresh'
  BY <1>2, <1>3, <1>4
     DEF LoopInv, RoundIsFresh, SessionIsFresh, StillReported, Newcomer, Revents,
         CurrentClient, CurrentServer, GetClient, GetServer
<1>7. PhaseOfRound' /\ NoneRemoved'
  BY <1>2, <1>3, <1>4 DEF LoopInv, PhaseOfRound, NoneRemoved
<1> QED
  BY <1>2, <1>3, <1>4, <1>5, <1>6, <1>7 DEF LoopInv

-----------------------------------------------------------------------------
LEMMA LoopInvInductive == Spec => []LoopInv
<1>1. Init => LoopInv
  BY InitLoopInv
<1>2. LoopInv /\ [Next]_vars => LoopInv'
  BY PollInv, NothingPendingInv, AcceptSessionInv, RoundCutShortInv, TryReadClientInv,
     TryReadServerInv, TryReadEndInv, CommitLoopInv, CommitDoneInv, InterruptInv,
     EnvironmentInv, StutterInv
     DEF Next, Loop, Exited
<1> QED
  BY <1>1, <1>2, PTL DEF Spec

(* For every capacity, every size of the buffers and whatever the peers do *)
(* between any two steps: list, marks and registry name the same sessions, *)
(* no counter leaves its range, and the loop only acts on what poll said   *)
(* in this round about this very session.                                  *)
THEOREM ProxyIsConsistent == Spec => []ProxyInv
BY LoopInvInductive, LoopInvEquivalent, PTL

(* The loop only makes the calls the registry expects, so its sessions     *)
(* stay separate when the loop drives it.                                  *)
THEOREM ProxyKeepsSessionsSeparate == Spec => []ProxyRegistryInv
BY LoopInvInductive, LoopInvEquivalent, PTL

(* The proxy's only thread never blocks in a read or a write of a session  *)
(* poll has looked at.                                                     *)
THEOREM ProxyNeverBlocks == Spec => []PolledNeverBlock
<1>1. LoopInv => PolledNeverBlock
  <2> SUFFICES ASSUME LoopInv, Blocked, ~AcceptedThisRound PROVE FALSE
    BY DEF PolledNeverBlock
  <2>1. Visiting
    BY DEF Blocked, Visiting
  <2>2. i \in UsedPositions /\ list[i] \in Live
    BY <2>1, VisitedIsLive
  <2>3. /\ CurrentClient \in Entry /\ CurrentServer \in Entry
        /\ ctos[list[i]] \in 0 .. BufferSize /\ stoc[list[i]] \in 0 .. BufferSize
    BY <2>1, CurrentSession
  <2>4. ~Newcomer(i)
    BY DEF AcceptedThisRound, Newcomer
  <2>5. CASE pc = "ctos"
    <3>1. SessionIsFresh(list[i])
      BY <2>2, <2>4, <2>5 DEF LoopInv, RoundIsFresh
    <3>2. /\ StillReported(CurrentClient, {"POLLOUT"})
          /\ StillReported(CurrentServer, {"POLLIN"})
      BY <3>1 DEF SessionIsFresh, StillReported, CurrentClient, CurrentServer
    <3> QED
      BY <2>3, <2>5, <3>2, TransferGoesOn DEF Blocked, LoopInv
  <2>6. CASE pc = "stoc"
    <3>1. /\ StillReported(CurrentServer, {"POLLOUT"})
          /\ StillReported(CurrentClient, {"POLLIN"})
      BY <2>4, <2>6 DEF LoopInv, RoundIsFresh
    <3> QED
      BY <2>3, <2>6, <3>1, TransferGoesOn DEF Blocked, LoopInv
  <2> QED
    BY <2>5, <2>6 DEF Blocked
<1> QED
  BY <1>1, LoopInvInductive, PTL

(* A running proxy ends a session only after one of its two peers ended    *)
(* its connection, or after a removal has taken its destination.           *)
THEOREM ProxyDropsOnlyBroken == Spec => DropsOnlyBroken
<1> DEFINE Only == \A id \in Live : ~(id \in Live') /\ up' =>
                     Broken(GetClient(id).fd, GetServer(id).fd) \/ AcceptedThisRound
<1>1. LoopInv /\ [Next]_vars => [Only]_vars
  <2> SUFFICES ASSUME LoopInv, Next, NEW id \in Live, id \notin Live', up',
                      ~AcceptedThisRound
               PROVE  Broken(GetClient(id).fd, GetServer(id).fd)
    OBVIOUS
  <2>1. TryReadClient \/ TryReadServer
    <3>1. CASE UNCHANGED proxyRegistryVars
      BY <3>1, SessionsUnchanged DEF LoopInv
    <3>2. CASE Poll
      BY <3>2 DEF Poll, PollSessions, PollClients, Live, IsValidId
    <3>3. CASE AcceptSession
      <4>1. PICK clientFd \in Unused, serverFd \in Unused :
              clientFd # serverFd /\ AddSession(clientFd, serverFd)
        BY <3>3 DEF AcceptSession
      <4> QED
        BY <3>3, <4>1, ListAsLongAsRegistry, AddSessionEffect DEF LoopInv, AcceptSession
    <3>4. CASE Interrupt
      BY <3>4 DEF Interrupt, CleanupSessions, SafeCleanup
    <3> QED
      BY <3>1, <3>2, <3>3, <3>4
         DEF Next, Loop, NothingPending, AcceptUndone, AcceptFails, TryReadEnd,
             CommitLoop, CommitDone, Connect, PeerStep, Exited, vars
  <2>2. Visiting /\ (pc = "ctos" <=> TryReadClient) /\ (pc = "stoc" <=> TryReadServer)
    BY <2>1 DEF TryReadClient, TryReadServer, Visiting
  <2>3. i \in UsedPositions /\ list[i] \in Live /\ list[i] \in Ids /\ up
    BY <2>2, VisitedIsLive
  <2>4. /\ CurrentClient \in Entry /\ CurrentServer \in Entry
        /\ ctos[list[i]] \in 0 .. BufferSize /\ stoc[list[i]] \in 0 .. BufferSize
        /\ CurrentClient.fd \in Fds
    BY <2>2, CurrentSession
  <2>5. PICK here : here = list[i]
    OBVIOUS
  <2>6. ASSUME NEW in, NEW full, DropCurrent(in, full)
        PROVE  id = here
    <3>1. RemoveSession(here)
      BY <2>5, <2>6 DEF DropCurrent
    <3>2. Live' = Live \ {here}
      BY <2>3, <2>5, <3>1, RemoveSessionOthers DEF LoopInv
    <3> QED
      BY <3>2
  <2>7. ASSUME UNCHANGED registryVars PROVE FALSE
    BY <2>7, RegistryUnchanged DEF LoopInv, ProxyRegistryInv
  <2>8. ASSUME here = id, CurrentServer.fd # REMOVED_CLIENT =>
                 \/ incoming[CurrentClient.fd] \in {"end", "reset"}
                 \/ incoming[CurrentServer.fd] \in {"end", "reset"}
        PROVE  Broken(GetClient(id).fd, GetServer(id).fd)
    BY <2>5, <2>8 DEF Broken, CurrentClient, CurrentServer
  <2>9. CASE TryReadClient
    <3>1. CASE HasErrors
      <4>1. here = id
        BY <2>6, <2>9, <3>1 DEF TryReadClient
      <4>2. SessionIsFresh(here)
        BY <2>2, <2>3, <2>5, <2>9 DEF LoopInv, RoundIsFresh, AcceptedThisRound, Newcomer
      <4>3. /\ CurrentClient.revents \subseteq Revents(CurrentClient.fd)
            /\ CurrentServer.fd # REMOVED_CLIENT =>
                 CurrentServer.revents \subseteq Revents(CurrentServer.fd)
        BY <2>4, <2>5, <4>2, FdsAssumption
           DEF SessionIsFresh, StillReported, CurrentClient, CurrentServer
      <4>4. CurrentServer.fd # REMOVED_CLIENT =>
              \/ incoming[CurrentClient.fd] = "reset"
              \/ incoming[CurrentServer.fd] = "reset"
        BY <3>1, <4>3 DEF HasErrors, Revents
      <4> QED
        BY <2>8, <4>1, <4>4
    <3>2. CASE ~HasErrors
      <4>1. PICK r \in TransferResults(CurrentClient, ctos[list[i]], CurrentServer) :
              \/ r.how = "ok" /\ UNCHANGED registryVars
              \/ r.how = "fail" /\ DropCurrent(r.incoming, r.sendFull)
              \/ r.how = "killed" /\ Killed
        BY <2>9, <3>2 DEF TryReadClient, UpToServer
      <4>2. r.how = "fail" /\ DropCurrent(r.incoming, r.sendFull)
        BY <2>7, <4>1 DEF Killed
      <4>3. \/ REMOVED_CLIENT \in {CurrentClient.fd, CurrentServer.fd}
            \/ incoming[CurrentClient.fd] \in {"end", "reset"}
            \/ incoming[CurrentServer.fd] = "reset"
        BY <2>4, <4>2, TransferFacts DEF LoopInv
      <4> QED
        BY <2>4, <2>6, <2>8, <4>2, <4>3, FdsAssumption
    <3> QED
      BY <3>1, <3>2
  <2>10. CASE TryReadServer
    <3>1. PICK r \in TransferResults(CurrentServer, stoc[list[i]], CurrentClient) :
            \/ r.how = "ok" /\ UNCHANGED registryVars
            \/ r.how = "fail" /\ DropCurrent(r.incoming, r.sendFull)
            \/ r.how = "killed" /\ Killed
      BY <2>10 DEF TryReadServer
    <3>2. r.how = "fail" /\ DropCurrent(r.incoming, r.sendFull)
      BY <2>7, <3>1 DEF Killed
    <3>3. \/ REMOVED_CLIENT \in {CurrentServer.fd, CurrentClient.fd}
          \/ incoming[CurrentServer.fd] \in {"end", "reset"}
          \/ incoming[CurrentClient.fd] = "reset"
      BY <2>4, <3>2, TransferFacts DEF LoopInv
    <3> QED
      BY <2>4, <2>6, <2>8, <3>2, <3>3, FdsAssumption
  <2> QED
    BY <2>1, <2>9, <2>10
<1> QED
  BY <1>1, LoopInvInductive, PTL DEF Spec, DropsOnlyBroken

(* The running proxy closes a connection to a destination only together    *)
(* with the client it was made for.                                        *)
THEOREM ProxyClosesServersWithClients == Spec => ServerClosedWithClient
<1> DEFINE Together == \A fd \in openServers : fd \notin openServers' /\ up' =>
                          \E client \in open \ open' : destination[client] = fd
<1>1. LoopInv /\ [Next]_vars => [Together]_proxyRegistryVars
  <2> SUFFICES ASSUME LoopInv, Next, NEW fd \in openServers, fd \notin openServers', up'
               PROVE  \E client \in open \ open' : destination[client] = fd
    BY DEF vars
  <2>1. ASSUME UNCHANGED openServers PROVE FALSE
    BY <2>1
  <2>2. TryReadClient \/ TryReadServer
    <3>1. CASE UNCHANGED proxyRegistryVars
      BY <2>1, <3>1 DEF proxyRegistryVars, sessionVars
    <3>2. CASE Poll
      BY <2>1, <3>2 DEF Poll, PollSessions
    <3>3. CASE AcceptSession
      BY <3>3 DEF AcceptSession, AddSession
    <3>4. CASE Interrupt
      BY <3>4 DEF Interrupt, CleanupSessions, SafeCleanup
    <3> QED
      BY <3>1, <3>2, <3>3, <3>4
         DEF Next, Loop, NothingPending, AcceptUndone, AcceptFails, TryReadEnd,
             CommitLoop, CommitDone, Connect, PeerStep, Exited, vars
  <2>3. \E in, full : DropCurrent(in, full)
    BY <2>1, <2>2 DEF TryReadClient, TryReadServer, UpToServer, Killed
  <2>4. list[i] \in Ids /\ up
    BY <2>2, VisitedIsLive DEF TryReadClient, TryReadServer, Visiting
  <2>5. PICK here \in Ids : here = list[i]
    BY <2>4
  <2>6. RemoveSession(here)
    BY <2>3, <2>5 DEF DropCurrent
  <2> QED
    BY <2>4, <2>6, SessionClosesTogether DEF LoopInv
<1> QED
  BY <1>1, LoopInvInductive, PTL DEF Spec, ServerClosedWithClient
====
