--------------------------- MODULE Notifications ---------------------------
(* The registry of WebSocket connections of one server process and the     *)
(* notifications sent through it: websocket/manager.py and                  *)
(* api/websocket.py.                                                        *)
(*                                                                          *)
(* Everything runs on one event loop, so a step is the code between two     *)
(* awaits: the accept, the welcome, a pong, and each single send of a       *)
(* notification.  Any number of handlers and notifications may be waiting   *)
(* at such a point.  A send to a connection whose client is gone may raise  *)
(* or be swallowed by the buffers; a send to an open one succeeds.          *)
(*                                                                          *)
(* A broadcast iterates over the live dictionary.  Python raises when its   *)
(* size has changed since the iteration began; when keys have come and gone *)
(* and the size is the same it may go on, stop early or raise, depending on *)
(* the layout of the table ("moved" below).                                 *)
EXTENDS Naturals, FiniteSets, Functions

CONSTANTS
  Tenants, Users,  \* the identities an access token carries
  Sockets,         \* WebSocket objects; one is used for one connection
  Identity,        \* the tenant and user in the token each is opened with
  Notices,         \* calls of send_notification
  None             \* no tenant or no target user

VARIABLES
  handler,  \* where the endpoint's coroutine of each socket stands
  link,     \* whether the client is still there
  active,   \* active_connections: (tenant, user) -> set of sockets
  owner,    \* connection_users (connection_metadata has the same keys)
  notice    \* the calls of send_notification

vars == <<handler, link, active, owner, notice>>

Keys == Tenants \X Users

ASSUME IdentityAssumption ==
  /\ Identity \in [Sockets -> Keys]
  /\ IsFiniteSet(Tenants) /\ IsFiniteSet(Users)
  /\ None \notin Sockets \cup Tenants \cup Users

Handlers == {"none", "accepting", "welcoming", "receiving", "ended"}
NoNotice ==
  [phase |-> "none", tenant |-> None, target |-> None, moved |-> FALSE,
   size |-> 0, visited |-> {}, copy |-> {}, socket |-> None, dead |-> {},
   sent |-> {}, asked |-> {}]

Init ==
  /\ handler = [s \in Sockets |-> "none"]
  /\ link = [s \in Sockets |-> "down"]
  /\ active = [k \in {} |-> {}]
  /\ owner = [s \in {} |-> <<>>]
  /\ notice = [n \in Notices |-> NoNotice]

Registered(s) == s \in DOMAIN owner

----------------------------------------------------------------------------
\* connect, registration part: the socket joins the set of its key.
Joined(s, key) ==
  [k \in DOMAIN active \cup {key} |->
     IF k # key THEN active[k]
     ELSE (IF key \in DOMAIN active THEN active[key] ELSE {}) \cup {s}]

\* disconnect, for a set of sockets one after the other: each leaves the set
\* of its key, and a key without sockets is deleted.  A socket that is not
\* registered any more is passed over.
LeftMutant(gone) ==
  Restrict(active, {k \in DOMAIN active : active[k] \cap gone = {}})

Left(gone) ==
  LET rest == [k \in DOMAIN active |-> active[k] \ gone]
  IN  Restrict(rest, {k \in DOMAIN active : rest[k] # {}})

\* The iterations under way see the keys that came and went: the entry of a
\* deleted key is gone, and with it the mark that it was visited.
Seen(ns, newActive) ==
  [n \in Notices |->
     IF ns[n].phase = "broadcast" /\ DOMAIN newActive # DOMAIN active
     THEN [ns[n] EXCEPT !.moved = TRUE, !.visited = @ \cap DOMAIN newActive]
     ELSE ns[n]]

Disconnect(gone, ns) ==
  /\ active' = Left(gone)
  /\ owner' = Restrict(owner, DOMAIN owner \ gone)
  /\ notice' = Seen(ns, Left(gone))

----------------------------------------------------------------------------
\* The endpoint, for a client with a valid access token: any other is closed
\* before the manager sees it.
Open(s) ==
  /\ handler[s] = "none"
  /\ handler' = [handler EXCEPT ![s] = "accepting"]
  /\ link' = [link EXCEPT ![s] = "up"]
  /\ UNCHANGED <<active, owner, notice>>

\* The client leaves or its network fails, at any moment.
ClientLeaves(s) ==
  /\ link[s] = "up"
  /\ link' = [link EXCEPT ![s] = "down"]
  /\ UNCHANGED <<handler, active, owner, notice>>

\* The accept raises for a client that has left: nothing was registered.
AcceptFails(s) ==
  /\ handler[s] = "accepting"
  /\ link[s] = "down"
  /\ handler' = [handler EXCEPT ![s] = "ended"]
  /\ UNCHANGED <<link, active, owner, notice>>

\* connect: accepted, registered, and the welcome on its way.
Register(s) ==
  /\ handler[s] = "accepting"
  /\ handler' = [handler EXCEPT ![s] = "welcoming"]
  /\ active' = Joined(s, Identity[s])
  /\ owner' = [x \in DOMAIN owner \cup {s} |-> IF x = s THEN Identity[s] ELSE owner[x]]
  /\ notice' = Seen(notice, Joined(s, Identity[s]))
  /\ UNCHANGED link

WelcomeSent(s) ==
  /\ handler[s] = "welcoming"
  /\ handler' = [handler EXCEPT ![s] = "receiving"]
  /\ UNCHANGED <<link, active, owner, notice>>

\* send_personal_message swallows the exception and disconnects; the endpoint
\* goes on to wait for messages.
WelcomeFails(s) ==
  /\ handler[s] = "welcoming"
  /\ link[s] = "down"
  /\ handler' = [handler EXCEPT ![s] = "receiving"]
  /\ Disconnect({s}, notice)
  /\ UNCHANGED link

\* What ends the endpoint: the client has left (noticed by the receive or by
\* the answer to a ping), or sent JSON that is no object.  The server then
\* closes.  Every other message changes nothing.
EndsMutant(s) ==
  /\ handler[s] = "receiving"
  /\ handler' = [handler EXCEPT ![s] = "ended"]
  /\ link' = [link EXCEPT ![s] = "down"]
  /\ IF link[s] = "down" THEN Disconnect({s}, notice)
                          ELSE UNCHANGED <<active, owner, notice>>

Ends(s) ==
  /\ handler[s] = "receiving"
  /\ handler' = [handler EXCEPT ![s] = "ended"]
  /\ link' = [link EXCEPT ![s] = "down"]
  /\ Disconnect({s}, notice)

----------------------------------------------------------------------------
\* send_notification: to one user of a tenant, to a tenant, or to everybody.
\* A target user counts only together with a tenant.
ForTenantMutant(key, tenant) == TRUE

ForTenant(key, tenant) == tenant # None => key[1] = tenant
Direct(m) == m.tenant # None /\ m.target # None
Meant(key, m) ==
  /\ m.tenant # None => key[1] = m.tenant
  /\ Direct(m) => key[2] = m.target

\* A broadcast comes to a key it is for: it copies the set of its sockets and
\* sends to the first.
AtKey(m, key, s) ==
  [m EXCEPT !.visited = @ \cup {key}, !.copy = active[key] \ {s}, !.socket = s]

NextKeys(m) ==
  {k \in DOMAIN active \ m.visited : ForTenant(k, m.tenant)}

Resized(m) == Cardinality(DOMAIN active) # m.size

\* A call that returns or raises keeps what it did, not where it stood.
Over(m, phase) ==
  [m EXCEPT !.phase = phase, !.socket = None, !.size = 0, !.visited = {}, !.copy = {}]

\* send_to_tenant_user copies the set; a broadcast copies it key by key.
Start(n, tenant, target) ==
  LET m == [NoNotice EXCEPT !.tenant = tenant, !.target = target,
                            !.size = Cardinality(DOMAIN active)]
      present == {s \in DOMAIN owner : Meant(owner[s], m)}
      asked == [m EXCEPT !.asked = present]
      direct == [asked EXCEPT !.phase = "direct"]
      broadcast == [asked EXCEPT !.phase = "broadcast"]
  IN  /\ notice[n].phase = "none"
      /\ \/ /\ present = {}
            /\ notice' = [notice EXCEPT ![n] = Over(asked, "done")]
         \/ /\ Direct(m)
            /\ \E s \in present :
                 notice' = [notice EXCEPT ![n] =
                              [direct EXCEPT !.copy = present \ {s}, !.socket = s]]
         \/ /\ ~Direct(m)
            /\ \E k \in NextKeys(broadcast) : \E s \in active[k] :
                 notice' = [notice EXCEPT ![n] = AtKey(broadcast, k, s)]
      /\ UNCHANGED <<handler, link, active, owner>>

AfterSendMutant(m, ok) ==
  IF ok THEN [m EXCEPT !.sent = @ \cup {m.socket}]
        ELSE [m EXCEPT !.dead = @ \cup {m.socket}, !.copy = {}]

AfterSend(m, ok) ==
  IF ok THEN [m EXCEPT !.sent = @ \cup {m.socket}]
        ELSE [m EXCEPT !.dead = @ \cup {m.socket}]

\* The loops are over: whoever could not be reached is disconnected.
Finish(n, m) ==
  /\ Disconnect(m.dead, [notice EXCEPT ![n] = Over(m, "done")])
  /\ UNCHANGED <<handler, link>>

\* The iteration raises: the caller swallows the exception, and neither the
\* other users are sent to nor those already noted as dead disconnected.
Raise(n, m) ==
  /\ notice' = [notice EXCEPT ![n] = Over(m, "raised")]
  /\ UNCHANGED <<handler, link, active, owner>>

SendTo(n, m) ==
  /\ notice' = [notice EXCEPT ![n] = m]
  /\ UNCHANGED <<handler, link, active, owner>>

SendReturns(n, ok) ==
  LET m == AfterSend(notice[n], ok)
  IN  /\ notice[n].socket # None
      /\ ok \/ link[notice[n].socket] = "down"
      /\ \/ \E s \in m.copy : SendTo(n, [m EXCEPT !.copy = @ \ {s}, !.socket = s])
         \/ m.copy = {} /\ m.phase = "direct" /\ Finish(n, m)
         \/ /\ m.copy = {} /\ m.phase = "broadcast"
            /\ \/ (Resized(m) \/ m.moved) /\ Raise(n, m)
               \/ /\ ~Resized(m)
                  /\ \/ \E k \in NextKeys(m) : \E s \in active[k] :
                          SendTo(n, AtKey(m, k, s))
                     \/ (NextKeys(m) = {} \/ m.moved) /\ Finish(n, m)

----------------------------------------------------------------------------
\* The endpoint that published answers its request, and another may publish.
Answered(n) ==
  /\ notice[n].phase \in {"done", "raised"}
  /\ notice' = [notice EXCEPT ![n] = NoNotice]
  /\ UNCHANGED <<handler, link, active, owner>>

Publish(n) ==
  \E tenant \in Tenants \cup {None}, target \in Users \cup {None} :
    Start(n, tenant, target)

HandlerStep(s) ==
  \/ AcceptFails(s) \/ Register(s) \/ WelcomeSent(s) \/ WelcomeFails(s)

Next ==
  \/ \E s \in Sockets :
       Open(s) \/ ClientLeaves(s) \/ HandlerStep(s) \/ Ends(s)
  \/ \E n \in Notices : Publish(n) \/ Answered(n) \/ \E ok \in BOOLEAN : SendReturns(n, ok)

\* An await returns: what it waits for completes or fails, and the loop
\* resumes the coroutine.  That includes the receive of a client that has
\* left, which the server's own protocol pings notice.  Nobody need connect,
\* leave, ping or publish.
Fairness ==
  /\ \A s \in Sockets : WF_vars(HandlerStep(s) \/ (link[s] = "down" /\ Ends(s)))
  /\ \A n \in Notices : WF_vars(\E ok \in BOOLEAN : SendReturns(n, ok))

Spec == Init /\ [][Next]_vars /\ Fairness

----------------------------------------------------------------------------
NoticeType ==
  [phase : {"none", "direct", "broadcast", "done", "raised"},
   tenant : Tenants \cup {None}, target : Users \cup {None}, moved : BOOLEAN,
   size : 0..Cardinality(Keys), visited : SUBSET Keys, copy : SUBSET Sockets,
   socket : Sockets \cup {None}, dead : SUBSET Sockets, sent : SUBSET Sockets,
   asked : SUBSET Sockets]

\* The variables have their types: at any moment the registry maps some of
\* the keys to sets of sockets and some of the sockets to a key, and a call that
\* waits waits for one socket, which it has not sent to and will not again.
TypeOK ==
  /\ handler \in [Sockets -> Handlers]
  /\ link \in [Sockets -> {"up", "down"}]
  /\ DOMAIN active \subseteq Keys
  /\ \A k \in DOMAIN active : active[k] \subseteq Sockets
  /\ DOMAIN owner \subseteq Sockets
  /\ \A s \in DOMAIN owner : owner[s] \in Keys
  /\ notice \in [Notices -> NoticeType]
  /\ \A n \in Notices :
       /\ notice[n].socket # None <=> notice[n].phase \in {"direct", "broadcast"}
       /\ notice[n].socket \notin notice[n].copy \cup notice[n].sent \cup notice[n].dead

\* The two maps of the manager agree after every step: a socket is in the set
\* of the key it belongs to and in no other, and no key is left with an empty
\* set.
RegistryAgrees ==
  /\ \A k \in DOMAIN active : active[k] # {} /\ active[k] \subseteq DOMAIN owner
  /\ \A s \in DOMAIN owner :
       {k \in DOMAIN active : s \in active[k]} = {owner[s]}

\* Whoever disconnects a socket and however often, both maps agree and follow
\* the endpoints: an open connection that was accepted is registered until it
\* ends, whatever the clean-ups of notifications that began earlier do, and one
\* whose endpoint has returned is not.
RegisteredWhileOpen ==
  /\ RegistryAgrees
  /\ \A s \in Sockets :
       /\ handler[s] \in {"welcoming", "receiving"} /\ link[s] = "up"
            => Registered(s)
       /\ handler[s] \in {"none", "accepting", "ended"} => ~Registered(s)

\* What is addressed to a tenant, or to a user of a tenant, reaches no
\* connection of another one, whatever connects during the broadcast.
OnlyTheAudience ==
  \A n \in Notices, s \in Sockets :
    s \in notice[n].sent /\ Registered(s) => Meant(owner[s], notice[n])

\* A notification that came to its end without the set of connected users
\* changing under it was sent to every connection of its audience that was
\* registered when it began and still is, whoever failed before it in the loop.
NobodyMissed ==
  \A n \in Notices :
    notice[n].phase = "done" /\ ~notice[n].moved
      => notice[n].asked \cap DOMAIN owner \subseteq notice[n].sent

\* A connection whose client has left does not stay registered, although
\* nothing pings it and the broadcast that noticed may have raised.
LostIsForgotten ==
  \A s \in Sockets : (Registered(s) /\ link[s] = "down") ~> ~Registered(s)
=============================================================================
