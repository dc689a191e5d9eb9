------------------------ MODULE NotificationsProofs ------------------------
(***************************************************************************)
(* Theorems about Notifications for every finite set of tenants and users  *)
(* and any number of connections and notifications at once.                *)
(***************************************************************************)
EXTENDS Notifications, FiniteSetTheorems, TLAPS

\* What the invariant says is given as constant-level predicates, so that the lemmas can be
\* applied to the state before a step and to the one after it: h, l, a and o stand for the
\* values of handler, link, active and owner, and m for a call of send_notification.

Early == {"none", "accepting"}

\* The endpoints and the registry: a connection is registered under the key of its token, and
\* only from the accept on until the endpoint returns.
EndpointsOK(h, l, o) ==
  /\ h \in [Sockets -> Handlers]
  /\ l \in [Sockets -> {"up", "down"}]
  /\ \A s \in Sockets :
       /\ h[s] \in {"welcoming", "receiving"} /\ l[s] = "up" => s \in DOMAIN o
       /\ h[s] \in {"none", "accepting", "ended"} => s \notin DOMAIN o

\* The two maps describe the same relation.
MapsOK(a, o) ==
  /\ DOMAIN o \subseteq Sockets
  /\ DOMAIN a \subseteq Keys
  /\ \A s \in DOMAIN o : o[s] = Identity[s] /\ o[s] \in DOMAIN a /\ s \in a[o[s]]
  /\ \A k \in DOMAIN a : a[k] # {} /\ \A s \in a[k] : s \in DOMAIN o /\ o[s] = k

\* The connections a call has sent to, failed to send to, or still has in hand.
Taken(m) ==
  {s \in Sockets : s \in m.sent \/ s \in m.dead \/ s \in m.copy \/ s = m.socket}

\* A call in flight.  What it took was registered once, so the endpoint has been accepted; what
\* it found dead is dead.  A broadcast has visited the key of everything it took that is still
\* registered.
CallOK(m, h, l, o) ==
  /\ m \in NoticeType
  /\ m.socket # None <=> m.phase \in {"direct", "broadcast"}
  /\ m.socket \notin m.copy \cup m.sent \cup m.dead
  /\ m.copy \cap (m.sent \cup m.dead) = {}
  /\ \A s \in Taken(m) \cup m.asked : h[s] \notin Early
  /\ \A s \in m.dead : l[s] = "down"
  /\ \A s \in Taken(m) : Meant(Identity[s], m)
  /\ m.phase = "broadcast" =>
       ~Direct(m) /\ \A s \in Taken(m) \cap DOMAIN o : o[s] \in m.visited

\* Whoever was registered when the call began and still is has been taken, or is under a key the
\* broadcast has yet to come to, unless the set of keys changed.
Accounted(m, o) ==
  /\ m.phase = "direct" => m.asked \subseteq Taken(m)
  /\ m.phase = "broadcast" /\ ~m.moved =>
       \A s \in m.asked \cap DOMAIN o :
         s \in Taken(m) \/ (o[s] \notin m.visited /\ ForTenant(o[s], m.tenant))
  /\ m.phase = "done" /\ ~m.moved => m.asked \cap DOMAIN o \subseteq m.sent

\* The inductive invariant.  OnlyTheAudience and NobodyMissed speak of calls that were sent or
\* are over; what makes them true is what a call in flight holds.
IInv ==
  /\ EndpointsOK(handler, link, owner)
  /\ MapsOK(active, owner)
  /\ notice \in [Notices -> NoticeType]
  /\ \A n \in Notices :
       CallOK(notice[n], handler, link, owner) /\ Accounted(notice[n], owner)

----------------------------------------------------------------------------
\* The size of the registry is within the bound of its type.
LEMMA SizeBounded ==
  ASSUME NEW D \in SUBSET Keys
  PROVE  Cardinality(D) \in 0..Cardinality(Keys) /\ 0 \in 0..Cardinality(Keys)
<1>1. IsFiniteSet(Keys)
  BY IdentityAssumption, FS_Product DEF Keys
<1>2. Cardinality(D) <= Cardinality(Keys) /\ IsFiniteSet(D)
  BY <1>1, FS_Subset
<1> QED
  BY <1>1, <1>2, FS_CardinalityType

LEMMA NoNoticeOK ==
  ASSUME NEW h, NEW l, NEW o
  PROVE  /\ NoNotice \in NoticeType
         /\ CallOK(NoNotice, h, l, o)
         /\ Accounted(NoNotice, o)
<1>1. NoNotice \in NoticeType
  BY SizeBounded, {} \in SUBSET Keys DEF NoNotice, NoticeType
<1>2. Taken(NoNotice) = {}
  BY IdentityAssumption DEF Taken, NoNotice
<1> QED
  BY <1>1, <1>2 DEF CallOK, Accounted, NoNotice

LEMMA InitIInv == Init => IInv
<1> SUFFICES ASSUME Init PROVE IInv
  OBVIOUS
<1>1. EndpointsOK(handler, link, owner)
  BY DEF Init, EndpointsOK, Handlers
<1>2. MapsOK(active, owner)
  BY DEF Init, MapsOK
<1> QED
  BY <1>1, <1>2, NoNoticeOK DEF Init, IInv

----------------------------------------------------------------------------
\* A call that is not stepped is left alone by whatever else happens: registered connections
\* keep their key or leave, new ones come from endpoints that it cannot have taken.
LEMMA CallKept ==
  ASSUME NEW m, NEW h, NEW l, NEW o, NEW h2, NEW l2, NEW o2,
         CallOK(m, h, l, o), Accounted(m, o),
         \A s \in Sockets : h[s] \notin Early =>
           h2[s] \notin Early /\ (l[s] = "down" => l2[s] = "down"),
         \A s \in DOMAIN o2 : h[s] \notin Early => s \in DOMAIN o /\ o2[s] = o[s]
  PROVE  CallOK(m, h2, l2, o2) /\ Accounted(m, o2)
<1>1. m \in NoticeType
  BY DEF CallOK
<1>2. m.asked \subseteq Sockets /\ m.dead \subseteq Sockets /\ Taken(m) \subseteq Sockets
      /\ m.dead \subseteq Taken(m)
  BY <1>1 DEF NoticeType, Taken
<1>3. CallOK(m, h2, l2, o2)
  BY <1>1, <1>2 DEF CallOK
<1>4. Accounted(m, o2)
  BY <1>1, <1>2 DEF CallOK, Accounted
<1> QED
  BY <1>3, <1>4

\* The same when the keys have changed and the iteration is marked.
LEMMA CallMoved ==
  ASSUME NEW m, NEW h, NEW l, NEW o, NEW D, CallOK(m, h, l, o), m.phase = "broadcast",
         \A s \in DOMAIN o : o[s] \in D
  PROVE  LET w == [m EXCEPT !.moved = TRUE, !.visited = @ \cap D]
         IN  w \in NoticeType /\ CallOK(w, h, l, o) /\ Accounted(w, o)
<1> DEFINE w == [m EXCEPT !.moved = TRUE, !.visited = @ \cap D]
<1>1. m \in NoticeType
  BY DEF CallOK
<1>2. w \in NoticeType
  BY <1>1 DEF NoticeType
<1>3. /\ w.phase = m.phase /\ w.tenant = m.tenant /\ w.target = m.target /\ w.moved
      /\ w.copy = m.copy /\ w.socket = m.socket /\ w.dead = m.dead /\ w.sent = m.sent
      /\ w.asked = m.asked /\ w.visited = m.visited \cap D
  BY <1>1 DEF NoticeType
<1>4. Taken(w) = Taken(m)
  BY <1>3 DEF Taken
<1>5. /\ Direct(w) <=> Direct(m)
      /\ \A key : Meant(key, w) <=> Meant(key, m)
  BY <1>3 DEF Direct, Meant
<1> HIDE DEF w
<1>6. CallOK(w, h, l, o)
  BY <1>2, <1>3, <1>4, <1>5 DEF CallOK
<1>7. Accounted(w, o)
  BY <1>3 DEF Accounted
<1> QED
  BY <1>2, <1>6, <1>7 DEF w

\* Both together, for every call at once: the iterations under way see the registry change.
LEMMA SeenKeeps ==
  ASSUME NEW ns \in [Notices -> NoticeType], NEW a2, NEW h2, NEW l2, NEW o2,
         MapsOK(a2, o2),
         \A n \in Notices : CallOK(ns[n], h2, l2, o2) /\ Accounted(ns[n], o2)
  PROVE  /\ Seen(ns, a2) \in [Notices -> NoticeType]
         /\ \A n \in Notices : CallOK(Seen(ns, a2)[n], h2, l2, o2) /\ Accounted(Seen(ns, a2)[n], o2)
<1>1. ASSUME NEW n \in Notices
      PROVE  /\ Seen(ns, a2)[n] \in NoticeType
             /\ CallOK(Seen(ns, a2)[n], h2, l2, o2) /\ Accounted(Seen(ns, a2)[n], o2)
  <2>1. CASE ns[n].phase = "broadcast" /\ DOMAIN a2 # DOMAIN active
    <3>1. Seen(ns, a2)[n] = [ns[n] EXCEPT !.moved = TRUE, !.visited = @ \cap DOMAIN a2]
      BY <2>1 DEF Seen
    <3>2. \A s \in DOMAIN o2 : o2[s] \in DOMAIN a2
      BY DEF MapsOK
    <3> DEFINE m == ns[n]
               w == [m EXCEPT !.moved = TRUE, !.visited = @ \cap DOMAIN a2]
    <3>3. CallOK(m, h2, l2, o2) /\ m.phase = "broadcast"
      BY <2>1
    <3>4. w \in NoticeType /\ CallOK(w, h2, l2, o2) /\ Accounted(w, o2)
      <4> HIDE DEF m
      <4> QED
        BY ONLY <3>2, <3>3, CallMoved
    <3> QED
      BY <3>1, <3>4
  <2>2. CASE ~(ns[n].phase = "broadcast" /\ DOMAIN a2 # DOMAIN active)
    BY <2>2 DEF Seen
  <2> QED
    BY <2>1, <2>2
<1>2. Seen(ns, a2) = [n \in Notices |-> Seen(ns, a2)[n]]
  BY DEF Seen
<1> QED
  BY <1>1, <1>2

----------------------------------------------------------------------------
\* The maps stay in agreement when sockets leave and when one joins.
LEMMA LeftKeeps ==
  ASSUME MapsOK(active, owner), NEW gone
  PROVE  MapsOK(Left(gone), Restrict(owner, DOMAIN owner \ gone))
<1> DEFINE a2 == Left(gone)
           o2 == Restrict(owner, DOMAIN owner \ gone)
<1>1. /\ DOMAIN o2 = DOMAIN owner \ gone
      /\ \A s \in DOMAIN o2 : o2[s] = owner[s]
  BY DEF Restrict
<1>2. /\ DOMAIN a2 = {k \in DOMAIN active : active[k] \ gone # {}}
      /\ \A k \in DOMAIN a2 : a2[k] = active[k] \ gone
  BY DEF Left, Restrict
<1> HIDE DEF a2, o2
<1>3. \A s \in DOMAIN o2 : o2[s] = Identity[s] /\ o2[s] \in DOMAIN a2 /\ s \in a2[o2[s]]
  BY <1>1, <1>2 DEF MapsOK
<1>4. \A k \in DOMAIN a2 : a2[k] # {} /\ \A s \in a2[k] : s \in DOMAIN o2 /\ o2[s] = k
  BY <1>1, <1>2 DEF MapsOK
<1>5. DOMAIN o2 \subseteq Sockets /\ DOMAIN a2 \subseteq Keys
  BY <1>1, <1>2 DEF MapsOK
<1>6. MapsOK(a2, o2)
  BY <1>3, <1>4, <1>5 DEF MapsOK
<1> QED
  BY <1>6 DEF a2, o2

LEMMA JoinedKeeps ==
  ASSUME MapsOK(active, owner), NEW s \in Sockets, s \notin DOMAIN owner
  PROVE  MapsOK(Joined(s, Identity[s]),
                [x \in DOMAIN owner \cup {s} |-> IF x = s THEN Identity[s] ELSE owner[x]])
<1> DEFINE key == Identity[s]
           a2 == Joined(s, Identity[s])
           o2 == [x \in DOMAIN owner \cup {s} |-> IF x = s THEN Identity[s] ELSE owner[x]]
<1>1. key \in Keys
  BY IdentityAssumption
<1>2. /\ DOMAIN o2 = DOMAIN owner \cup {s}
      /\ o2[s] = key
      /\ \A x \in DOMAIN owner : o2[x] = owner[x]
  OBVIOUS
<1>3. /\ DOMAIN a2 = DOMAIN active \cup {key}
      /\ \A k \in DOMAIN active : k # key => a2[k] = active[k]
      /\ key \in DOMAIN active => a2[key] = active[key] \cup {s}
      /\ key \notin DOMAIN active => a2[key] = {s}
  BY DEF Joined
<1> HIDE DEF a2, o2
<1>4. \A x \in DOMAIN o2 : o2[x] = Identity[x] /\ o2[x] \in DOMAIN a2 /\ x \in a2[o2[x]]
  <2> SUFFICES ASSUME NEW x \in DOMAIN o2
               PROVE  o2[x] = Identity[x] /\ o2[x] \in DOMAIN a2 /\ x \in a2[o2[x]]
    OBVIOUS
  <2>1. CASE x = s
    BY <2>1, <1>2, <1>3
  <2>2. CASE x # s
    <3>1. x \in DOMAIN owner /\ o2[x] = owner[x]
      BY <2>2, <1>2
    <3>2. owner[x] = Identity[x] /\ owner[x] \in DOMAIN active /\ x \in active[owner[x]]
      BY <3>1 DEF MapsOK
    <3> QED
      BY <3>1, <3>2, <1>3
  <2> QED
    BY <2>1, <2>2
<1>5. \A k \in DOMAIN a2 : a2[k] # {} /\ \A x \in a2[k] : x \in DOMAIN o2 /\ o2[x] = k
  <2> SUFFICES ASSUME NEW k \in DOMAIN a2
               PROVE  a2[k] # {} /\ \A x \in a2[k] : x \in DOMAIN o2 /\ o2[x] = k
    OBVIOUS
  <2>1. k \in DOMAIN active => active[k] # {} /\ \A x \in active[k] : x \in DOMAIN owner /\ owner[x] = k
    BY DEF MapsOK
  <2> QED
    BY <2>1, <1>2, <1>3
<1>6. DOMAIN o2 \subseteq Sockets /\ DOMAIN a2 \subseteq Keys
  BY <1>1, <1>2, <1>3 DEF MapsOK
<1>7. MapsOK(a2, o2)
  BY <1>4, <1>5, <1>6 DEF MapsOK
<1> QED
  BY <1>7 DEF a2, o2

----------------------------------------------------------------------------
\* What the invariant says of one call, and of one connection.
LEMMA CallFacts ==
  ASSUME IInv, NEW n \in Notices
  PROVE  /\ notice[n] \in NoticeType
         /\ CallOK(notice[n], handler, link, owner)
         /\ Accounted(notice[n], owner)
BY DEF IInv

\* A step of the endpoint or the client that leaves the registry and the calls alone.
LEMMA QuietStep ==
  ASSUME IInv, UNCHANGED <<active, owner, notice>>,
         EndpointsOK(handler', link', owner'),
         \A s \in Sockets : handler[s] \notin Early =>
           handler'[s] \notin Early /\ (link[s] = "down" => link'[s] = "down")
  PROVE  IInv'
<1>1. MapsOK(active', owner') /\ notice' \in [Notices -> NoticeType]
  BY DEF IInv
<1>2. ASSUME NEW n \in Notices
      PROVE  CallOK(notice'[n], handler', link', owner') /\ Accounted(notice'[n], owner')
  <2>1. CallOK(notice[n], handler, link, owner) /\ Accounted(notice[n], owner)
    BY DEF IInv
  <2>2. \A s \in DOMAIN owner : handler[s] \notin Early => s \in DOMAIN owner /\ owner[s] = owner[s]
    OBVIOUS
  <2>3. CallOK(notice[n], handler', link', owner) /\ Accounted(notice[n], owner)
    BY <2>1, <2>2, CallKept
  <2> QED
    BY <2>3
<1> QED
  BY <1>1, <1>2 DEF IInv

LEMMA OpenStep == ASSUME IInv, NEW s \in Sockets, Open(s) PROVE IInv'
<1>1. EndpointsOK(handler', link', owner')
  BY DEF Open, IInv, EndpointsOK, Handlers
<1>2. \A x \in Sockets : handler[x] \notin Early =>
        handler'[x] \notin Early /\ (link[x] = "down" => link'[x] = "down")
  BY DEF Open, IInv, EndpointsOK, Early
<1> QED
  BY <1>1, <1>2, QuietStep DEF Open

LEMMA ClientLeavesStep == ASSUME IInv, NEW s \in Sockets, ClientLeaves(s) PROVE IInv'
<1>1. EndpointsOK(handler', link', owner')
  BY DEF ClientLeaves, IInv, EndpointsOK, Handlers
<1>2. \A x \in Sockets : handler[x] \notin Early =>
        handler'[x] \notin Early /\ (link[x] = "down" => link'[x] = "down")
  BY DEF ClientLeaves, IInv, EndpointsOK, Early
<1> QED
  BY <1>1, <1>2, QuietStep DEF ClientLeaves

LEMMA AcceptFailsStep == ASSUME IInv, NEW s \in Sockets, AcceptFails(s) PROVE IInv'
<1>1. EndpointsOK(handler', link', owner')
  BY DEF AcceptFails, IInv, EndpointsOK, Handlers
<1>2. \A x \in Sockets : handler[x] \notin Early =>
        handler'[x] \notin Early /\ (link[x] = "down" => link'[x] = "down")
  BY DEF AcceptFails, IInv, EndpointsOK, Early
<1> QED
  BY <1>1, <1>2, QuietStep DEF AcceptFails

LEMMA WelcomeSentStep == ASSUME IInv, NEW s \in Sockets, WelcomeSent(s) PROVE IInv'
<1>1. EndpointsOK(handler', link', owner')
  BY DEF WelcomeSent, IInv, EndpointsOK, Handlers
<1>2. \A x \in Sockets : handler[x] \notin Early =>
        handler'[x] \notin Early /\ (link[x] = "down" => link'[x] = "down")
  BY DEF WelcomeSent, IInv, EndpointsOK, Early
<1> QED
  BY <1>1, <1>2, QuietStep DEF WelcomeSent

\* The registration makes every iteration under way see the new key, if it is new.
LEMMA RegisterStep == ASSUME IInv, NEW s \in Sockets, Register(s) PROVE IInv'
<1>1. s \notin DOMAIN owner /\ handler[s] = "accepting"
  BY DEF Register, IInv, EndpointsOK
<1>2. MapsOK(active', owner')
  BY <1>1, JoinedKeeps DEF Register, IInv
<1>3. DOMAIN owner' = DOMAIN owner \cup {s} /\ \A x \in DOMAIN owner : x # s => owner'[x] = owner[x]
  BY DEF Register
<1>4. EndpointsOK(handler', link', owner')
  BY <1>3 DEF Register, IInv, EndpointsOK, Handlers
<1>5. \A x \in Sockets : handler[x] \notin Early =>
        handler'[x] \notin Early /\ (link[x] = "down" => link'[x] = "down")
  BY DEF Register, IInv, EndpointsOK, Early
<1>6. \A x \in DOMAIN owner' : handler[x] \notin Early => x \in DOMAIN owner /\ owner'[x] = owner[x]
  BY <1>1, <1>3 DEF Early
<1>7. \A n \in Notices :
        CallOK(notice[n], handler', link', owner') /\ Accounted(notice[n], owner')
  BY <1>5, <1>6, CallFacts, CallKept
<1>8. notice' = Seen(notice, active') /\ notice \in [Notices -> NoticeType]
  BY DEF Register, IInv
<1>9. /\ notice' \in [Notices -> NoticeType]
      /\ \A n \in Notices :
           CallOK(notice'[n], handler', link', owner') /\ Accounted(notice'[n], owner')
  BY <1>2, <1>7, <1>8, SeenKeeps
<1> QED
  BY <1>2, <1>4, <1>9 DEF IInv

\* Sockets leave the registry.  ns is notice with the step of the call that found them dead, or
\* notice itself.
LEMMA DisconnectStep ==
  ASSUME IInv, NEW gone \in SUBSET Sockets, NEW ns \in [Notices -> NoticeType],
         Disconnect(gone, ns),
         EndpointsOK(handler', link', owner'),
         \A n \in Notices :
           CallOK(ns[n], handler', link', owner') /\ Accounted(ns[n], owner')
  PROVE  IInv'
<1>1. MapsOK(active', owner')
  BY LeftKeeps DEF Disconnect, IInv
<1>2. notice' = Seen(ns, active')
  BY DEF Disconnect
<1>3. /\ notice' \in [Notices -> NoticeType]
      /\ \A n \in Notices :
           CallOK(notice'[n], handler', link', owner') /\ Accounted(notice'[n], owner')
  BY <1>1, <1>2, SeenKeeps
<1> QED
  BY <1>1, <1>3 DEF IInv

LEMMA OwnersLeft ==
  ASSUME NEW gone, NEW ns, Disconnect(gone, ns)
  PROVE  DOMAIN owner' = DOMAIN owner \ gone /\ \A x \in DOMAIN owner' : owner'[x] = owner[x]
BY DEF Disconnect, Restrict

LEMMA WelcomeFailsStep == ASSUME IInv, NEW s \in Sockets, WelcomeFails(s) PROVE IInv'
<1>1. /\ Disconnect({s}, notice) /\ UNCHANGED link /\ link[s] = "down"
      /\ handler' = [handler EXCEPT ![s] = "receiving"] /\ handler[s] = "welcoming"
  BY DEF WelcomeFails
<1>2. DOMAIN owner' = DOMAIN owner \ {s} /\ \A x \in DOMAIN owner' : owner'[x] = owner[x]
  BY <1>1, OwnersLeft
<1>3. EndpointsOK(handler', link', owner')
  BY <1>1, <1>2 DEF IInv, EndpointsOK, Handlers
<1>4. \A x \in Sockets : handler[x] \notin Early =>
        handler'[x] \notin Early /\ (link[x] = "down" => link'[x] = "down")
  BY <1>1 DEF IInv, EndpointsOK, Early
<1>5. \A n \in Notices :
        CallOK(notice[n], handler', link', owner') /\ Accounted(notice[n], owner')
  BY <1>2, <1>4, CallFacts, CallKept
<1> QED
  BY <1>1, <1>3, <1>5, DisconnectStep DEF IInv

LEMMA EndsStep == ASSUME IInv, NEW s \in Sockets, Ends(s) PROVE IInv'
<1>1. /\ Disconnect({s}, notice) /\ link' = [link EXCEPT ![s] = "down"]
      /\ handler' = [handler EXCEPT ![s] = "ended"] /\ handler[s] = "receiving"
  BY DEF Ends
<1>2. DOMAIN owner' = DOMAIN owner \ {s} /\ \A x \in DOMAIN owner' : owner'[x] = owner[x]
  BY <1>1, OwnersLeft
<1>3. EndpointsOK(handler', link', owner')
  BY <1>1, <1>2 DEF IInv, EndpointsOK, Handlers
<1>4. \A x \in Sockets : handler[x] \notin Early =>
        handler'[x] \notin Early /\ (link[x] = "down" => link'[x] = "down")
  BY <1>1 DEF IInv, EndpointsOK, Early
<1>5. \A n \in Notices :
        CallOK(notice[n], handler', link', owner') /\ Accounted(notice[n], owner')
  BY <1>2, <1>4, CallFacts, CallKept
<1> QED
  BY <1>1, <1>3, <1>5, DisconnectStep DEF IInv

----------------------------------------------------------------------------
\* A call between two sends: no socket is waited for, or the answer of the last is noted.
Kept(m) == {s \in Sockets : s \in m.sent \/ s \in m.dead \/ s \in m.copy}

Between(m, h, l, o) ==
  /\ m \in NoticeType
  /\ m.phase \in {"direct", "broadcast"}
  /\ m.copy \cap (m.sent \cup m.dead) = {}
  /\ \A s \in Kept(m) \cup m.asked : h[s] \notin Early
  /\ \A s \in m.dead : l[s] = "down"
  /\ \A s \in Kept(m) : Meant(Identity[s], m)
  /\ m.phase = "broadcast" =>
       ~Direct(m) /\ \A s \in Kept(m) \cap DOMAIN o : o[s] \in m.visited
  /\ m.phase = "direct" => m.asked \subseteq Kept(m)
  /\ m.phase = "broadcast" /\ ~m.moved =>
       \A s \in m.asked \cap DOMAIN o :
         s \in Kept(m) \/ (o[s] \notin m.visited /\ ForTenant(o[s], m.tenant))

LEMMA AfterSendBetween ==
  ASSUME NEW m, NEW h, NEW l, NEW o, NEW ok \in BOOLEAN,
         CallOK(m, h, l, o), Accounted(m, o), m.socket # None,
         ok \/ l[m.socket] = "down"
  PROVE  Between(AfterSend(m, ok), h, l, o)
<1> DEFINE w == AfterSend(m, ok)
<1>1. m \in NoticeType /\ m.phase \in {"direct", "broadcast"} /\ m.socket \in Sockets
  BY DEF CallOK, NoticeType
<1>2. w \in NoticeType
  BY <1>1 DEF AfterSend, NoticeType
<1>3. /\ w.phase = m.phase /\ w.tenant = m.tenant /\ w.target = m.target /\ w.moved = m.moved
      /\ w.copy = m.copy /\ w.asked = m.asked /\ w.visited = m.visited
      /\ w.sent = (IF ok THEN m.sent \cup {m.socket} ELSE m.sent)
      /\ w.dead = (IF ok THEN m.dead ELSE m.dead \cup {m.socket})
  BY <1>1 DEF AfterSend, NoticeType
<1> HIDE DEF w
<1>4. Kept(w) = Taken(m)
  BY <1>1, <1>3 DEF Kept, Taken
<1>5. /\ Direct(w) <=> Direct(m)
      /\ \A key : Meant(key, w) <=> Meant(key, m)
  BY <1>3 DEF Direct, Meant
<1>6. w.copy \cap (w.sent \cup w.dead) = {}
  BY <1>3 DEF CallOK
<1>7. \A s \in w.dead : l[s] = "down"
  BY <1>3 DEF CallOK
<1>8. Between(w, h, l, o)
  BY <1>1, <1>2, <1>3, <1>4, <1>5, <1>6, <1>7 DEF Between, CallOK, Accounted
<1> QED
  BY <1>8 DEF w

\* The next socket of the copy in hand.
LEMMA NextOfCopy ==
  ASSUME NEW m, NEW h, NEW l, NEW o, Between(m, h, l, o), NEW s \in m.copy
  PROVE  LET w == [m EXCEPT !.copy = @ \ {s}, !.socket = s]
         IN  CallOK(w, h, l, o) /\ Accounted(w, o)
<1> DEFINE w == [m EXCEPT !.copy = @ \ {s}, !.socket = s]
<1>1. m \in NoticeType /\ m.phase \in {"direct", "broadcast"} /\ s \in Sockets /\ s # None
  BY IdentityAssumption DEF Between, NoticeType
<1>2. w \in NoticeType
  BY <1>1 DEF NoticeType
<1>3. /\ w.phase = m.phase /\ w.tenant = m.tenant /\ w.target = m.target /\ w.moved = m.moved
      /\ w.copy = m.copy \ {s} /\ w.asked = m.asked /\ w.visited = m.visited
      /\ w.sent = m.sent /\ w.dead = m.dead /\ w.socket = s
  BY <1>1 DEF NoticeType
<1> HIDE DEF w
<1>4. Taken(w) = Kept(m)
  BY <1>1, <1>3 DEF Kept, Taken
<1>5. /\ Direct(w) <=> Direct(m)
      /\ \A key : Meant(key, w) <=> Meant(key, m)
  BY <1>3 DEF Direct, Meant
<1>6. w.socket \notin w.copy \cup w.sent \cup w.dead /\ w.copy \cap (w.sent \cup w.dead) = {}
  BY <1>3 DEF Between
<1>7. CallOK(w, h, l, o)
  BY <1>1, <1>2, <1>3, <1>4, <1>5, <1>6 DEF Between, CallOK
<1>8. Accounted(w, o)
  BY <1>1, <1>3, <1>4 DEF Between, Accounted
<1> QED
  BY <1>7, <1>8 DEF w

\* A broadcast comes to its next key.  Nothing under the key was taken before, because the keys
\* of what was taken and is still registered have been visited.
LEMMA AtKeyOK ==
  ASSUME NEW m, Between(m, handler, link, owner), EndpointsOK(handler, link, owner),
         MapsOK(active, owner), m.phase = "broadcast", m.copy = {},
         NEW k \in NextKeys(m), NEW s \in active[k]
  PROVE  CallOK(AtKey(m, k, s), handler, link, owner) /\ Accounted(AtKey(m, k, s), owner)
<1> DEFINE w == AtKey(m, k, s)
<1>1. m \in NoticeType /\ k \in DOMAIN active /\ k \in Keys /\ k \notin m.visited /\ ForTenant(k, m.tenant)
  BY DEF Between, NextKeys, MapsOK
<1>2. \A x \in active[k] : x \in Sockets /\ x \in DOMAIN owner /\ owner[x] = k /\ Identity[x] = k
  BY <1>1 DEF MapsOK
<1>3. \A x \in DOMAIN owner : owner[x] = k => x \in active[k]
  BY DEF MapsOK
<1>4. s \in Sockets /\ s # None
  BY <1>2, IdentityAssumption
<1>5. w \in NoticeType
  BY <1>1, <1>2, <1>4 DEF AtKey, NoticeType
<1>6. /\ w.phase = "broadcast" /\ w.tenant = m.tenant /\ w.target = m.target /\ w.moved = m.moved
      /\ w.copy = active[k] \ {s} /\ w.asked = m.asked /\ w.visited = m.visited \cup {k}
      /\ w.sent = m.sent /\ w.dead = m.dead /\ w.socket = s
  BY <1>1 DEF AtKey, NoticeType
<1> HIDE DEF w
<1>7. Taken(w) = Kept(m) \cup active[k]
  BY <1>2, <1>4, <1>6 DEF Kept, Taken
<1>8. active[k] \cap Kept(m) = {}
  BY <1>1, <1>2 DEF Between
<1>9. \A x \in active[k] : x \notin m.sent /\ x \notin m.dead
  BY <1>2, <1>8 DEF Kept
<1>10. \A x \in active[k] : handler[x] \notin Early
  BY <1>2 DEF EndpointsOK, Early
<1>11. /\ Direct(w) <=> Direct(m)
       /\ \A key : Meant(key, w) <=> Meant(key, m)
  BY <1>6 DEF Direct, Meant
<1>12. Meant(k, w)
  BY <1>1, <1>6, <1>11 DEF Between, Meant, ForTenant
<1>13. CallOK(w, handler, link, owner)
  <2>1. w.socket # None <=> w.phase \in {"direct", "broadcast"}
    BY <1>4, <1>6
  <2>2. w.socket \notin w.copy \cup w.sent \cup w.dead /\ w.copy \cap (w.sent \cup w.dead) = {}
    BY <1>6, <1>9
  <2>3. \A x \in Taken(w) \cup w.asked : handler[x] \notin Early
    BY <1>6, <1>7, <1>10 DEF Between
  <2>4. \A x \in w.dead : link[x] = "down"
    BY <1>6 DEF Between
  <2>5. \A x \in Taken(w) : Meant(Identity[x], w)
    BY <1>2, <1>7, <1>11, <1>12 DEF Between
  <2>6. ~Direct(w) /\ \A x \in Taken(w) \cap DOMAIN owner : owner[x] \in w.visited
    BY <1>2, <1>6, <1>7, <1>11 DEF Between
  <2> QED
    BY <1>5, <2>1, <2>2, <2>3, <2>4, <2>5, <2>6 DEF CallOK
<1>14. Accounted(w, owner)
  <2>1. ASSUME ~w.moved, NEW x \in w.asked \cap DOMAIN owner
        PROVE  x \in Taken(w) \/ (owner[x] \notin w.visited /\ ForTenant(owner[x], w.tenant))
    <3>1. x \in Kept(m) \/ (owner[x] \notin m.visited /\ ForTenant(owner[x], m.tenant))
      BY <1>6, <2>1 DEF Between
    <3> QED
      BY <1>3, <1>6, <1>7, <2>1, <3>1
  <2> QED
    BY <1>6, <2>1 DEF Accounted
<1> QED
  BY <1>13, <1>14 DEF w

\* A call that is over.
LEMMA OverOK ==
  ASSUME NEW m \in NoticeType, NEW h, NEW l, NEW o, NEW phase \in {"done", "raised"},
         \A s \in m.sent \cup m.dead \cup m.asked : h[s] \notin Early,
         \A s \in m.dead : l[s] = "down",
         \A s \in m.sent \cup m.dead : Meant(Identity[s], m),
         phase = "done" /\ ~m.moved => m.asked \cap DOMAIN o \subseteq m.sent
  PROVE  CallOK(Over(m, phase), h, l, o) /\ Accounted(Over(m, phase), o)
<1> DEFINE w == Over(m, phase)
<1>1. 0 \in 0..Cardinality(Keys)
  BY SizeBounded, {} \in SUBSET Keys
<1>2. w \in NoticeType
  BY <1>1 DEF Over, NoticeType
<1>3. /\ w.phase = phase /\ w.tenant = m.tenant /\ w.target = m.target /\ w.moved = m.moved
      /\ w.copy = {} /\ w.asked = m.asked /\ w.visited = {}
      /\ w.sent = m.sent /\ w.dead = m.dead /\ w.socket = None
  BY DEF Over, NoticeType
<1> HIDE DEF w
<1>4. Taken(w) = m.sent \cup m.dead
  BY <1>3, IdentityAssumption DEF Taken, NoticeType
<1>5. \A key : Meant(key, w) <=> Meant(key, m)
  BY <1>3 DEF Direct, Meant
<1>6. None \notin m.sent \cup m.dead
  BY IdentityAssumption DEF NoticeType
<1>7. CallOK(w, h, l, o)
  BY <1>2, <1>3, <1>4, <1>5, <1>6 DEF CallOK
<1>8. Accounted(w, o)
  BY <1>3 DEF Accounted
<1> QED
  BY <1>7, <1>8 DEF w

----------------------------------------------------------------------------
\* A step of one call that leaves the registry and the endpoints alone.
LEMMA CallStep ==
  ASSUME IInv, NEW n \in Notices, NEW m,
         notice' = [notice EXCEPT ![n] = m], UNCHANGED <<handler, link, active, owner>>,
         CallOK(m, handler, link, owner), Accounted(m, owner)
  PROVE  IInv'
<1>1. m \in NoticeType
  BY DEF CallOK
<1>2. notice' \in [Notices -> NoticeType]
  BY <1>1 DEF IInv
<1>3. \A x \in Notices :
        CallOK(notice'[x], handler, link, owner) /\ Accounted(notice'[x], owner)
  BY DEF IInv
<1>4. EndpointsOK(handler', link', owner') /\ MapsOK(active', owner')
  BY DEF IInv
<1> QED
  BY <1>2, <1>3, <1>4 DEF IInv

LEMMA AnsweredStep == ASSUME IInv, NEW n \in Notices, Answered(n) PROVE IInv'
BY NoNoticeOK, CallStep DEF Answered

LEMMA StartStep ==
  ASSUME IInv, NEW n \in Notices, NEW tenant \in Tenants \cup {None},
         NEW target \in Users \cup {None}, Start(n, tenant, target)
  PROVE  IInv'
<1> DEFINE m == [NoNotice EXCEPT !.tenant = tenant, !.target = target,
                                 !.size = Cardinality(DOMAIN active)]
           present == {s \in DOMAIN owner : Meant(owner[s], m)}
           asked == [m EXCEPT !.asked = present]
           direct == [asked EXCEPT !.phase = "direct"]
           broadcast == [asked EXCEPT !.phase = "broadcast"]
<1>1. EndpointsOK(handler, link, owner) /\ MapsOK(active, owner)
  BY DEF IInv
<1>2. Cardinality(DOMAIN active) \in 0..Cardinality(Keys)
  BY <1>1, SizeBounded DEF MapsOK
<1>3. m \in NoticeType
  BY <1>2, NoNoticeOK DEF NoticeType, NoNotice
<1>4. /\ m.tenant = tenant /\ m.target = target /\ ~m.moved /\ m.visited = {} /\ m.copy = {}
      /\ m.socket = None /\ m.dead = {} /\ m.sent = {}
  BY DEF NoNotice
<1> HIDE DEF m
<1>5. \A s \in present : s \in Sockets /\ handler[s] \notin Early /\ owner[s] = Identity[s]
  BY <1>1 DEF EndpointsOK, MapsOK, Early
<1>6. asked \in NoticeType /\ direct \in NoticeType /\ broadcast \in NoticeType
  BY <1>3, <1>5 DEF NoticeType
<1>7. ASSUME NEW w \in {asked, direct, broadcast}
      PROVE  /\ w.tenant = m.tenant /\ w.target = m.target /\ w.asked = present /\ ~w.moved
             /\ w.visited = {} /\ w.copy = {} /\ w.dead = {} /\ w.sent = {}
             /\ Direct(w) <=> Direct(m)
             /\ \A key : Meant(key, w) <=> Meant(key, m)
  BY <1>3, <1>4, <1>7 DEF NoticeType, Direct, Meant
<1>8. direct.phase = "direct" /\ broadcast.phase = "broadcast"
  BY <1>3 DEF NoticeType
<1> HIDE DEF asked, direct, broadcast
<1>9. CASE present = {} /\ notice' = [notice EXCEPT ![n] = Over(asked, "done")]
  <2>1. CallOK(Over(asked, "done"), handler, link, owner) /\ Accounted(Over(asked, "done"), owner)
    BY <1>6, <1>7, <1>9, OverOK
  <2> QED
    BY <1>9, <2>1, CallStep DEF Start
<1>10. ASSUME Direct(m), NEW s \in present,
              notice' = [notice EXCEPT ![n] = [direct EXCEPT !.copy = present \ {s}, !.socket = s]]
       PROVE  IInv'
  <2> DEFINE w == [direct EXCEPT !.copy = present \ {s}, !.socket = s]
  <2>1. s \in Sockets /\ s # None
    BY <1>5, IdentityAssumption
  <2>2. w \in NoticeType
    BY <1>5, <1>6, <2>1 DEF NoticeType
  <2>3. /\ w.phase = "direct" /\ w.tenant = m.tenant /\ w.target = m.target
        /\ w.copy = present \ {s} /\ w.asked = present
        /\ w.sent = {} /\ w.dead = {} /\ w.socket = s
    BY <1>6, <1>7, <1>8 DEF NoticeType
  <2> HIDE DEF w, present
  <2>4. Taken(w) = present
    BY <1>5, <2>1, <2>3, <1>10 DEF Taken
  <2>5. \A key : Meant(key, w) <=> Meant(key, m)
    BY <2>3 DEF Direct, Meant
  <2>6. \A x \in present : Meant(Identity[x], w)
    BY <1>5, <2>5 DEF present
  <2>7. CallOK(w, handler, link, owner)
    BY <1>5, <2>1, <2>2, <2>3, <2>4, <2>6 DEF CallOK
  <2>8. Accounted(w, owner)
    BY <2>3, <2>4 DEF Accounted
  <2> QED
    BY <1>10, <2>7, <2>8, CallStep DEF Start, w
<1>11. ASSUME ~Direct(m), NEW k \in NextKeys(broadcast), NEW s \in active[k],
              notice' = [notice EXCEPT ![n] = AtKey(broadcast, k, s)]
       PROVE  IInv'
  <2>1. Kept(broadcast) = {}
    BY <1>7 DEF Kept
  <2>2. \A x \in present : ForTenant(owner[x], broadcast.tenant)
    BY <1>7 DEF Meant, ForTenant
  <2> HIDE DEF present
  <2>3. Between(broadcast, handler, link, owner)
    BY <1>5, <1>6, <1>7, <1>8, <1>11, <2>1, <2>2 DEF Between
  <2>4. /\ CallOK(AtKey(broadcast, k, s), handler, link, owner)
        /\ Accounted(AtKey(broadcast, k, s), owner)
    BY <1>1, <1>7, <1>8, <1>11, <2>3, AtKeyOK
  <2> QED
    BY <1>11, <2>4, CallStep DEF Start
<1> QED
  BY <1>9, <1>10, <1>11 DEF Start, m, asked, direct, broadcast

\* The last of the copy was answered and nothing is left: the dead are disconnected.
LEMMA FinishStep ==
  ASSUME IInv, NEW n \in Notices, NEW m, Between(m, handler, link, owner), m.copy = {},
         m.phase = "direct" \/ NextKeys(m) = {} \/ m.moved,
         Finish(n, m)
  PROVE  IInv'
<1>1. m \in NoticeType /\ m.dead \in SUBSET Sockets
  BY DEF Between, NoticeType
<1>2. /\ Disconnect(m.dead, [notice EXCEPT ![n] = Over(m, "done")])
      /\ UNCHANGED <<handler, link>>
  BY DEF Finish
<1>3. DOMAIN owner' = DOMAIN owner \ m.dead /\ \A x \in DOMAIN owner' : owner'[x] = owner[x]
  BY <1>2, OwnersLeft
<1>4. EndpointsOK(handler', link', owner')
  BY <1>2, <1>3 DEF IInv, EndpointsOK, Between
<1>5. Kept(m) = m.sent \cup m.dead
  BY <1>1 DEF Kept, NoticeType
<1>6. ASSUME ~m.moved PROVE m.asked \cap DOMAIN owner' \subseteq m.sent
  <2>1. CASE m.phase = "direct"
    BY <1>3, <1>5, <2>1 DEF Between
  <2>2. CASE m.phase = "broadcast"
    <3>1. NextKeys(m) = {}
      BY <1>6, <2>2
    <3>2. \A x \in DOMAIN owner : owner[x] \in DOMAIN active
      BY DEF IInv, MapsOK
    <3>3. \A x \in DOMAIN owner : owner[x] \in m.visited \/ ~ForTenant(owner[x], m.tenant)
      BY <3>1, <3>2 DEF NextKeys
    <3> QED
      BY <1>3, <1>5, <1>6, <2>2, <3>3 DEF Between
  <2> QED
    BY <2>1, <2>2 DEF Between
<1>7. CallOK(Over(m, "done"), handler', link', owner') /\ Accounted(Over(m, "done"), owner')
  <2>1. \A x \in m.sent \cup m.dead \cup m.asked : handler'[x] \notin Early
    BY <1>2, <1>5 DEF Between
  <2>2. \A x \in m.dead : link'[x] = "down"
    BY <1>2 DEF Between
  <2>3. \A x \in m.sent \cup m.dead : Meant(Identity[x], m)
    BY <1>5 DEF Between
  <2> QED
    BY <1>1, <1>6, <2>1, <2>2, <2>3, OverOK
<1> DEFINE ns == [notice EXCEPT ![n] = Over(m, "done")]
<1>8. ns \in [Notices -> NoticeType]
  BY <1>7 DEF IInv, CallOK
<1>9. ASSUME NEW x \in Notices, x # n
      PROVE  CallOK(ns[x], handler', link', owner') /\ Accounted(ns[x], owner')
  <2>1. ns[x] = notice[x]
    BY <1>9 DEF IInv
  <2>2. CallOK(notice[x], handler, link, owner) /\ Accounted(notice[x], owner)
    BY CallFacts
  <2>3. \A s \in Sockets : handler[s] \notin Early =>
          handler'[s] \notin Early /\ (link[s] = "down" => link'[s] = "down")
    BY <1>2
  <2>4. \A s \in DOMAIN owner' : handler[s] \notin Early => s \in DOMAIN owner /\ owner'[s] = owner[s]
    BY <1>3
  <2> QED
    BY <2>1, <2>2, <2>3, <2>4, CallKept
<1>10. ns[n] = Over(m, "done")
  BY DEF IInv
<1>11. \A x \in Notices : CallOK(ns[x], handler', link', owner') /\ Accounted(ns[x], owner')
  BY <1>7, <1>9, <1>10
<1> HIDE DEF ns
<1> QED
  BY <1>1, <1>2, <1>4, <1>8, <1>11, DisconnectStep DEF ns

LEMMA SendReturnsStep ==
  ASSUME IInv, NEW n \in Notices, NEW ok \in BOOLEAN, SendReturns(n, ok)
  PROVE  IInv'
<1> DEFINE m == AfterSend(notice[n], ok)
<1>1. Between(m, handler, link, owner)
  BY CallFacts, AfterSendBetween DEF SendReturns
<1>2. EndpointsOK(handler, link, owner) /\ MapsOK(active, owner)
  BY DEF IInv
<1>3. m.phase = notice[n].phase /\ m.moved = notice[n].moved
  BY CallFacts DEF AfterSend, NoticeType
<1> HIDE DEF m
<1>4. ASSUME NEW s \in m.copy, SendTo(n, [m EXCEPT !.copy = @ \ {s}, !.socket = s])
      PROVE  IInv'
  <2> DEFINE w == [m EXCEPT !.copy = @ \ {s}, !.socket = s]
  <2>1. CallOK(w, handler, link, owner) /\ Accounted(w, owner)
    BY <1>1, <1>4, NextOfCopy
  <2>2. notice' = [notice EXCEPT ![n] = w] /\ UNCHANGED <<handler, link, active, owner>>
    BY <1>4 DEF SendTo
  <2> HIDE DEF w
  <2> QED
    BY <2>1, <2>2, CallStep
<1>5. ASSUME m.copy = {}, m.phase = "broadcast", Raise(n, m) PROVE IInv'
  <2>1. Kept(m) = m.sent \cup m.dead
    BY <1>1, <1>5 DEF Kept, Between, NoticeType
  <2>2. CallOK(Over(m, "raised"), handler, link, owner) /\ Accounted(Over(m, "raised"), owner)
    BY <1>1, <2>1, OverOK DEF Between
  <2>3. /\ notice' = [notice EXCEPT ![n] = Over(m, "raised")]
        /\ UNCHANGED <<handler, link, active, owner>>
    BY <1>5 DEF Raise
  <2> QED
    BY <2>2, <2>3, CallStep
<1>6. ASSUME m.copy = {}, m.phase = "broadcast", NEW k \in NextKeys(m), NEW s \in active[k],
             SendTo(n, AtKey(m, k, s))
      PROVE  IInv'
  <2>1. CallOK(AtKey(m, k, s), handler, link, owner) /\ Accounted(AtKey(m, k, s), owner)
    BY <1>1, <1>2, <1>6, AtKeyOK
  <2>2. /\ notice' = [notice EXCEPT ![n] = AtKey(m, k, s)]
        /\ UNCHANGED <<handler, link, active, owner>>
    BY <1>6 DEF SendTo
  <2> QED
    BY <2>1, <2>2, CallStep
<1>7. ASSUME m.copy = {}, m.phase = "direct" \/ NextKeys(m) = {} \/ m.moved, Finish(n, m)
      PROVE  IInv'
  BY <1>1, <1>7, FinishStep
<1> QED
  BY <1>4, <1>5, <1>6, <1>7 DEF SendReturns, m

LEMMA NextIInv == IInv /\ [Next]_vars => IInv'
<1> SUFFICES ASSUME IInv, [Next]_vars PROVE IInv'
  OBVIOUS
<1>1. ASSUME NEW s \in Sockets, HandlerStep(s) PROVE IInv'
  BY <1>1, AcceptFailsStep, RegisterStep, WelcomeSentStep, WelcomeFailsStep DEF HandlerStep
<1>2. ASSUME NEW s \in Sockets, Open(s) \/ ClientLeaves(s) \/ Ends(s) PROVE IInv'
  BY <1>2, OpenStep, ClientLeavesStep, EndsStep
<1>3. ASSUME NEW n \in Notices, Publish(n) PROVE IInv'
  BY <1>3, StartStep DEF Publish
<1>4. ASSUME NEW n \in Notices, Answered(n) \/ \E ok \in BOOLEAN : SendReturns(n, ok)
      PROVE  IInv'
  BY <1>4, AnsweredStep, SendReturnsStep
<1>5. CASE UNCHANGED vars
  BY <1>5 DEF vars, IInv
<1> QED
  BY <1>1, <1>2, <1>3, <1>4, <1>5 DEF Next

LEMMA Inductive == Spec => []IInv
BY InitIInv, NextIInv, PTL DEF Spec

----------------------------------------------------------------------------
\* The connections, the registry and the calls in flight keep their types, and a call never waits
\* for a socket it has sent to (websocket/manager.py).
THEOREM TypeCorrect == Spec => []TypeOK
<1>1. IInv => TypeOK
  <2> SUFFICES ASSUME IInv PROVE TypeOK
    OBVIOUS
  <2>1. handler \in [Sockets -> Handlers] /\ link \in [Sockets -> {"up", "down"}]
    BY DEF IInv, EndpointsOK
  <2>2. /\ DOMAIN active \subseteq Keys /\ DOMAIN owner \subseteq Sockets
        /\ \A k \in DOMAIN active : active[k] \subseteq Sockets
        /\ \A s \in DOMAIN owner : owner[s] \in Keys
    BY DEF IInv, MapsOK
  <2>3. \A n \in Notices :
          /\ notice[n].socket # None <=> notice[n].phase \in {"direct", "broadcast"}
          /\ notice[n].socket \notin notice[n].copy \cup notice[n].sent \cup notice[n].dead
    BY CallFacts DEF CallOK
  <2>4. notice \in [Notices -> NoticeType]
    BY DEF IInv
  <2> QED
    BY <2>1, <2>2, <2>3, <2>4 DEF TypeOK
<1> QED
  BY <1>1, Inductive, PTL

\* However many connections open, leave and are cleaned up by notifications that began earlier,
\* the two maps of ConnectionManager agree with each other and with the endpoints.
THEOREM RegistryFollowsEndpoints == Spec => []RegisteredWhileOpen
<1>1. IInv => RegisteredWhileOpen
  <2> SUFFICES ASSUME IInv PROVE RegisteredWhileOpen
    OBVIOUS
  <2>1. \A k \in DOMAIN active : active[k] # {} /\ active[k] \subseteq DOMAIN owner
    BY DEF IInv, MapsOK
  <2>2. \A s \in DOMAIN owner : {k \in DOMAIN active : s \in active[k]} = {owner[s]}
    BY DEF IInv, MapsOK
  <2>3. \A s \in Sockets :
          /\ handler[s] \in {"welcoming", "receiving"} /\ link[s] = "up" => Registered(s)
          /\ handler[s] \in {"none", "accepting", "ended"} => ~Registered(s)
    BY DEF IInv, EndpointsOK, Registered
  <2> QED
    BY <2>1, <2>2, <2>3 DEF RegisteredWhileOpen, RegistryAgrees
<1> QED
  BY <1>1, Inductive, PTL

\* No broadcast to a tenant and no message to a user reaches a connection of anybody else, for
\* any number of notifications at once (broadcast_to_tenant, send_to_tenant_user).
THEOREM AudienceKept == Spec => []OnlyTheAudience
<1>1. IInv => OnlyTheAudience
  <2> SUFFICES ASSUME IInv, NEW n \in Notices, NEW s \in Sockets, s \in notice[n].sent,
                      Registered(s)
               PROVE  Meant(owner[s], notice[n])
    BY DEF OnlyTheAudience
  <2>1. Meant(Identity[s], notice[n])
    BY CallFacts DEF CallOK, Taken
  <2>2. owner[s] = Identity[s]
    BY DEF IInv, MapsOK, Registered
  <2> QED
    BY <2>1, <2>2
<1> QED
  BY <1>1, Inductive, PTL

\* A notification whose iteration was not disturbed was sent to everybody of its audience who was
\* connected throughout, although others died or were cleaned up while it waited.
THEOREM NobodyIsMissed == Spec => []NobodyMissed
<1>1. IInv => NobodyMissed
  BY CallFacts DEF NobodyMissed, Accounted
<1> QED
  BY <1>1, Inductive, PTL
============================================================================
