------------------------ MODULE ConnectionsProofs ------------------------
(***************************************************************************)
(* The connections for any number of devices and connections: who is in    *)
(* the registry, who put it there, and how a handshake ends.               *)
(***************************************************************************)
EXTENDS Connections, SwarmProofs, SequenceTheorems

------------------------------------------------------------------------
(* Messages and keys.                                                      *)

LEMMA MessageFields ==
  ASSUME NEW m \in Messages
  PROVE  /\ m.kind = "NodeAnnounce" => m.node \in Nodes /\ m.score \in FirstScores
         /\ m.kind = "StatusUpdate" => m.score \in Composites
<1>1. CASE \E n \in Nodes, x \in FirstScores : m = NodeAnnounce(n, x)
  BY <1>1 DEF NodeAnnounce
<1>2. CASE \E x \in Composites : m = StatusMessage(x)
  BY <1>2 DEF StatusMessage
<1>3. CASE \E k \in {"Heartbeat", "DrainRequest", "RebalanceAck"} : m = [kind |-> k]
  BY <1>3
<1>4. CASE \E c \in Conns, n \in Nodes : m = AuthResponse(c, n)
  BY <1>4 DEF AuthResponse
<1> QED
  BY <1>1, <1>2, <1>3, <1>4 DEF Messages, AppMessages

\* The two sides derive the same key.
LEMMA SameSession ==
  ASSUME NEW c \in Conns
  PROVE  ClientSession(c) = ServerSession(c)
BY DEF ClientSession, ServerSession, SessionKey

\* A token is accepted from exactly the clients that have the secret.
LEMMA TokenProvesSecret ==
  ASSUME NEW c \in Conns, NEW n
  PROVE  /\ AuthResponse(c, n).kind = "AuthResponse"
         /\ AuthResponse(c, n).node = n
         /\ AuthResponse(c, n).public = PublicKey(ClientSecret(c))
         /\ VerifyHmac(NonceOf(c), SharedSecret, AuthResponse(c, n).token)
              <=> c \notin Misconfigured
<1>1. /\ AuthResponse(c, n).kind = "AuthResponse"
      /\ AuthResponse(c, n).node = n
      /\ AuthResponse(c, n).public = PublicKey(ClientSecret(c))
      /\ AuthResponse(c, n).token = SignHmac(NonceOf(c), SecretOf(c))
  BY DEF AuthResponse
<1>2. SignHmac(NonceOf(c), SecretOf(c)) = SignHmac(NonceOf(c), SharedSecret)
        <=> SecretOf(c) = SharedSecret
  BY DEF SignHmac
<1>3. SecretOf(c) = SharedSecret <=> c \notin Misconfigured
  BY DEF SecretOf, SharedSecret
<1> QED
  BY <1>1, <1>2, <1>3 DEF VerifyHmac

\* The answer to an announce opens for the client of the same connection.
LEMMA AnswerOpens ==
  ASSUME NEW c \in Conns
  PROVE  /\ JoinResponse(ServerSession(c)).kind = "JoinResponse"
         /\ CanDecrypt(JoinResponse(ServerSession(c)).sealed, ClientSession(c), HandshakeAad)
         /\ Decrypted(JoinResponse(ServerSession(c)).sealed) = ClusterKey
<1>1. JoinResponse(ServerSession(c)).sealed
        = Encrypt(ClusterKey, ServerSession(c), HandshakeAad)
  BY DEF JoinResponse
<1>2. JoinResponse(ServerSession(c)).kind = "JoinResponse"
  BY DEF JoinResponse
<1>3. /\ Encrypt(ClusterKey, ServerSession(c), HandshakeAad).data = ClusterKey
      /\ Encrypt(ClusterKey, ServerSession(c), HandshakeAad).key = ServerSession(c)
      /\ Encrypt(ClusterKey, ServerSession(c), HandshakeAad).aad = HandshakeAad
  BY DEF Encrypt
<1> QED
  BY <1>1, <1>2, <1>3, SameSession DEF CanDecrypt, Decrypted

------------------------------------------------------------------------
(* What a handler of the registry does to the set of the registered nodes. *)

LEMMA RebalanceKeepsRegistered ==
  ASSUME NEW st, NEW comp, NEW lay, Rebalance(st, comp, lay)
  PROVE  Registered' = {n \in Nodes : st[n] # Unregistered}
<1>1. \A n \in Nodes : state'[n] = Unregistered <=> st[n] = Unregistered
  BY DEF Rebalance, TransitionOrStay, CanTransition, LegalTransitions, Unregistered
<1> QED
  BY <1>1 DEF Registered

LEMMA AnnounceRegisters ==
  ASSUME state = [x \in Nodes |-> state[x]], NEW n \in Nodes, NEW x, Announce(n, x)
  PROVE  Registered' = Registered \cup {n}
<1> DEFINE joining == [state EXCEPT ![n] = "Joining"]
           ready   == [joining EXCEPT ![n] = TransitionOrStay(@, "Ready")]
<1>1. ready = [state EXCEPT ![n] = "Ready"]
  BY DEF TransitionOrStay, CanTransition, LegalTransitions
<1>2. Rebalance(ready, composite', [assigned EXCEPT ![n] = {}])
  BY DEF Announce
<1> HIDE DEF ready
<1>3. Registered' = {m \in Nodes : ready[m] # Unregistered}
  BY <1>2, RebalanceKeepsRegistered
<1>4. \A m \in Nodes : ready[m] # Unregistered <=> m = n \/ state[m] # Unregistered
  BY <1>1 DEF Unregistered
<1> QED
  BY <1>3, <1>4 DEF Registered

LEMMA StatusKeepsRegistered ==
  ASSUME state = [x \in Nodes |-> state[x]], NEW n \in Nodes, NEW x, StatusUpdate(n, x)
  PROVE  Registered' = Registered
<1> DEFINE updated == [state EXCEPT ![n] = StateAfterStatus(@, x)]
<1>1. \A m \in Nodes : updated[m] = Unregistered <=> state[m] = Unregistered
  BY DEF StateAfterStatus, TransitionOrStay, CanTransition, LegalTransitions, Unregistered
<1>2. \/ Rebalance(updated, composite', assigned)
      \/ state' = updated
  BY DEF StatusUpdate
<1> HIDE DEF updated
<1>3. CASE Rebalance(updated, composite', assigned)
  BY <1>1, <1>3, RebalanceKeepsRegistered DEF Registered
<1>4. CASE state' = updated
  BY <1>1, <1>4 DEF Registered
<1> QED
  BY <1>2, <1>3, <1>4

LEMMA DrainRemoves ==
  ASSUME NEW n, Drain(n)
  PROVE  Registered' = Registered \ {n}
<1> DEFINE left == [m \in Nodes |-> IF m \in {n} THEN Unregistered ELSE state[m]]
           kept == [m \in Nodes |-> IF m \in {n} THEN {} ELSE assigned[m]]
<1>1. \A m \in Nodes : left[m] # Unregistered <=> m # n /\ state[m] # Unregistered
  OBVIOUS
<1>2. Rebalance(left, composite', kept) \/ state' = left
  BY DEF Drain, RemoveAndRebalance
<1> HIDE DEF left, kept
<1>3. CASE Rebalance(left, composite', kept)
  BY <1>1, <1>3, RebalanceKeepsRegistered DEF Registered
<1>4. CASE state' = left
  BY <1>1, <1>4 DEF Registered
<1> QED
  BY <1>2, <1>3, <1>4

------------------------------------------------------------------------
(* The invariant of a connection: what each end knows of the other.        *)

\* The ways the handshake of a client that waits for the answer stands: the
\* response and the announce are under way; the response is accepted; the
\* announce is answered; the response is refused.
Joining(c) ==
  \/ /\ server[c] = "challenged" /\ down[c] = <<>>
     /\ \E x \in FirstScores :
          up[c] = <<AuthResponse(c, device[c]), NodeAnnounce(device[c], x)>>
  \/ /\ server[c] = "serving" /\ down[c] = <<>>
     /\ \E x \in FirstScores : up[c] = <<NodeAnnounce(device[c], x)>>
  \/ /\ server[c] = "serving" /\ up[c] = <<>>
     /\ down[c] = <<JoinResponse(ServerSession(c))>>
  \/ server[c] = "closed" /\ c \in Misconfigured /\ down[c] = <<>>

\* What the client's place implies.
ClientSide(c) ==
  /\ client[c] = "idle" => server[c] = "idle" /\ up[c] = <<>>
  /\ client[c] = "connecting" => /\ server[c] = "challenged" /\ up[c] = <<>>
                                 /\ down[c] = <<AuthChallenge(c)>>
  /\ client[c] = "joining" => clientKey[c] = ClientSession(c) /\ Joining(c)
  /\ client[c] = "joined" => /\ c \notin Misconfigured /\ clusterKey[c] = ClusterKey
                            /\ nodeId[c] = device[c]
                            /\ server[c] \in {"serving", "dropped"}
  /\ client[c] = "failed" => c \in Misconfigured

\* What the server's place implies: it waits for nothing but the response of
\* this device, and serves nobody else.
ServerSide(c) ==
  /\ server[c] \in {"idle", "challenged"} => ~ announced[c]
  /\ server[c] = "challenged" => /\ device[c] \in Nodes
                                 /\ up[c] # <<>> => Head(up[c]) = AuthResponse(c, device[c])
  /\ server[c] = "serving" => /\ c \notin Misconfigured
                              /\ device[c] \in Nodes /\ nodeId[c] = device[c]
                              /\ serverKey[c] = ServerSession(c)

LinkType(c) ==
  /\ device[c] \in Nodes \cup {None} /\ nodeId[c] \in Nodes \cup {None}
  /\ client[c] \in {"idle", "connecting", "joining", "joined", "failed", "gone"}
  /\ server[c] \in {"idle", "challenged", "serving", "closed", "dropped"}
  /\ clientKey[c] \in {None, ClientSession(c)}
  /\ serverKey[c] \in {None, ServerSession(c)}
  /\ clusterKey[c] \in {None, ClusterKey}
  /\ up[c] \in Seq(Messages) /\ down[c] \in Seq(Answers(c))
  /\ announced[c] \in BOOLEAN /\ rival[c] \in BOOLEAN

\* Every variable of the connections is a function of them.
Shape ==
  /\ device = [c \in Conns |-> device[c]]
  /\ client = [c \in Conns |-> client[c]]
  /\ clientKey = [c \in Conns |-> clientKey[c]]
  /\ clusterKey = [c \in Conns |-> clusterKey[c]]
  /\ server = [c \in Conns |-> server[c]]
  /\ nodeId = [c \in Conns |-> nodeId[c]]
  /\ serverKey = [c \in Conns |-> serverKey[c]]
  /\ up = [c \in Conns |-> up[c]]
  /\ down = [c \in Conns |-> down[c]]
  /\ announced = [c \in Conns |-> announced[c]]
  /\ rival = [c \in Conns |-> rival[c]]
  /\ sent \in 0 .. MaxSends

Link(c) == LinkType(c) /\ ClientSide(c) /\ ServerSide(c)

LinkInv == Shape /\ \A c \in Conns : Link(c)

\* A step on one connection leaves the others alone, but that they may learn
\* of a rival.
Elsewhere(c) ==
  \A d \in Conns \ {c} :
    /\ device'[d] = device[d] /\ client'[d] = client[d]
    /\ clientKey'[d] = clientKey[d] /\ clusterKey'[d] = clusterKey[d]
    /\ server'[d] = server[d] /\ nodeId'[d] = nodeId[d]
    /\ serverKey'[d] = serverKey[d]
    /\ up'[d] = up[d] /\ down'[d] = down[d]
    /\ announced'[d] = announced[d]
    /\ rival'[d] \in BOOLEAN

LEMMA LinkElsewhere ==
  ASSUME NEW c \in Conns, Elsewhere(c), NEW d \in Conns \ {c}, Link(d)
  PROVE  Link(d)'
<1>1. LinkType(d)'
  BY Zenon DEF Elsewhere, Link, LinkType
<1>2. ClientSide(d)'
  BY Zenon DEF Elsewhere, Link, ClientSide, Joining
<1>3. ServerSide(d)'
  BY Zenon DEF Elsewhere, Link, ServerSide
<1> QED
  BY <1>1, <1>2, <1>3 DEF Link

LEMMA LinkInvFrom ==
  ASSUME LinkInv, NEW c \in Conns, Elsewhere(c), Shape', Link(c)'
  PROVE  LinkInv'
BY LinkElsewhere DEF LinkInv

LEMMA ShortSeqs ==
  ASSUME NEW S, NEW a \in S, NEW b \in S
  PROVE  /\ <<a>> \in Seq(S) /\ <<a, b>> \in Seq(S) /\ <<>> \in Seq(S)
         /\ <<a>> # <<>> /\ <<a, b>> # <<>>
         /\ Head(<<a>>) = a /\ Head(<<a, b>>) = a
         /\ Tail(<<a>>) = <<>> /\ Tail(<<a, b>>) = <<b>>
         /\ <<>> \o <<a, b>> = <<a, b>> /\ Append(<<>>, a) = <<a>>
OBVIOUS

LEMMA SeqParts ==
  ASSUME NEW S, NEW q \in Seq(S)
  PROVE  /\ q # <<>> => Head(q) \in S /\ Tail(q) \in Seq(S)
         /\ \A a \in S : Append(q, a) \in Seq(S) /\ Append(q, a) # <<>>
         /\ \A a \in S : Head(Append(q, a)) = IF q = <<>> THEN a ELSE Head(q)
         /\ \A k \in 0 .. Len(q) : /\ SubSeq(q, 1, k) \in Seq(S)
                                   /\ SubSeq(q, 1, k) # <<>> => Head(SubSeq(q, 1, k)) = Head(q)
<1>1. q # <<>> => Head(q) \in S /\ Tail(q) \in Seq(S)
  OBVIOUS
<1>2. ASSUME NEW a \in S
      PROVE  /\ Append(q, a) \in Seq(S) /\ Append(q, a) # <<>>
             /\ Head(Append(q, a)) = IF q = <<>> THEN a ELSE Head(q)
  <2>1. Append(q, a) \in Seq(S) /\ Len(Append(q, a)) = Len(q) + 1 /\ Len(q) \in Nat
    OBVIOUS
  <2>2. Append(q, a) # <<>>
    BY <2>1
  <2>3. CASE q = <<>>
    BY <2>3
  <2>4. CASE q # <<>>
    BY <2>4, AppendProperties
  <2> QED
    BY <2>1, <2>2, <2>3, <2>4
<1>3. ASSUME NEW k \in 0 .. Len(q)
      PROVE  /\ SubSeq(q, 1, k) \in Seq(S)
             /\ SubSeq(q, 1, k) # <<>> => Head(SubSeq(q, 1, k)) = Head(q)
  <2>1. SubSeq(q, 1, k) \in Seq(S) /\ Len(SubSeq(q, 1, k)) = k
    OBVIOUS
  <2>2. CASE k = 0
    BY <2>1, <2>2
  <2>3. CASE k > 0
    <3>1. SubSeq(q, 1, k)[1] = q[1]
      BY <2>3
    <3> QED
      BY <2>1, <2>3, <3>1
  <2> QED
    BY <2>2, <2>3
<1> QED
  BY <1>1, <1>2, <1>3

LEMMA MessagesIn ==
  ASSUME NEW c \in Conns, NEW n \in Nodes, NEW x \in FirstScores
  PROVE  AuthResponse(c, n) \in Messages /\ NodeAnnounce(n, x) \in Messages
BY DEF Messages, AppMessages

LEMMA AnswersIn ==
  ASSUME NEW c \in Conns
  PROVE  /\ AuthChallenge(c) \in Answers(c)
         /\ JoinResponse(ServerSession(c)) \in Answers(c)
         /\ [kind |-> "RebalanceCommand"] \in Answers(c)
BY DEF Answers

------------------------------------------------------------------------
(* The steps of the client.                                                *)

LEMMA ConnectKeeps ==
  ASSUME LinkInv, NEW c \in Conns, NEW n \in Nodes, Connect(c, n)
  PROVE  LinkInv' /\ Elsewhere(c)
<1>1. Link(c) /\ Shape
  BY DEF LinkInv
<1>2. /\ device'[c] = n /\ client'[c] = "connecting" /\ server'[c] = "challenged"
      /\ down'[c] = <<AuthChallenge(c)>> /\ up'[c] = up[c]
      /\ clientKey'[c] = clientKey[c] /\ clusterKey'[c] = clusterKey[c]
      /\ nodeId'[c] = nodeId[c] /\ serverKey'[c] = serverKey[c]
      /\ announced'[c] = announced[c] /\ rival'[c] = rival[c]
      /\ client[c] = "idle"
  BY <1>1 DEF Connect, Shape
<1>3. Shape'
  BY <1>1 DEF Connect, Shape
<1>4. Elsewhere(c)
  BY <1>1 DEF Connect, Shape, Elsewhere, LinkInv, Link, LinkType
<1>5. LinkType(c)'
  BY <1>1, <1>2, AnswersIn, ShortSeqs DEF Link, LinkType
<1>6. ClientSide(c)' /\ ServerSide(c)'
  BY <1>1, <1>2 DEF Link, LinkType, ClientSide, ServerSide
<1> QED
  BY <1>3, <1>4, <1>5, <1>6, LinkInvFrom DEF Link

LEMMA RespondKeeps ==
  ASSUME LinkInv, NEW c \in Conns, NEW x \in FirstScores, Respond(c, x)
  PROVE  LinkInv' /\ Elsewhere(c)
<1>1. Link(c) /\ Shape
  BY DEF LinkInv
<1> DEFINE auth == AuthResponse(c, device[c])
           news == NodeAnnounce(device[c], x)
<1>2. /\ client[c] = "connecting" /\ server[c] = "challenged" /\ up[c] = <<>>
      /\ down[c] = <<AuthChallenge(c)>> /\ device[c] \in Nodes
  BY <1>1 DEF Respond, Link, ClientSide, ServerSide
<1>3. auth \in Messages /\ news \in Messages /\ AuthChallenge(c) \in Answers(c)
  BY <1>2, MessagesIn, AnswersIn
<1>4. /\ device'[c] = device[c] /\ client'[c] = "joining" /\ server'[c] = server[c]
      /\ down'[c] = Tail(<<AuthChallenge(c)>>)
      /\ up'[c] = <<>> \o <<auth, news>>
      /\ clientKey'[c] = SessionKey(ClientSecret(c), Head(<<AuthChallenge(c)>>).public,
                                    Head(<<AuthChallenge(c)>>).nonce)
      /\ clusterKey'[c] = clusterKey[c]
      /\ nodeId'[c] = nodeId[c] /\ serverKey'[c] = serverKey[c]
      /\ announced'[c] = announced[c] /\ rival'[c] = rival[c]
  BY <1>1, <1>2 DEF Respond, Shape
<1>5. Shape'
  BY <1>1 DEF Respond, Shape
<1>6. Elsewhere(c)
  BY <1>1 DEF Respond, Shape, Elsewhere, LinkInv, Link, LinkType
<1>7. AuthChallenge(c).public = PublicKey(ServerSecret(c)) /\ AuthChallenge(c).nonce = NonceOf(c)
  BY DEF AuthChallenge
<1> HIDE DEF auth, news
<1>8. /\ down'[c] = <<>> /\ up'[c] = <<auth, news>> /\ Head(up'[c]) = auth
      /\ up'[c] \in Seq(Messages) /\ down'[c] \in Seq(Answers(c))
      /\ Head(<<AuthChallenge(c)>>) = AuthChallenge(c)
  <2>1. /\ Tail(<<AuthChallenge(c)>>) = <<>> /\ <<>> \in Seq(Answers(c))
        /\ Head(<<AuthChallenge(c)>>) = AuthChallenge(c)
    BY <1>3, ShortSeqs, Zenon
  <2>2. /\ <<>> \o <<auth, news>> = <<auth, news>> /\ Head(<<auth, news>>) = auth
        /\ <<auth, news>> \in Seq(Messages)
    BY <1>3, ShortSeqs, Zenon
  <2> QED
    BY <1>4, <2>1, <2>2, Zenon
<1>9. clientKey'[c] = ClientSession(c)
  BY <1>4, <1>7, <1>8, Zenon DEF ClientSession
<1>10. LinkType(c)'
  BY <1>1, <1>4, <1>8, <1>9, Zenon DEF Link, LinkType
<1>11. Joining(c)'
  BY <1>2, <1>4, <1>8, Zenon DEF Joining, auth, news
<1>12. ClientSide(c)'
  BY <1>4, <1>9, <1>11 DEF ClientSide
<1>13. ServerSide(c)'
  BY <1>1, <1>2, <1>4, <1>8 DEF Link, ServerSide, auth
<1> QED
  BY <1>5, <1>6, <1>10, <1>12, <1>13, LinkInvFrom DEF Link

\* What Join reads is the answer to the announce, and it opens.
LEMMA JoinKeeps ==
  ASSUME LinkInv, NEW c \in Conns, Join(c)
  PROVE  LinkInv' /\ Elsewhere(c)
<1>1. Link(c) /\ Shape
  BY DEF LinkInv
<1> DEFINE answer == JoinResponse(ServerSession(c))
<1>2. /\ client[c] = "joining" /\ down[c] # <<>> /\ clientKey[c] = ClientSession(c)
      /\ Joining(c)
  BY <1>1 DEF Join, Link, ClientSide
<1>3. server[c] = "serving" /\ up[c] = <<>> /\ down[c] = <<answer>>
  BY <1>2 DEF Joining
<1>4. Head(down[c]) = answer /\ Tail(down[c]) = <<>> /\ <<>> \in Seq(Answers(c))
  BY <1>3, AnswersIn, ShortSeqs
<1>5. /\ answer.kind = "JoinResponse"
      /\ CanDecrypt(answer.sealed, clientKey[c], HandshakeAad)
      /\ Decrypted(answer.sealed) = ClusterKey
  BY <1>2, AnswerOpens
<1> HIDE DEF answer
<1>6. /\ client'[c] = "joined" /\ clusterKey'[c] = ClusterKey /\ down'[c] = <<>>
  BY <1>1, <1>4, <1>5 DEF Join, Shape
<1>7. /\ device'[c] = device[c] /\ server'[c] = server[c] /\ up'[c] = up[c]
      /\ clientKey'[c] = clientKey[c]
      /\ nodeId'[c] = nodeId[c] /\ serverKey'[c] = serverKey[c]
      /\ announced'[c] = announced[c] /\ rival'[c] = rival[c]
  BY <1>1 DEF Join, Shape
<1>8. Shape'
  BY <1>1 DEF Join, Shape
<1>9. Elsewhere(c)
  BY <1>1 DEF Join, Shape, Elsewhere, LinkInv, Link, LinkType
<1>10. LinkType(c)'
  BY <1>1, <1>4, <1>6, <1>7 DEF Link, LinkType
<1>11. ClientSide(c)' /\ ServerSide(c)'
  BY <1>1, <1>3, <1>6, <1>7 DEF Link, ClientSide, ServerSide
<1> QED
  BY <1>8, <1>9, <1>10, <1>11, LinkInvFrom DEF Link

LEMMA SendKeeps ==
  ASSUME LinkInv, NEW c \in Conns, NEW m \in AppMessages, Send(c, m)
  PROVE  LinkInv' /\ Elsewhere(c)
<1>1. Link(c) /\ Shape
  BY DEF LinkInv
<1>2. m \in Messages /\ up[c] \in Seq(Messages) /\ client[c] = "joined"
  BY <1>1 DEF Messages, Link, LinkType, Send
<1>3. Append(up[c], m) \in Seq(Messages)
  BY <1>2, SeqParts
<1>4. /\ up'[c] = Append(up[c], m) /\ down'[c] = down[c]
      /\ device'[c] = device[c] /\ client'[c] = client[c] /\ server'[c] = server[c]
      /\ clientKey'[c] = clientKey[c] /\ clusterKey'[c] = clusterKey[c]
      /\ nodeId'[c] = nodeId[c] /\ serverKey'[c] = serverKey[c]
      /\ announced'[c] = announced[c] /\ rival'[c] = rival[c]
  BY <1>1 DEF Send, Shape
<1>5. Shape'
  <2>1. sent' \in 0 .. MaxSends
    <3>1. sent \in 0 .. MaxSends /\ sent < MaxSends /\ sent' = sent + 1
      BY <1>1, Zenon DEF Send, Shape
    <3> QED
      BY <3>1, MaxSendsAssumption
  <2> QED
    BY <1>1, <2>1 DEF Send, Shape
<1>6. Elsewhere(c)
  BY <1>1 DEF Send, Shape, Elsewhere, LinkInv, Link, LinkType
<1>7. LinkType(c)'
  BY <1>1, <1>3, <1>4, Zenon DEF Link, LinkType
<1>8. ClientSide(c)' /\ ServerSide(c)'
  BY <1>1, <1>2, <1>4 DEF Link, ClientSide, ServerSide
<1> QED
  BY <1>5, <1>6, <1>7, <1>8, LinkInvFrom DEF Link

LEMMA ReceiveKeeps ==
  ASSUME LinkInv, NEW c \in Conns, Receive(c)
  PROVE  LinkInv' /\ Elsewhere(c)
<1>1. Link(c) /\ Shape
  BY DEF LinkInv
<1>2. /\ client[c] = "joined" /\ down[c] # <<>> /\ down[c] \in Seq(Answers(c))
  BY <1>1 DEF Link, LinkType, Receive
<1>3. Tail(down[c]) \in Seq(Answers(c))
  BY <1>2, SeqParts
<1>4. /\ up'[c] = up[c] /\ down'[c] = Tail(down[c])
      /\ device'[c] = device[c] /\ client'[c] = client[c] /\ server'[c] = server[c]
      /\ clientKey'[c] = clientKey[c] /\ clusterKey'[c] = clusterKey[c]
      /\ nodeId'[c] = nodeId[c] /\ serverKey'[c] = serverKey[c]
      /\ announced'[c] = announced[c] /\ rival'[c] = rival[c]
  BY <1>1 DEF Receive, Shape
<1>5. Shape'
  BY <1>1 DEF Receive, Shape
<1>6. Elsewhere(c)
  BY <1>1 DEF Receive, Shape, Elsewhere, LinkInv, Link, LinkType
<1>7. LinkType(c)'
  BY <1>1, <1>3, <1>4, Zenon DEF Link, LinkType
<1>8. ClientSide(c)' /\ ServerSide(c)'
  BY <1>1, <1>2, <1>4 DEF Link, ClientSide, ServerSide
<1> QED
  BY <1>5, <1>6, <1>7, <1>8, LinkInvFrom DEF Link

\* A client that waits for the answer sees the end only of a refused
\* handshake.
LEMMA SeeEndKeeps ==
  ASSUME LinkInv, NEW c \in Conns, SeeEnd(c)
  PROVE  LinkInv' /\ Elsewhere(c)
<1>1. Link(c) /\ Shape
  BY DEF LinkInv
<1>2. /\ client[c] \in {"connecting", "joining", "joined"}
      /\ server[c] \in {"closed", "dropped"}
  BY DEF SeeEnd, ServerEnded
<1>3. /\ up'[c] = up[c] /\ down'[c] = down[c]
      /\ client'[c] = IF client[c] = "joined" THEN "gone" ELSE "failed"
      /\ device'[c] = device[c] /\ server'[c] = server[c]
      /\ clientKey'[c] = clientKey[c] /\ clusterKey'[c] = clusterKey[c]
      /\ nodeId'[c] = nodeId[c] /\ serverKey'[c] = serverKey[c]
      /\ announced'[c] = announced[c] /\ rival'[c] = rival[c]
  BY <1>1 DEF SeeEnd, Shape
<1>4. Shape'
  BY <1>1 DEF SeeEnd, Shape
<1>5. Elsewhere(c)
  BY <1>1 DEF SeeEnd, Shape, Elsewhere, LinkInv, Link, LinkType
<1>6. LinkType(c)'
  BY <1>1, <1>3 DEF Link, LinkType
<1>7. client[c] # "joined" => c \in Misconfigured
  BY <1>1, <1>2 DEF Link, ClientSide, Joining
<1>8. ClientSide(c)' /\ ServerSide(c)'
  BY <1>1, <1>2, <1>3, <1>7 DEF Link, ClientSide, ServerSide
<1> QED
  BY <1>4, <1>5, <1>6, <1>8, LinkInvFrom DEF Link

LEMMA GoKeeps ==
  ASSUME LinkInv, NEW c \in Conns, Go(c)
  PROVE  LinkInv' /\ Elsewhere(c)
<1>1. Link(c) /\ Shape
  BY DEF LinkInv
<1>2. PICK k \in 0 .. Len(up[c]) : up' = [up EXCEPT ![c] = SubSeq(@, 1, k)]
  BY DEF Go
<1>3. up[c] \in Seq(Messages)
  BY <1>1 DEF Link, LinkType
<1>4. /\ SubSeq(up[c], 1, k) \in Seq(Messages)
      /\ SubSeq(up[c], 1, k) # <<>> => Head(SubSeq(up[c], 1, k)) = Head(up[c])
      /\ up[c] = <<>> => SubSeq(up[c], 1, k) = <<>>
  BY <1>2, <1>3, SeqParts
<1>5. /\ up'[c] = SubSeq(up[c], 1, k) /\ down'[c] = <<>> /\ client'[c] = "gone"
      /\ device'[c] = device[c] /\ server'[c] = server[c]
      /\ clientKey'[c] = clientKey[c] /\ clusterKey'[c] = clusterKey[c]
      /\ nodeId'[c] = nodeId[c] /\ serverKey'[c] = serverKey[c]
      /\ announced'[c] = announced[c] /\ rival'[c] = rival[c]
  BY <1>1, <1>2 DEF Go, Shape
<1>6. Shape'
  BY <1>1, <1>2 DEF Go, Shape
<1>7. Elsewhere(c)
  BY <1>1, <1>2 DEF Go, Shape, Elsewhere, LinkInv, Link, LinkType
<1>8. LinkType(c)'
  BY <1>1, <1>4, <1>5, ShortSeqs DEF Link, LinkType
<1>9. ClientSide(c)'
  BY <1>5 DEF ClientSide
<1>10. ServerSide(c)'
  <2> DEFINE some == SubSeq(up[c], 1, k)
  <2>1. /\ some # <<>> => Head(some) = Head(up[c])
        /\ up[c] = <<>> => some = <<>>
        /\ up'[c] = some
    BY <1>4, <1>5
  <2> HIDE DEF some
  <2> QED
    BY <1>1, <1>5, <2>1, Zenon DEF Link, ServerSide
<1> QED
  BY <1>6, <1>7, <1>8, <1>9, <1>10, LinkInvFrom DEF Link

------------------------------------------------------------------------
(* The steps of the server.                                                *)

\* The first message of a client is its response, signed with its secret.
LEMMA AuthenticateKeeps ==
  ASSUME LinkInv, NEW c \in Conns, Authenticate(c)
  PROVE  LinkInv' /\ Elsewhere(c)
<1>1. Link(c) /\ Shape
  BY DEF LinkInv
<1> DEFINE first == AuthResponse(c, device[c])
<1>2. /\ server[c] = "challenged" /\ up[c] # <<>> /\ up[c] \in Seq(Messages)
      /\ device[c] \in Nodes /\ Head(up[c]) = first
  BY <1>1 DEF Authenticate, Link, LinkType, ServerSide
<1>3. Tail(up[c]) \in Seq(Messages)
  BY <1>2, SeqParts
<1>4. /\ first.kind = "AuthResponse" /\ first.node = device[c]
      /\ first.public = PublicKey(ClientSecret(c))
      /\ VerifyHmac(NonceOf(c), SharedSecret, first.token) <=> c \notin Misconfigured
  BY TokenProvesSecret
<1>5. client[c] # "joined" /\ client[c] # "idle" /\ client[c] # "connecting"
  BY <1>1, <1>2 DEF Link, ClientSide
<1>6. client[c] = "joining" =>
        /\ down[c] = <<>> /\ clientKey[c] = ClientSession(c)
        /\ \E x \in FirstScores : up[c] = <<first, NodeAnnounce(device[c], x)>>
  BY <1>1, <1>2 DEF Link, ClientSide, Joining
<1> HIDE DEF first
<1>7. /\ up'[c] = Tail(up[c]) /\ down'[c] = down[c]
      /\ device'[c] = device[c] /\ client'[c] = client[c]
      /\ clientKey'[c] = clientKey[c] /\ clusterKey'[c] = clusterKey[c]
      /\ announced'[c] = announced[c]
  BY <1>1 DEF Authenticate, Shape
<1>8. CASE c \notin Misconfigured
  <2>1. Accept(c, first)
    BY <1>2, <1>4, <1>8, Zenon DEF Authenticate
  <2>2. /\ server'[c] = "serving" /\ nodeId'[c] = device[c]
        /\ serverKey'[c] = ServerSession(c)
    BY <1>1, <1>4, <2>1 DEF Accept, Shape, ServerSession
  <2>3. rival' = [d \in Conns |-> rival[d] \/ d \in Rivals(c, first.node)]
    BY <2>1 DEF Accept
  <2>4. Shape'
    BY <1>1, <2>1, <2>3 DEF Authenticate, Accept, Shape
  <2>5. Elsewhere(c)
    <3>1. \A d \in Conns : rival'[d] \in BOOLEAN
      BY <2>3, Zenon
    <3> QED
      BY <1>1, <2>1, <3>1 DEF Authenticate, Accept, Shape, Elsewhere
  <2>6. rival'[c] \in BOOLEAN
    BY <2>3, Zenon
  <2>7. LinkType(c)'
    BY <1>1, <1>2, <1>3, <1>7, <2>2, <2>6 DEF Link, LinkType
  <2>8. client'[c] = "joining" => clientKey'[c] = ClientSession(c) /\ Joining(c)'
    <3>1. ASSUME client[c] = "joining", NEW x \in FirstScores,
                 up[c] = <<first, NodeAnnounce(device[c], x)>>
          PROVE  up'[c] = <<NodeAnnounce(device[c], x)>>
      BY <1>7, <3>1
    <3> QED
      BY <1>6, <1>7, <2>2, <3>1, Zenon DEF Joining
  <2>9. ClientSide(c)' /\ ServerSide(c)'
    BY <1>1, <1>2, <1>5, <1>7, <1>8, <2>2, <2>8 DEF Link, ClientSide, ServerSide
  <2> QED
    BY <2>4, <2>5, <2>7, <2>9, LinkInvFrom DEF Link
<1>9. CASE c \in Misconfigured
  <2>1. Refuse(c, first)
    BY <1>2, <1>4, <1>9, Zenon DEF Authenticate
  <2>2. /\ server'[c] = "closed" /\ nodeId'[c] = nodeId[c]
        /\ serverKey'[c] = serverKey[c] /\ rival'[c] = rival[c]
    BY <1>1, <2>1 DEF Refuse, Shape
  <2>3. Shape'
    BY <1>1, <2>1 DEF Authenticate, Refuse, Shape
  <2>4. Elsewhere(c)
    BY <1>1, <2>1 DEF Authenticate, Refuse, Shape, Elsewhere, LinkInv, Link, LinkType
  <2>5. LinkType(c)'
    BY <1>1, <1>3, <1>7, <2>2 DEF Link, LinkType
  <2>6. client'[c] = "joining" => clientKey'[c] = ClientSession(c) /\ Joining(c)'
    BY <1>6, <1>7, <1>9, <2>2, Zenon DEF Joining
  <2>7. ClientSide(c)' /\ ServerSide(c)'
    BY <1>1, <1>2, <1>5, <1>7, <1>9, <2>2, <2>6 DEF Link, ClientSide, ServerSide
  <2> QED
    BY <2>3, <2>4, <2>5, <2>7, LinkInvFrom DEF Link
<1> QED
  BY <1>8, <1>9

\* A client that waits for the answer has sent nothing but the announce of
\* its own device.
LEMMA AnnounceIsFirst ==
  ASSUME NEW c \in Conns, Link(c), server[c] = "serving", up[c] # <<>>,
         client[c] = "joining"
  PROVE  /\ down[c] = <<>> /\ Tail(up[c]) = <<>>
         /\ Head(up[c]).kind = "NodeAnnounce" /\ Head(up[c]).node = nodeId[c]
<1>1. PICK x \in FirstScores : up[c] = <<NodeAnnounce(device[c], x)>>
  BY DEF Link, ClientSide, Joining
<1>2. down[c] = <<>>
  BY <1>1 DEF Link, ClientSide, Joining
<1>3. Head(up[c]) = NodeAnnounce(device[c], x) /\ Tail(up[c]) = <<>>
  BY <1>1
<1>4. nodeId[c] = device[c]
  BY DEF Link, ServerSide
<1> QED
  BY <1>2, <1>3, <1>4 DEF NodeAnnounce

LEMMA HandleAnnounceKeeps ==
  ASSUME LinkInv, NEW c \in Conns, HandleAnnounce(c)
  PROVE  LinkInv' /\ Elsewhere(c)
<1>1. Link(c) /\ Shape
  BY DEF LinkInv
<1> DEFINE answer == JoinResponse(ServerSession(c))
<1>2. /\ server[c] = "serving" /\ up[c] # <<>> /\ up[c] \in Seq(Messages)
      /\ serverKey[c] = ServerSession(c) /\ down[c] \in Seq(Answers(c))
  BY <1>1 DEF HandleAnnounce, Handling, Link, LinkType, ServerSide
<1>3. /\ Tail(up[c]) \in Seq(Messages)
      /\ Append(down[c], answer) \in Seq(Answers(c))
      /\ down[c] = <<>> => Append(down[c], answer) = <<answer>>
  <2>1. answer \in Answers(c)
    BY AnswersIn
  <2> HIDE DEF answer
  <2> QED
    BY <1>2, <2>1, SeqParts, ShortSeqs
<1> HIDE DEF answer
<1>4. /\ up'[c] = Tail(up[c])
      /\ down'[c] = IF ClientGoneFor(c) THEN down[c] ELSE Append(down[c], answer)
      /\ announced'[c] = TRUE
      /\ device'[c] = device[c] /\ client'[c] = client[c] /\ server'[c] = server[c]
      /\ clientKey'[c] = clientKey[c] /\ clusterKey'[c] = clusterKey[c]
      /\ nodeId'[c] = nodeId[c] /\ serverKey'[c] = serverKey[c]
  BY <1>1, <1>2 DEF HandleAnnounce, Answer, Shape, answer
<1>5. rival' = [rival EXCEPT ![c] = Rivals(c, Head(up[c]).node) # {}]
  BY DEF HandleAnnounce
<1>6. Shape'
  BY <1>1, <1>5 DEF HandleAnnounce, Answer, Shape
<1>7. \A d \in Conns : rival'[d] \in BOOLEAN
  BY <1>1, <1>5, Zenon DEF Shape, LinkInv, Link, LinkType
<1>8. Elsewhere(c)
  BY <1>1, <1>7 DEF HandleAnnounce, Answer, Shape, Elsewhere
<1>9. LinkType(c)'
  <2>1. down'[c] \in Seq(Answers(c))
    BY <1>2, <1>3, <1>4
  <2> QED
    BY <1>1, <1>3, <1>4, <1>7, <2>1 DEF Link, LinkType
<1>10. client'[c] = "joining" => clientKey'[c] = ClientSession(c) /\ Joining(c)'
  <2> SUFFICES ASSUME client[c] = "joining"
               PROVE  clientKey'[c] = ClientSession(c) /\ Joining(c)'
    BY <1>4
  <2>1. down[c] = <<>> /\ Tail(up[c]) = <<>>
    BY <1>1, <1>2, AnnounceIsFirst
  <2>2. ~ ClientGoneFor(c)
    BY DEF ClientGoneFor
  <2>3. up'[c] = <<>> /\ down'[c] = <<answer>> /\ server'[c] = "serving"
    BY <1>2, <1>3, <1>4, <2>1, <2>2, Zenon
  <2> QED
    BY <1>1, <1>4, <2>3, Zenon DEF Link, ClientSide, Joining, answer
<1>11. ClientSide(c)' /\ ServerSide(c)'
  BY <1>1, <1>2, <1>4, <1>10 DEF Link, ClientSide, ServerSide
<1> QED
  BY <1>6, <1>8, <1>9, <1>11, LinkInvFrom DEF Link

LEMMA HandleMismatchKeeps ==
  ASSUME LinkInv, NEW c \in Conns, HandleMismatch(c)
  PROVE  LinkInv' /\ Elsewhere(c)
<1>1. Link(c) /\ Shape
  BY DEF LinkInv
<1>2. /\ server[c] = "serving" /\ up[c] # <<>> /\ Head(up[c]).node # nodeId[c]
  BY DEF HandleMismatch, Handling
<1>3. client[c] # "joining"
  BY <1>1, <1>2, AnnounceIsFirst
<1>4. /\ up'[c] = up[c] /\ down'[c] = down[c] /\ server'[c] = "dropped"
      /\ device'[c] = device[c] /\ client'[c] = client[c]
      /\ clientKey'[c] = clientKey[c] /\ clusterKey'[c] = clusterKey[c]
      /\ nodeId'[c] = nodeId[c] /\ serverKey'[c] = serverKey[c]
      /\ announced'[c] = announced[c] /\ rival'[c] = rival[c]
  BY <1>1 DEF HandleMismatch, Shape
<1>5. Shape'
  BY <1>1 DEF HandleMismatch, Shape
<1>6. Elsewhere(c)
  BY <1>1 DEF HandleMismatch, Shape, Elsewhere, LinkInv, Link, LinkType
<1>7. LinkType(c)'
  BY <1>1, <1>4 DEF Link, LinkType
<1>8. ClientSide(c)' /\ ServerSide(c)'
  BY <1>1, <1>2, <1>3, <1>4 DEF Link, ClientSide, ServerSide
<1> QED
  BY <1>5, <1>6, <1>7, <1>8, LinkInvFrom DEF Link

\* A message that is no announce is read by a handler in its loop: at most an
\* answer goes back, and nothing else of the connection moves.
Reads(c) ==
  /\ server[c] = "serving" /\ up[c] # <<>> /\ Head(up[c]).kind # "NodeAnnounce"
  /\ up' = [up EXCEPT ![c] = Tail(@)]
  /\ \/ down' = down
     \/ Answer(c, [kind |-> "RebalanceCommand"])
  /\ announced' \in {announced, [announced EXCEPT ![c] = FALSE]}
  /\ UNCHANGED <<device, client, clientKey, clusterKey, server, nodeId, serverKey,
                 sent, rival>>

LEMMA ReadsKeeps ==
  ASSUME LinkInv, NEW c \in Conns, Reads(c)
  PROVE  LinkInv' /\ Elsewhere(c)
<1>1. Link(c) /\ Shape
  BY DEF LinkInv
<1>2. /\ server[c] = "serving" /\ up[c] # <<>> /\ up[c] \in Seq(Messages)
      /\ down[c] \in Seq(Answers(c))
  BY <1>1 DEF Reads, Link, LinkType
<1>3. client[c] # "joining"
  BY <1>1, <1>2, AnnounceIsFirst DEF Reads
<1>4. /\ Tail(up[c]) \in Seq(Messages)
      /\ Append(down[c], [kind |-> "RebalanceCommand"]) \in Seq(Answers(c))
  BY <1>2, AnswersIn, SeqParts
<1>5. down'[c] \in {down[c], Append(down[c], [kind |-> "RebalanceCommand"])}
  BY <1>1 DEF Reads, Answer, Shape
<1>6. /\ up'[c] = Tail(up[c]) /\ announced'[c] \in {announced[c], FALSE}
      /\ device'[c] = device[c] /\ client'[c] = client[c] /\ server'[c] = server[c]
      /\ clientKey'[c] = clientKey[c] /\ clusterKey'[c] = clusterKey[c]
      /\ nodeId'[c] = nodeId[c] /\ serverKey'[c] = serverKey[c]
      /\ rival'[c] = rival[c]
  BY <1>1 DEF Reads, Shape
<1>7. Shape'
  BY <1>1 DEF Reads, Answer, Shape
<1>8. Elsewhere(c)
  BY <1>1 DEF Reads, Answer, Shape, Elsewhere, LinkInv, Link, LinkType
<1>9. LinkType(c)'
  <2>1. down'[c] \in Seq(Answers(c))
    BY <1>2, <1>4, <1>5
  <2>2. announced'[c] \in BOOLEAN
    BY <1>1, <1>6, Zenon DEF Link, LinkType
  <2> QED
    BY <1>1, <1>4, <1>6, <2>1, <2>2 DEF Link, LinkType
<1>10. ClientSide(c)' /\ ServerSide(c)'
  BY <1>1, <1>2, <1>3, <1>6 DEF Link, ClientSide, ServerSide
<1> QED
  BY <1>7, <1>8, <1>9, <1>10, LinkInvFrom DEF Link

\* The handler returns, because its client is gone.
Returns(c) ==
  /\ server[c] \in {"challenged", "serving"} /\ ClientGoneFor(c)
  /\ server' = [server EXCEPT ![c] = "closed"]
  /\ announced' \in {announced, [announced EXCEPT ![c] = FALSE]}
  /\ UNCHANGED <<device, client, clientKey, clusterKey, nodeId, serverKey,
                 up, down, sent, rival>>

LEMMA ReturnsKeeps ==
  ASSUME LinkInv, NEW c \in Conns, Returns(c)
  PROVE  LinkInv' /\ Elsewhere(c)
<1>1. Link(c) /\ Shape
  BY DEF LinkInv
<1>2. client[c] \in {"failed", "gone"}
  BY DEF Returns, ClientGoneFor
<1>3. /\ up'[c] = up[c] /\ down'[c] = down[c] /\ server'[c] = "closed"
      /\ announced'[c] \in {announced[c], FALSE}
      /\ device'[c] = device[c] /\ client'[c] = client[c]
      /\ clientKey'[c] = clientKey[c] /\ clusterKey'[c] = clusterKey[c]
      /\ nodeId'[c] = nodeId[c] /\ serverKey'[c] = serverKey[c]
      /\ rival'[c] = rival[c]
  BY <1>1 DEF Returns, Shape
<1>4. Shape'
  BY <1>1 DEF Returns, Shape
<1>5. Elsewhere(c)
  BY <1>1 DEF Returns, Shape, Elsewhere, LinkInv, Link, LinkType
<1>6. LinkType(c)'
  <2>1. announced'[c] \in BOOLEAN
    BY <1>1, <1>3, Zenon DEF Link, LinkType
  <2> QED
    BY <1>1, <1>3, <2>1 DEF Link, LinkType
<1>7. ClientSide(c)' /\ ServerSide(c)'
  BY <1>1, <1>2, <1>3 DEF Link, ClientSide, ServerSide
<1> QED
  BY <1>4, <1>5, <1>6, <1>7, LinkInvFrom DEF Link

\* Which handler is of which kind.
LEMMA ServerStepKinds ==
  ASSUME NEW c \in Conns
  PROVE  /\ HandleStatus(c) \/ HandleHeartbeat(c) \/ HandleDrain(c) \/ HandleOther(c)
              => Reads(c)
         /\ CloseEarly(c) \/ Close(c) => Returns(c)
<1>1. HandleStatus(c) => Reads(c)
  BY DEF HandleStatus, Handling, Reads
<1>2. HandleHeartbeat(c) => Reads(c)
  BY DEF HandleHeartbeat, Handling, Reads
<1>3. HandleDrain(c) => Reads(c)
  BY DEF HandleDrain, Handling, Reads
<1>4. HandleOther(c) => Reads(c)
  BY DEF HandleOther, Handling, Reads
<1>5. CloseEarly(c) \/ Close(c) => Returns(c)
  BY DEF CloseEarly, Close, AtEnd, Returns
<1> QED
  BY <1>1, <1>2, <1>3, <1>4, <1>5

LEMMA LinkStep ==
  ASSUME LinkInv, ConnNext
  PROVE  LinkInv'
<1>1. PICK c \in Conns :
        \/ \E n \in Nodes : Connect(c, n)
        \/ ClientStep(c)
        \/ \E m \in AppMessages : Send(c, m)
        \/ Receive(c)
        \/ Go(c)
        \/ ServerStep(c)
  BY DEF ConnNext
<1>2. ASSUME ClientStep(c) PROVE LinkInv'
  BY <1>2, RespondKeeps, JoinKeeps, SeeEndKeeps, Zenon DEF ClientStep
<1>3. ASSUME ServerStep(c) PROVE LinkInv'
  BY <1>3, AuthenticateKeeps, HandleAnnounceKeeps, HandleMismatchKeeps,
     ServerStepKinds, ReadsKeeps, ReturnsKeeps, Zenon DEF ServerStep
<1> QED
  BY <1>1, <1>2, <1>3, ConnectKeeps, SendKeeps, ReceiveKeeps, GoKeeps, Zenon

LEMMA LinkInit ==
  ASSUME ConnInit
  PROVE  LinkInv
<1>1. Shape
  BY MaxSendsAssumption DEF ConnInit, Shape
<1>2. ASSUME NEW c \in Conns PROVE Link(c)
  <2>1. LinkType(c)
    BY <1>2 DEF ConnInit, LinkType
  <2>2. ClientSide(c) /\ ServerSide(c)
    BY <1>2 DEF ConnInit, ClientSide, ServerSide
  <2> QED
    BY <2>1, <2>2 DEF Link
<1> QED
  BY <1>1, <1>2 DEF LinkInv

------------------------------------------------------------------------
(* The registry and the handlers.  What a step means for both is one of    *)
(* six things; each keeps the correspondence between the entries and the   *)
(* announcements.  For ServedIsRegistered the handlers have to know their   *)
(* rivals: of two that serve one identity, who has announced has noticed.  *)

RivalsKnown ==
  \A c, d \in Conns :
    c # d /\ server[c] = "serving" /\ server[d] = "serving" /\ nodeId[c] = nodeId[d]
      /\ announced[d] => rival[d]

EntryInv == RivalsKnown /\ RegisteredIsServed /\ ServedIsRegistered

Quiet == Registered' = Registered /\ UNCHANGED <<server, nodeId, announced, rival>>

BeforeServing(c) ==
  /\ server[c] \in {"idle", "challenged"}
  /\ \E place \in {"challenged", "closed"} : server' = [server EXCEPT ![c] = place]
  /\ Registered' = Registered /\ UNCHANGED <<nodeId, announced, rival>>

Admits(c) ==
  /\ server[c] = "challenged"
  /\ server' = [server EXCEPT ![c] = "serving"]
  /\ nodeId' = [nodeId EXCEPT ![c] = device[c]]
  /\ rival' = [d \in Conns |-> rival[d] \/ d \in Rivals(c, device[c])]
  /\ Registered' = Registered /\ UNCHANGED announced

Registers(c) ==
  /\ Handling(c, "NodeAnnounce") /\ Acting = {c}
  /\ server[c] = "serving"
  /\ announced' = [announced EXCEPT ![c] = TRUE]
  /\ rival' = [rival EXCEPT ![c] = Rivals(c, nodeId[c]) # {}]
  /\ Registered' = Registered \cup {nodeId[c]} /\ UNCHANGED <<server, nodeId>>

Drops(c) ==
  /\ server[c] = "serving"
  /\ server' = [server EXCEPT ![c] = "dropped"]
  /\ Registered' = Registered /\ UNCHANGED <<nodeId, announced, rival>>

Removes(c) ==
  /\ Handling(c, "DrainRequest") \/ AtEnd(c)
  /\ Acting = {c}
  /\ server[c] = "serving"
  /\ \E place \in {"serving", "closed"} : server' = [server EXCEPT ![c] = place]
  /\ announced' = [announced EXCEPT ![c] = FALSE]
  /\ Registered' = Registered \ {nodeId[c]} /\ UNCHANGED <<nodeId, rival>>

LEMMA QuietKeeps ==
  ASSUME EntryInv, Quiet
  PROVE  EntryInv'
<1>1. RivalsKnown'
  BY Zenon DEF EntryInv, RivalsKnown, Quiet
<1>2. RegisteredIsServed' /\ ServedIsRegistered'
  BY Zenon DEF EntryInv, Quiet, RegisteredIsServed, ServedIsRegistered
<1> QED
  BY <1>1, <1>2 DEF EntryInv

LEMMA BeforeServingKeeps ==
  ASSUME EntryInv, LinkInv, NEW c \in Conns, BeforeServing(c)
  PROVE  EntryInv'
<1>1. /\ \A d \in Conns \ {c} : server'[d] = server[d]
      /\ server[c] \in {"idle", "challenged"} /\ server'[c] \in {"challenged", "closed"}
      /\ Registered' = Registered /\ nodeId' = nodeId /\ announced' = announced
      /\ rival' = rival
  BY DEF BeforeServing, LinkInv, Shape
<1>2. \A d \in Conns : server[d] \in {"serving", "dropped"} => d # c
  BY <1>1
<1>3. \A d \in Conns : server'[d] = "serving" => server[d] = "serving"
  BY <1>1
<1>4. \A d \in Conns : server[d] \in {"serving", "dropped"} => server'[d] = server[d]
  BY <1>1, <1>2
<1>5. RivalsKnown'
  BY <1>1, <1>3, Zenon DEF EntryInv, RivalsKnown
<1>6. RegisteredIsServed'
  BY <1>1, <1>4, ZenonT(30) DEF EntryInv, RegisteredIsServed
<1>7. ServedIsRegistered'
  BY <1>1, <1>3, ZenonT(30) DEF EntryInv, ServedIsRegistered
<1> QED
  BY <1>5, <1>6, <1>7 DEF EntryInv

\* The new handler has announced nothing yet, and its rivals learn of it.
LEMMA AdmitsKeeps ==
  ASSUME EntryInv, LinkInv, NEW c \in Conns, Admits(c)
  PROVE  EntryInv'
<1>1. /\ \A d \in Conns \ {c} : server'[d] = server[d] /\ nodeId'[d] = nodeId[d]
      /\ server[c] = "challenged" /\ server'[c] = "serving" /\ nodeId'[c] = device[c]
      /\ Registered' = Registered /\ announced' = announced
  BY DEF Admits, LinkInv, Shape
<1>2. ~ announced[c]
  BY <1>1 DEF LinkInv, Link, ServerSide
<1>3. \A d \in Conns : rival'[d] <=> rival[d] \/ d \in Rivals(c, device[c])
  BY Zenon DEF Admits
<1>4. RivalsKnown'
  <2> SUFFICES ASSUME NEW a \in Conns, NEW b \in Conns,
                      a # b, server'[a] = "serving", server'[b] = "serving",
                      nodeId'[a] = nodeId'[b], announced[b]
               PROVE  rival'[b]
    BY <1>1, Zenon DEF RivalsKnown
  <2>1. b # c /\ server[b] = "serving" /\ nodeId'[b] = nodeId[b]
    BY <1>1, <1>2
  <2>2. CASE a = c
    <3>1. b \in Rivals(c, device[c])
      BY <1>1, <2>1, <2>2 DEF Rivals
    <3> QED
      BY <1>3, <3>1, Zenon
  <2>3. CASE a # c
    <3>1. server[a] = "serving" /\ nodeId[a] = nodeId[b]
      BY <1>1, <2>1, <2>3
    <3> QED
      BY <1>3, <2>1, <3>1, Zenon DEF EntryInv, RivalsKnown
  <2> QED
    BY <2>2, <2>3
<1>5. RegisteredIsServed'
  <2> SUFFICES ASSUME NEW n \in Registered
               PROVE  \E d \in Conns : announced'[d] /\ nodeId'[d] = n
                                        /\ server'[d] \in {"serving", "dropped"}
    BY <1>1, Zenon DEF RegisteredIsServed
  <2>1. PICK d \in Conns : announced[d] /\ nodeId[d] = n
                             /\ server[d] \in {"serving", "dropped"}
    BY DEF EntryInv, RegisteredIsServed
  <2>2. d # c
    BY <1>2, <2>1, Zenon
  <2> QED
    BY <1>1, <2>1, <2>2, Zenon
<1>6. ServedIsRegistered'
  <2> SUFFICES ASSUME NEW d \in Conns, server'[d] = "serving", announced[d], ~ rival'[d]
               PROVE  nodeId'[d] \in Registered
    BY <1>1, Zenon DEF ServedIsRegistered
  <2>1. d # c
    BY <1>2, Zenon
  <2>2. server[d] = "serving" /\ nodeId'[d] = nodeId[d] /\ ~ rival[d]
    BY <1>1, <1>3, <2>1, Zenon
  <2> QED
    BY <2>2, Zenon DEF EntryInv, ServedIsRegistered
<1> QED
  BY <1>4, <1>5, <1>6 DEF EntryInv

LEMMA RegistersKeeps ==
  ASSUME EntryInv, LinkInv, NEW c \in Conns, Registers(c)
  PROVE  EntryInv'
<1>1. /\ server[c] = "serving" /\ server' = server /\ nodeId' = nodeId
      /\ Registered' = Registered \cup {nodeId[c]}
  BY DEF Registers
<1>2. /\ \A d \in Conns \ {c} : announced'[d] = announced[d] /\ rival'[d] = rival[d]
      /\ announced'[c]
      /\ rival'[c] <=> Rivals(c, nodeId[c]) # {}
  BY Zenon DEF Registers, LinkInv, Shape
<1>3. RivalsKnown'
  <2> SUFFICES ASSUME NEW a \in Conns, NEW b \in Conns,
                      a # b, server[a] = "serving", server[b] = "serving",
                      nodeId[a] = nodeId[b], announced'[b]
               PROVE  rival'[b]
    BY <1>1, Zenon DEF RivalsKnown
  <2>1. CASE b = c
    <3>1. a \in Rivals(c, nodeId[c])
      BY <2>1 DEF Rivals
    <3> QED
      BY <1>2, <2>1, <3>1, Zenon
  <2>2. CASE b # c
    <3>1. announced[b] /\ rival'[b] = rival[b]
      BY <1>2, <2>2, Zenon
    <3> QED
      BY <3>1, Zenon DEF EntryInv, RivalsKnown
  <2> QED
    BY <2>1, <2>2
<1>4. RegisteredIsServed'
  <2> SUFFICES ASSUME NEW n \in Registered \cup {nodeId[c]}
               PROVE  \E d \in Conns : announced'[d] /\ nodeId[d] = n
                                        /\ server[d] \in {"serving", "dropped"}
    BY <1>1, Zenon DEF RegisteredIsServed
  <2>1. CASE n = nodeId[c]
    BY <1>1, <1>2, <2>1, Zenon
  <2>2. CASE n \in Registered
    <3>1. PICK d \in Conns : announced[d] /\ nodeId[d] = n
                               /\ server[d] \in {"serving", "dropped"}
      BY <2>2, Zenon DEF EntryInv, RegisteredIsServed
    <3>2. announced'[d]
      BY <1>2, <3>1, Zenon
    <3> QED
      BY <3>1, <3>2, Zenon
  <2> QED
    BY <2>1, <2>2
<1>5. ServedIsRegistered'
  <2> SUFFICES ASSUME NEW d \in Conns, server[d] = "serving", announced'[d], ~ rival'[d],
                      d # c
               PROVE  nodeId[d] \in Registered
    BY <1>1, Zenon DEF ServedIsRegistered
  <2>1. announced[d] /\ ~ rival[d]
    BY <1>2, Zenon
  <2> QED
    BY <2>1, Zenon DEF EntryInv, ServedIsRegistered
<1> QED
  BY <1>3, <1>4, <1>5 DEF EntryInv

LEMMA DropsKeeps ==
  ASSUME EntryInv, LinkInv, NEW c \in Conns, Drops(c)
  PROVE  EntryInv'
<1>1. /\ \A d \in Conns \ {c} : server'[d] = server[d]
      /\ server[c] = "serving" /\ server'[c] = "dropped"
      /\ Registered' = Registered /\ nodeId' = nodeId /\ announced' = announced
      /\ rival' = rival
  BY DEF Drops, LinkInv, Shape
<1>2. \A d \in Conns : server'[d] = "serving" => server[d] = "serving"
  BY <1>1
<1>3. \A d \in Conns : server[d] \in {"serving", "dropped"}
                         => server'[d] \in {"serving", "dropped"}
  BY <1>1
<1>4. RivalsKnown'
  BY <1>1, <1>2, Zenon DEF EntryInv, RivalsKnown
<1>5. RegisteredIsServed'
  BY <1>1, <1>3, Zenon DEF EntryInv, RegisteredIsServed
<1>6. ServedIsRegistered'
  BY <1>1, <1>2, Zenon DEF EntryInv, ServedIsRegistered
<1> QED
  BY <1>4, <1>5, <1>6 DEF EntryInv

\* Whoever else announced the removed identity knows of this handler.
LEMMA RemovesKeeps ==
  ASSUME EntryInv, LinkInv, NEW c \in Conns, Removes(c)
  PROVE  EntryInv'
<1>1. /\ \A d \in Conns \ {c} : server'[d] = server[d]
      /\ server[c] = "serving" /\ server'[c] \in {"serving", "closed"}
      /\ Registered' = Registered \ {nodeId[c]} /\ nodeId' = nodeId /\ rival' = rival
  BY DEF Removes, LinkInv, Shape
<1>2. /\ \A d \in Conns \ {c} : announced'[d] = announced[d]
      /\ ~ announced'[c]
  BY Zenon DEF Removes, LinkInv, Shape
<1>3. \A d \in Conns : server'[d] = "serving" => server[d] = "serving"
  BY <1>1
<1>4. \A d \in Conns : announced'[d] => announced[d] /\ d # c
  BY <1>2, Zenon
<1>5. RivalsKnown'
  BY <1>1, <1>3, <1>4, Zenon DEF EntryInv, RivalsKnown
<1>6. RegisteredIsServed'
  <2> SUFFICES ASSUME NEW n \in Registered, n # nodeId[c]
               PROVE  \E d \in Conns : announced'[d] /\ nodeId[d] = n
                                        /\ server'[d] \in {"serving", "dropped"}
    BY <1>1, Zenon DEF RegisteredIsServed
  <2>1. PICK d \in Conns : announced[d] /\ nodeId[d] = n
                             /\ server[d] \in {"serving", "dropped"}
    BY DEF EntryInv, RegisteredIsServed
  <2>2. d # c
    BY <2>1
  <2> QED
    BY <1>1, <1>2, <2>1, <2>2, Zenon
<1>7. ServedIsRegistered'
  <2> SUFFICES ASSUME NEW d \in Conns, server'[d] = "serving", announced'[d], ~ rival[d]
               PROVE  nodeId[d] \in Registered /\ nodeId[d] # nodeId[c]
    BY <1>1, Zenon DEF ServedIsRegistered
  <2>1. server[d] = "serving" /\ announced[d] /\ d # c
    BY <1>3, <1>4, Zenon
  <2>2. nodeId[d] \in Registered
    BY <2>1, Zenon DEF EntryInv, ServedIsRegistered
  <2>3. nodeId[d] # nodeId[c]
    BY <1>1, <2>1, Zenon DEF EntryInv, RivalsKnown
  <2> QED
    BY <2>2, <2>3
<1> QED
  BY <1>5, <1>6, <1>7 DEF EntryInv

------------------------------------------------------------------------
(* Every action is one of the six, and for the registry a handler of Swarm  *)
(* or nothing.                                                             *)

Meaning(c) ==
  \/ Quiet
  \/ BeforeServing(c) \/ Admits(c) \/ Drops(c)
  \/ Registers(c) \/ Removes(c)

SwarmStep == [Next]_swarmVars

LEMMA UnchangedRegistry ==
  ASSUME UNCHANGED swarmVars
  PROVE  Registered' = Registered /\ SwarmStep
BY DEF swarmVars, Registered, SwarmStep

LEMMA ClientMeaning ==
  ASSUME NEW c \in Conns,
         \/ \E n \in Nodes : Connect(c, n)
         \/ ClientStep(c)
         \/ \E m \in AppMessages : Send(c, m)
         \/ Receive(c)
         \/ Go(c),
         LinkInv
  PROVE  Meaning(c) /\ SwarmStep
<1>1. CASE \E n \in Nodes : Connect(c, n)
  <2>1. UNCHANGED swarmVars
    BY <1>1 DEF Connect
  <2>2. /\ client[c] = "idle" /\ server' = [server EXCEPT ![c] = "challenged"]
        /\ UNCHANGED <<nodeId, announced, rival>>
    BY <1>1 DEF Connect
  <2>3. server[c] = "idle"
    BY <2>2 DEF LinkInv, Link, ClientSide
  <2> QED
    BY <2>1, <2>2, <2>3, UnchangedRegistry DEF Meaning, BeforeServing
<1>2. ASSUME UNCHANGED <<swarmVars, server, nodeId, announced, rival>>
      PROVE  Meaning(c) /\ SwarmStep
  BY <1>2, UnchangedRegistry DEF Meaning, Quiet
<1>3. CASE ClientStep(c)
  BY <1>2, <1>3 DEF ClientStep, Respond, Join, SeeEnd
<1>4. CASE \E m \in AppMessages : Send(c, m)
  BY <1>2, <1>4 DEF Send
<1>5. CASE Receive(c) \/ Go(c)
  BY <1>2, <1>5 DEF Receive, Go
<1> QED
  BY <1>1, <1>3, <1>4, <1>5

\* The device a handler serves, and the fields of the message it reads.
LEMMA Reading ==
  ASSUME LinkInv, NEW c \in Conns, server[c] = "serving"
  PROVE  /\ nodeId[c] \in Nodes /\ nodeId[c] = device[c] /\ c \notin Misconfigured
         /\ up[c] # <<>> => Head(up[c]) \in Messages
<1>1. Link(c)
  BY DEF LinkInv
<1> QED
  BY <1>1, SeqParts DEF Link, LinkType, ServerSide

LEMMA TailDiffers ==
  ASSUME NEW S, NEW q \in Seq(S), q # <<>>
  PROVE  Tail(q) # q
<1>1. Len(Tail(q)) = Len(q) - 1 /\ Len(q) \in Nat
  OBVIOUS
<1>2. \A n \in Nat : n - 1 # n
  OBVIOUS
<1> QED
  BY <1>1, <1>2, Zenon

\* A handler that reads a message, or returns, acts alone.
LEMMA ReaderActs ==
  ASSUME LinkInv, NEW c \in Conns, up[c] # <<>>,
         up' = [up EXCEPT ![c] = Tail(@)], server' = server
  PROVE  Acting = {c}
<1>1. Shape /\ up[c] \in Seq(Messages)
  BY DEF LinkInv, Link, LinkType
<1>2. Tail(up[c]) # up[c]
  BY <1>1, TailDiffers, Zenon
<1>3. up'[c] # up[c] /\ \A d \in Conns \ {c} : up'[d] = up[d]
  BY <1>1, <1>2 DEF Shape
<1>4. \A d \in Conns : server'[d] = server[d]
  OBVIOUS
<1> QED
  BY <1>3, <1>4 DEF Acting

LEMMA ReturnerActs ==
  ASSUME LinkInv, NEW c \in Conns, server[c] = "serving",
         server' = [server EXCEPT ![c] = "closed"], up' = up
  PROVE  Acting = {c}
BY DEF LinkInv, Shape, Acting

LEMMA ServerMeaning ==
  ASSUME LinkInv, TypeOK, NEW c \in Conns, ServerStep(c)
  PROVE  Meaning(c) /\ SwarmStep
<1>0. state = [n \in Nodes |-> state[n]]
  BY DEF TypeOK
<1>1. CASE Authenticate(c)
  <2>1. /\ server[c] = "challenged" /\ up[c] # <<>>
        /\ Head(up[c]) = AuthResponse(c, device[c])
        /\ announced' = announced
    BY <1>1 DEF Authenticate, LinkInv, Link, ServerSide
  <2>2. AuthResponse(c, device[c]).node = device[c]
    BY TokenProvesSecret
  <2>3. \/ Accept(c, Head(up[c]))
        \/ Refuse(c, Head(up[c]))
    BY <1>1 DEF Authenticate
  <2>4. CASE Accept(c, Head(up[c]))
    <3>1. Admits(c) /\ UNCHANGED swarmVars
      BY <2>1, <2>2, <2>4, UnchangedRegistry, Zenon DEF Accept, Admits
    <3> QED
      BY <3>1, UnchangedRegistry DEF Meaning
  <2>5. CASE Refuse(c, Head(up[c]))
    <3>1. BeforeServing(c) /\ UNCHANGED swarmVars
      BY <2>1, <2>5, UnchangedRegistry DEF Refuse, BeforeServing
    <3> QED
      BY <3>1, UnchangedRegistry DEF Meaning
  <2> QED
    BY <2>3, <2>4, <2>5
<1>2. CASE CloseEarly(c)
  <2>1. BeforeServing(c) /\ UNCHANGED swarmVars
    BY <1>2, UnchangedRegistry DEF CloseEarly, BeforeServing
  <2> QED
    BY <2>1, UnchangedRegistry DEF Meaning
<1>3. CASE HandleMismatch(c)
  <2>1. Drops(c) /\ UNCHANGED swarmVars
    BY <1>3, UnchangedRegistry DEF HandleMismatch, Handling, Drops
  <2> QED
    BY <2>1, UnchangedRegistry DEF Meaning
<1>4. CASE HandleOther(c)
  <2>1. Quiet /\ UNCHANGED swarmVars
    BY <1>4, UnchangedRegistry DEF HandleOther, Quiet
  <2> QED
    BY <2>1, UnchangedRegistry DEF Meaning
<1>5. CASE HandleAnnounce(c)
  <2> DEFINE m == Head(up[c])
  <2>1. /\ server[c] = "serving" /\ up[c] # <<>> /\ m.kind = "NodeAnnounce"
        /\ m.node = nodeId[c] /\ Announce(m.node, m.score)
        /\ announced' = [announced EXCEPT ![c] = TRUE]
        /\ rival' = [rival EXCEPT ![c] = Rivals(c, m.node) # {}]
        /\ UNCHANGED <<server, nodeId>> /\ up' = [up EXCEPT ![c] = Tail(@)]
        /\ Handling(c, "NodeAnnounce")
    BY <1>5 DEF HandleAnnounce, Handling
  <2>2. nodeId[c] \in Nodes /\ m \in Messages
    BY <2>1, Reading
  <2>3. m.score \in Composites
    BY <2>1, <2>2, MessageFields, FirstScoresAssumption
  <2> HIDE DEF m
  <2>4. Announce(nodeId[c], m.score)
    BY <2>1, Zenon
  <2>5. Registered' = Registered \cup {nodeId[c]}
    BY <1>0, <2>2, <2>4, AnnounceRegisters, Zenon
  <2>6. Registers(c)
    <3>1. Acting = {c}
      BY <2>1, ReaderActs
    <3> QED
      BY <2>1, <2>5, <3>1, Zenon DEF Registers
  <2>7. SwarmStep
    BY <2>2, <2>3, <2>4, Zenon DEF SwarmStep, Next
  <2> QED
    BY <2>6, <2>7 DEF Meaning
<1>6. CASE HandleStatus(c)
  <2> DEFINE m == Head(up[c])
  <2>1. /\ server[c] = "serving" /\ up[c] # <<>> /\ m.kind = "StatusUpdate"
        /\ \/ StatusUpdate(nodeId[c], m.score)
           \/ UNCHANGED swarmVars
        /\ UNCHANGED <<server, nodeId, announced, rival>>
    BY <1>6 DEF HandleStatus, Handling
  <2>2. nodeId[c] \in Nodes /\ m \in Messages
    BY <2>1, Reading
  <2>3. m.score \in Composites
    BY <2>1, <2>2, MessageFields
  <2> HIDE DEF m
  <2>4. CASE StatusUpdate(nodeId[c], m.score)
    <3>1. Registered' = Registered
      BY <1>0, <2>2, <2>4, StatusKeepsRegistered, Zenon
    <3>2. SwarmStep
      BY <2>2, <2>3, <2>4, Zenon DEF SwarmStep, Next
    <3> QED
      BY <2>1, <3>1, <3>2 DEF Meaning, Quiet
  <2>5. CASE UNCHANGED swarmVars
    BY <2>1, <2>5, UnchangedRegistry DEF Meaning, Quiet
  <2> QED
    BY <2>1, <2>4, <2>5
<1>7. CASE HandleHeartbeat(c)
  <2>1. /\ server[c] = "serving"
        /\ \/ Heartbeat(nodeId[c])
           \/ UNCHANGED swarmVars
        /\ UNCHANGED <<server, nodeId, announced, rival>>
    BY <1>7 DEF HandleHeartbeat, Handling
  <2>2. nodeId[c] \in Nodes
    BY <2>1, Reading
  <2>3. CASE Heartbeat(nodeId[c])
    <3>1. Registered' = Registered
      BY <2>3 DEF Heartbeat, Registered
    <3>2. SwarmStep
      BY <2>2, <2>3, Zenon DEF SwarmStep, Next
    <3> QED
      BY <2>1, <3>1, <3>2 DEF Meaning, Quiet
  <2>4. CASE UNCHANGED swarmVars
    BY <2>1, <2>4, UnchangedRegistry DEF Meaning, Quiet
  <2> QED
    BY <2>1, <2>3, <2>4
<1>8. ASSUME server[c] = "serving", Drain(nodeId[c]),
             \E place \in {"serving", "closed"} : server' = [server EXCEPT ![c] = place],
             announced' = [announced EXCEPT ![c] = FALSE],
             UNCHANGED <<nodeId, rival>>,
             Acting = {c}, Handling(c, "DrainRequest") \/ AtEnd(c)
      PROVE  Meaning(c) /\ SwarmStep
  <2>1. Registered' = Registered \ {nodeId[c]}
    BY <1>8, DrainRemoves
  <2>2. nodeId[c] \in Nodes
    BY <1>8, Reading
  <2>3. SwarmStep
    BY <1>8, <2>2, Zenon DEF SwarmStep, Next
  <2> QED
    BY <1>8, <2>1, <2>3 DEF Meaning, Removes
<1>9. CASE HandleDrain(c)
  <2>1. /\ server[c] = "serving" /\ Drain(nodeId[c]) /\ server' = server
        /\ announced' = [announced EXCEPT ![c] = FALSE] /\ UNCHANGED <<nodeId, rival>>
        /\ up[c] # <<>> /\ up' = [up EXCEPT ![c] = Tail(@)]
        /\ Handling(c, "DrainRequest")
    BY <1>9 DEF HandleDrain, Handling
  <2>2. server' = [server EXCEPT ![c] = "serving"]
    BY <2>1 DEF LinkInv, Shape
  <2>3. Acting = {c}
    BY <2>1, ReaderActs
  <2> QED
    BY <1>8, <2>1, <2>2, <2>3
<1>10. CASE Close(c)
  <2>1. /\ server[c] = "serving" /\ Drain(nodeId[c])
        /\ server' = [server EXCEPT ![c] = "closed"]
        /\ announced' = [announced EXCEPT ![c] = FALSE] /\ UNCHANGED <<nodeId, rival>>
        /\ AtEnd(c) /\ up' = up
    BY <1>10 DEF Close
  <2>2. Acting = {c}
    BY <2>1, ReturnerActs
  <2> QED
    BY <1>8, <2>1, <2>2
<1> QED
  BY <1>1, <1>2, <1>3, <1>4, <1>5, <1>6, <1>7, <1>9, <1>10, Zenon DEF ServerStep

\* A change of the registry is made by the handler that serves this device,
\* in the step that is for it.
ByItsHandler ==
  \A n \in Nodes : (n \in Registered) # (n \in Registered')
    => \E c \in Conns \ Misconfigured :
         /\ Acting = {c}
         /\ server[c] = "serving" /\ nodeId[c] = n /\ device[c] = n
         /\ IF n \in Registered' THEN Handling(c, "NodeAnnounce")
                                 ELSE Handling(c, "DrainRequest") \/ AtEnd(c)

LEMMA MeaningByHandler ==
  ASSUME LinkInv, NEW c \in Conns, Meaning(c)
  PROVE  ByItsHandler
<1>1. CASE Registered' = Registered
  BY <1>1 DEF ByItsHandler
<1>2. CASE Registers(c)
  <2>1. /\ server[c] = "serving" /\ Acting = {c} /\ Handling(c, "NodeAnnounce")
        /\ Registered' = Registered \cup {nodeId[c]}
    BY <1>2 DEF Registers
  <2>2. nodeId[c] = device[c] /\ c \notin Misconfigured
    BY <2>1, Reading
  <2>3. ASSUME NEW n \in Nodes, (n \in Registered) # (n \in Registered')
        PROVE  n = nodeId[c] /\ n \in Registered'
    BY <2>1, <2>3
  <2> QED
    BY <2>1, <2>2, <2>3 DEF ByItsHandler
<1>3. CASE Removes(c)
  <2>1. /\ server[c] = "serving" /\ Acting = {c}
        /\ Handling(c, "DrainRequest") \/ AtEnd(c)
        /\ Registered' = Registered \ {nodeId[c]}
    BY <1>3 DEF Removes
  <2>2. nodeId[c] = device[c] /\ c \notin Misconfigured
    BY <2>1, Reading
  <2>3. ASSUME NEW n \in Nodes, (n \in Registered) # (n \in Registered')
        PROVE  n = nodeId[c] /\ n \notin Registered'
    BY <2>1, <2>3
  <2> QED
    BY <2>1, <2>2, <2>3 DEF ByItsHandler
<1> QED
  BY <1>1, <1>2, <1>3 DEF Meaning, Quiet, BeforeServing, Admits, Drops

------------------------------------------------------------------------
(* The theorems.                                                           *)

ConnInv == IInv /\ LinkInv /\ EntryInv

LEMMA ConnInitEstablishes ==
  ASSUME ConnInit
  PROVE  ConnInv
<1>1. IInv
  BY InitEstablishes DEF ConnInit
<1>2. LinkInv
  BY LinkInit
<1>3. Registered = {} /\ \A c \in Conns : server[c] = "idle"
  BY DEF ConnInit, Init, Registered
<1>4. EntryInv
  BY <1>3 DEF EntryInv, RivalsKnown, RegisteredIsServed, ServedIsRegistered
<1> QED
  BY <1>1, <1>2, <1>4 DEF ConnInv

LEMMA ConnStepKeeps ==
  ASSUME ConnInv, [ConnNext]_connVars
  PROVE  ConnInv' /\ SwarmStep /\ ByItsHandler
<1>1. IInv /\ LinkInv /\ EntryInv /\ TypeOK
  BY DEF ConnInv, IInv
<1>2. CASE ConnNext
  <2>1. LinkInv'
    BY <1>1, <1>2, LinkStep
  <2>2. PICK c \in Conns : Meaning(c) /\ SwarmStep
    <3>1. PICK c \in Conns :
            \/ \E n \in Nodes : Connect(c, n)
            \/ ClientStep(c)
            \/ \E m \in AppMessages : Send(c, m)
            \/ Receive(c)
            \/ Go(c)
            \/ ServerStep(c)
      BY <1>2 DEF ConnNext
    <3> QED
      BY <1>1, <3>1, ClientMeaning, ServerMeaning, Zenon
  <2>3. EntryInv'
    BY <1>1, <2>2, QuietKeeps, BeforeServingKeeps, AdmitsKeeps, DropsKeeps,
       RegistersKeeps, RemovesKeeps, Zenon DEF Meaning
  <2>4. IInv'
    BY <1>1, <2>2, StepKeeps, Zenon DEF SwarmStep
  <2>5. ByItsHandler
    BY <1>1, <2>2, MeaningByHandler
  <2> QED
    BY <2>1, <2>2, <2>3, <2>4, <2>5 DEF ConnInv
<1>3. CASE UNCHANGED connVars
  <2>1. UNCHANGED swarmVars /\ UNCHANGED linkVars
    BY <1>3 DEF connVars
  <2>2. SwarmStep /\ Registered' = Registered
    BY <2>1, UnchangedRegistry
  <2>3. IInv'
    BY <1>1, <2>2, StepKeeps, Zenon DEF SwarmStep
  <2>4. LinkInv'
    <3>1. Shape'
      BY <1>1, <2>1 DEF LinkInv, Shape, linkVars
    <3>2. ASSUME NEW c \in Conns PROVE Link(c)'
      <4>1. LinkType(c)'
        BY <1>1, <2>1, Zenon DEF LinkInv, Link, LinkType, linkVars
      <4>2. ClientSide(c)' /\ ServerSide(c)'
        BY <1>1, <2>1, Zenon DEF LinkInv, Link, ClientSide, ServerSide, Joining, linkVars
      <4> QED
        BY <4>1, <4>2 DEF Link
    <3> QED
      BY <3>1, <3>2 DEF LinkInv
  <2>5. EntryInv'
    BY <1>1, <2>1, <2>2, QuietKeeps DEF Quiet, linkVars
  <2>6. ByItsHandler
    BY <2>2 DEF ByItsHandler
  <2> QED
    BY <2>2, <2>3, <2>4, <2>5, <2>6 DEF ConnInv
<1> QED
  BY <1>2, <1>3

LEMMA ConnInvGives ==
  ConnInv => ConnTypeOK /\ RegisteredIsServed /\ ServedIsRegistered /\ JoinOutcome
<1> SUFFICES ASSUME ConnInv
             PROVE  ConnTypeOK /\ RegisteredIsServed /\ ServedIsRegistered /\ JoinOutcome
  OBVIOUS
<1>1. Shape /\ \A c \in Conns : LinkType(c) /\ ClientSide(c)
  BY DEF ConnInv, LinkInv, Link
<1>2. ConnTypeOK
  BY <1>1 DEF Shape, LinkType, ConnTypeOK
<1>3. JoinOutcome
  BY <1>1 DEF ClientSide, JoinOutcome
<1> QED
  BY <1>2, <1>3 DEF ConnInv, EntryInv

\* The inductive invariant of the connections over the registry: the control
\* plane's own, what the two ends of a connection know of each other, and the
\* correspondence of entries and announcements.
THEOREM ConnectionsInvariant == ConnSpec => []ConnInv
<1>1. ConnInit => ConnInv
  BY ConnInitEstablishes
<1>2. ConnInv /\ [ConnNext]_connVars => ConnInv'
  BY ConnStepKeeps
<1> QED
  BY <1>1, <1>2, PTL DEF ConnSpec

\* Type correctness of every connection.
THEOREM ConnectionsTyped == ConnSpec => []ConnTypeOK
BY ConnectionsInvariant, ConnInvGives, PTL

\* Behind every entry there is a handler that is still serving its node, or
\* one that returned past the drain.
THEOREM EntriesAreServed == ConnSpec => []RegisteredIsServed
BY ConnectionsInvariant, ConnInvGives, PTL

\* A device that is served and has announced itself is registered, unless
\* another connection was served under its identity.
THEOREM ServedStayRegistered == ConnSpec => []ServedIsRegistered
BY ConnectionsInvariant, ConnInvGives, PTL

\* However the two sides of a handshake and the other connections interleave,
\* it fails only for the wrong secret, and else gives the cluster key.
THEOREM HandshakesSucceed == ConnSpec => []JoinOutcome
BY ConnectionsInvariant, ConnInvGives, PTL

\* Whether a device is registered changes only in a step of the handler that
\* has authenticated it and serves it: to registered as it reads an announce,
\* to unregistered as it reads a drain request or the end of the stream.
THEOREM EntriesAreTheirOwn == ConnSpec => OnlyItsDevice
<1>1. ConnInv /\ [ConnNext]_connVars => [ByItsHandler]_connVars
  BY ConnStepKeeps
<1> QED
  BY <1>1, ConnectionsInvariant, PTL DEF ConnSpec, OnlyItsDevice, ByItsHandler

\* The connections drive the registry only as Swarm says, so that everything
\* proved of Swarm holds of the registry behind the websockets.
THEOREM ConnectionsImplementSwarm == ConnSpec => Spec
<1>1. ConnInit => Init
  BY DEF ConnInit
<1>2. ConnInv /\ [ConnNext]_connVars => [Next]_swarmVars
  BY ConnStepKeeps DEF SwarmStep
<1> QED
  BY <1>1, <1>2, ConnectionsInvariant, PTL DEF ConnSpec, Spec
==========================================================================
