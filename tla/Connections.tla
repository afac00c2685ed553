-------------------------- MODULE Connections --------------------------
(***************************************************************************)
(* The websocket connections of src/src/transport.rs between the workers   *)
(* (connect_to_cluster, then the application with the stream it returned)  *)
(* and the master (one handle_socket task per socket), over the registry   *)
(* of Swarm.                                                               *)
(*                                                                         *)
(* A connection is two queues of messages.  Each handler reads its socket  *)
(* message by message, and what it does with one, the registry's handler   *)
(* and the answer included, touches nothing another task sees half done:   *)
(* one action.  A client may go at any time; of what it sent and the       *)
(* server has not read, a prefix still arrives, and then the stream ends.  *)
(* A device may connect again while the server still serves its old        *)
(* connection, as after a restart.                                         *)
(***************************************************************************)
EXTENDS Swarm, Crypto

CONSTANTS
  Conns,           \* the connections there will be, numbered in their order
  Misconfigured,   \* those whose client has another shared secret
  FirstScores,     \* the composites of the statuses that come with an announce
  MaxSends,        \* messages the applications send on their connections
  None             \* no device, no identity, no key

ASSUME ConnsAssumption ==
  /\ IsFiniteSet(Conns) /\ Conns = 1 .. Cardinality(Conns)
  /\ Misconfigured \subseteq Conns
ASSUME FirstScoresAssumption == FirstScores \subseteq Composites
ASSUME MaxSendsAssumption == MaxSends \in Nat
ASSUME NoneAssumption == None \notin Nodes

VARIABLES
  device,      \* the hostname of the connection's client
  client,      \* where connect_to_cluster or its application is
  clientKey,   \* the client's session_key
  clusterKey,  \* the cluster_key connect_to_cluster obtained
  server,      \* where handle_socket is
  nodeId,      \* its node_id
  serverKey,   \* its session_key
  up, down,    \* the messages under way to the server and to the client
  sent,        \* how many messages the applications sent
  announced,   \* history: the server handled an announce, no drain since
  rival        \* history: another handler held the same node_id meanwhile

linkVars == <<device, client, clientKey, clusterKey, server, nodeId,
              serverKey, up, down, sent, announced, rival>>
connVars == <<swarmVars, linkVars>>

SharedSecret == "shared_secret"
ClusterKey   == "cluster_key"
HandshakeAad == "cluster-key-handshake"

SecretOf(c) == IF c \in Misconfigured THEN "another secret" ELSE SharedSecret

\* generate_nonce and generate_ecdh_keys never give the same value twice.
NonceOf(c)     == c
ServerSecret(c) == <<"server", c>>
ClientSecret(c) == <<"client", c>>

ClientGoneFor(c) == client[c] \in {"failed", "gone"}
ServerEnded(c)   == server[c] \in {"closed", "dropped"}

\* The other handlers in their event loop under this identity.
Rivals(c, n) == {d \in Conns \ {c} : server[d] = "serving" /\ nodeId[d] = n}

------------------------------------------------------------------------
ConnInit ==
  /\ Init
  /\ device     = [c \in Conns |-> None]
  /\ client     = [c \in Conns |-> "idle"]
  /\ clientKey  = [c \in Conns |-> None]
  /\ clusterKey = [c \in Conns |-> None]
  /\ server     = [c \in Conns |-> "idle"]
  /\ nodeId     = [c \in Conns |-> None]
  /\ serverKey  = [c \in Conns |-> None]
  /\ up         = [c \in Conns |-> <<>>]
  /\ down       = [c \in Conns |-> <<>>]
  /\ sent       = 0
  /\ announced  = [c \in Conns |-> FALSE]
  /\ rival      = [c \in Conns |-> FALSE]

\* The SwarmMessages of the connection; NodeAnnounce and StatusUpdate carry a
\* profile and a status, of which the composite score is what counts.
AuthChallenge(c)   == [kind |-> "AuthChallenge", nonce |-> NonceOf(c),
                       public |-> PublicKey(ServerSecret(c))]
AuthResponse(c, n) == [kind |-> "AuthResponse", node |-> n,
                       token |-> SignHmac(NonceOf(c), SecretOf(c)),
                       public |-> PublicKey(ClientSecret(c))]
NodeAnnounce(n, x) == [kind |-> "NodeAnnounce", node |-> n, score |-> x]
StatusMessage(x)   == [kind |-> "StatusUpdate", score |-> x]
JoinResponse(key)  == [kind |-> "JoinResponse",
                       sealed |-> Encrypt(ClusterKey, key, HandshakeAad)]

\* What an application may send.  NodeAnnounce carries any device_id: the
\* type allows it, and handle_socket has a check for it.
AppMessages ==
  {NodeAnnounce(n, x) : n \in Nodes, x \in FirstScores}
    \cup {StatusMessage(x) : x \in Composites}
    \cup {[kind |-> k] : k \in {"Heartbeat", "DrainRequest", "RebalanceAck"}}

------------------------------------------------------------------------
(* The client.                                                             *)

\* connect_async and, on the other side, handle_socket up to its first wait:
\* the challenge is sent.
Connect(c, n) ==
  /\ client[c] = "idle"
  /\ \A d \in Conns : d < c => client[d] # "idle"
  /\ device' = [device EXCEPT ![c] = n]
  /\ client' = [client EXCEPT ![c] = "connecting"]
  /\ server' = [server EXCEPT ![c] = "challenged"]
  /\ down'   = [down EXCEPT ![c] = <<AuthChallenge(c)>>]
  /\ UNCHANGED <<swarmVars, clientKey, clusterKey, nodeId, serverKey, up, sent,
                 announced, rival>>

\* The challenge arrives: the session key, and then the response and the
\* announce without waiting between them.  The status of the announce has
\* the score x.
Respond(c, x) ==
  /\ client[c] = "connecting" /\ down[c] # <<>>
  /\ LET challenge == Head(down[c])
     IN  clientKey' = [clientKey EXCEPT ![c] =
           SessionKey(ClientSecret(c), challenge.public, challenge.nonce)]
  /\ client' = [client EXCEPT ![c] = "joining"]
  /\ down'   = [down EXCEPT ![c] = Tail(@)]
  /\ up'     = [up EXCEPT ![c] =
                  @ \o <<AuthResponse(c, device[c]), NodeAnnounce(device[c], x)>>]
  /\ UNCHANGED <<swarmVars, device, clusterKey, server, nodeId, serverKey, sent,
                 announced, rival>>

\* The message after the challenge has to be a JoinResponse whose cluster key
\* the session key opens; anything else is an error, and the stream is
\* dropped.
Join(c) ==
  /\ client[c] = "joining" /\ down[c] # <<>>
  /\ LET answer == Head(down[c])
         opens  == /\ answer.kind = "JoinResponse"
                   /\ CanDecrypt(answer.sealed, clientKey[c], HandshakeAad)
     IN  /\ client' = [client EXCEPT ![c] = IF opens THEN "joined" ELSE "failed"]
         /\ clusterKey' = [clusterKey EXCEPT ![c] =
                             IF opens THEN Decrypted(answer.sealed) ELSE None]
  /\ down' = [down EXCEPT ![c] = Tail(@)]
  /\ UNCHANGED <<swarmVars, device, clientKey, server, nodeId, serverKey, up, sent,
                 announced, rival>>

\* A joined application sends a message.
Send(c, m) ==
  /\ client[c] = "joined" /\ sent < MaxSends
  /\ up'   = [up EXCEPT ![c] = Append(@, m)]
  /\ sent' = sent + 1
  /\ UNCHANGED <<swarmVars, device, client, clientKey, clusterKey, server, nodeId,
                 serverKey, down, announced, rival>>

\* A joined application reads a RebalanceCommand, or another JoinResponse.
Receive(c) ==
  /\ client[c] = "joined" /\ down[c] # <<>>
  /\ down' = [down EXCEPT ![c] = Tail(@)]
  /\ UNCHANGED <<swarmVars, device, client, clientKey, clusterKey, server, nodeId,
                 serverKey, up, sent, announced, rival>>

\* The client sees the end of a stream whose server has returned.
SeeEnd(c) ==
  /\ client[c] \in {"connecting", "joining", "joined"}
  /\ ServerEnded(c) /\ down[c] = <<>>
  /\ client' = [client EXCEPT ![c] = IF @ = "joined" THEN "gone" ELSE "failed"]
  /\ UNCHANGED <<swarmVars, device, clientKey, clusterKey, server, nodeId,
                 serverKey, up, down, sent, announced, rival>>

\* The client goes: it closes the socket or crashes.  The last messages it
\* sent may be lost with it.
Go(c) ==
  /\ client[c] \in {"connecting", "joining", "joined"}
  /\ client' = [client EXCEPT ![c] = "gone"]
  /\ \E arriving \in 0 .. Len(up[c]) :
       up' = [up EXCEPT ![c] = SubSeq(@, 1, arriving)]
  /\ down' = [down EXCEPT ![c] = <<>>]
  /\ UNCHANGED <<swarmVars, device, clientKey, clusterKey, server, nodeId,
                 serverKey, sent, announced, rival>>

------------------------------------------------------------------------
(* The server.                                                             *)

\* The answer of a handler; nobody reads it when the client is gone.
Answer(c, message) ==
  down' = [down EXCEPT ![c] = IF ClientGoneFor(c) THEN @ ELSE Append(@, message)]

\* Mutant: the session key is not derived.
AcceptWithoutKey(c, response) ==
  /\ server' = [server EXCEPT ![c] = "serving"]
  /\ nodeId' = [nodeId EXCEPT ![c] = response.node]
  /\ rival'  = [d \in Conns |-> rival[d] \/ d \in Rivals(c, response.node)]
  /\ UNCHANGED <<swarmVars, serverKey>>

\* The token is right: the connection goes on under the identity it names.
Accept(c, response) ==
  /\ server'    = [server EXCEPT ![c] = "serving"]
  /\ nodeId'    = [nodeId EXCEPT ![c] = response.node]
  /\ serverKey' = [serverKey EXCEPT ![c] =
                     SessionKey(ServerSecret(c), response.public, NonceOf(c))]
  /\ rival'     = [d \in Conns |-> rival[d] \/ d \in Rivals(c, response.node)]
  /\ UNCHANGED swarmVars

\* Mutant: a refused handshake ends with a drain, like a served connection.
RefuseAndDrain(c, response) ==
  /\ server' = [server EXCEPT ![c] = "closed"]
  /\ Drain(response.node)
  /\ UNCHANGED <<nodeId, serverKey, rival>>

\* Mutant: after a wrong token the server waits for a better one.
RefuseAndWait(c, response) ==
  UNCHANGED <<swarmVars, server, nodeId, serverKey, rival>>

\* It is not: handle_socket returns, and nobody is drained.
Refuse(c, response) ==
  /\ server' = [server EXCEPT ![c] = "closed"]
  /\ UNCHANGED <<swarmVars, nodeId, serverKey, rival>>

\* The first message of the client is there.
Authenticate(c) ==
  /\ server[c] = "challenged" /\ up[c] # <<>>
  /\ LET first == Head(up[c])
     IN  IF /\ first.kind = "AuthResponse"
            /\ VerifyHmac(NonceOf(c), SharedSecret, first.token)
           THEN Accept(c, first)
           ELSE Refuse(c, first)
  /\ up' = [up EXCEPT ![c] = Tail(@)]
  /\ UNCHANGED <<device, client, clientKey, clusterKey, down, sent, announced>>

\* The event loop has a message of the kind before it.
Handling(c, kind) ==
  server[c] = "serving" /\ up[c] # <<>> /\ Head(up[c]).kind = kind

\* Mutant: the identity of the announce is not compared.
HandleAnyAnnounce(c) ==
  LET m == Head(up[c])
  IN  /\ Handling(c, "NodeAnnounce")
      /\ up' = [up EXCEPT ![c] = Tail(@)]
      /\ Announce(m.node, m.score)
      /\ announced' = [announced EXCEPT ![c] = TRUE]
      /\ rival' = [rival EXCEPT ![c] = Rivals(c, m.node) # {}]
      /\ Answer(c, JoinResponse(serverKey[c]))
      /\ UNCHANGED <<device, client, clientKey, clusterKey, server, nodeId, serverKey, sent>>

\* NodeAnnounce under the authenticated identity: the registry, and the
\* cluster key under the session key.
HandleAnnounce(c) ==
  LET m == Head(up[c])
  IN  /\ Handling(c, "NodeAnnounce") /\ m.node = nodeId[c]
      /\ up' = [up EXCEPT ![c] = Tail(@)]
      /\ Announce(m.node, m.score)
      /\ announced' = [announced EXCEPT ![c] = TRUE]
      /\ rival' = [rival EXCEPT ![c] = Rivals(c, m.node) # {}]
      /\ Answer(c, JoinResponse(serverKey[c]))
      /\ UNCHANGED <<device, client, clientKey, clusterKey, server, nodeId, serverKey, sent>>

\* NodeAnnounce under another identity: handle_socket returns from inside the
\* loop, past the drain that follows it.
HandleMismatch(c) ==
  /\ Handling(c, "NodeAnnounce") /\ Head(up[c]).node # nodeId[c]
  /\ server' = [server EXCEPT ![c] = "dropped"]
  /\ UNCHANGED <<swarmVars, device, client, clientKey, clusterKey, nodeId, serverKey,
                 up, down, sent, announced, rival>>

\* StatusUpdate: of a node that is not registered the error is swallowed; a
\* RebalanceCommand goes back when the node's own layers changed.
HandleStatus(c) ==
  LET n == nodeId[c]
  IN  /\ Handling(c, "StatusUpdate")
      /\ up' = [up EXCEPT ![c] = Tail(@)]
      /\ IF n \in Registered
           THEN /\ StatusUpdate(n, Head(up[c]).score)
                /\ IF assigned'[n] # assigned[n]
                     THEN Answer(c, [kind |-> "RebalanceCommand"])
                     ELSE UNCHANGED down
           ELSE UNCHANGED <<swarmVars, down>>
      /\ UNCHANGED <<device, client, clientKey, clusterKey, server, nodeId, serverKey,
                     sent, announced, rival>>

\* Heartbeat, which the registry ignores for an unknown identifier.
HandleHeartbeat(c) ==
  /\ Handling(c, "Heartbeat")
  /\ up' = [up EXCEPT ![c] = Tail(@)]
  /\ IF nodeId[c] \in Registered THEN Heartbeat(nodeId[c]) ELSE UNCHANGED swarmVars
  /\ UNCHANGED <<device, client, clientKey, clusterKey, server, nodeId, serverKey,
                 down, sent, announced, rival>>

\* DrainRequest: the node leaves, the connection stays.
HandleDrain(c) ==
  /\ Handling(c, "DrainRequest")
  /\ up' = [up EXCEPT ![c] = Tail(@)]
  /\ Drain(nodeId[c])
  /\ announced' = [announced EXCEPT ![c] = FALSE]
  /\ UNCHANGED <<device, client, clientKey, clusterKey, server, nodeId, serverKey,
                 down, sent, rival>>

\* Every other message is read and forgotten.
HandleOther(c) ==
  /\ Handling(c, "RebalanceAck")
  /\ up' = [up EXCEPT ![c] = Tail(@)]
  /\ UNCHANGED <<swarmVars, device, client, clientKey, clusterKey, server, nodeId,
                 serverKey, down, sent, announced, rival>>

\* The stream is at its end: nothing more will be read.
AtEnd(c) == ClientGoneFor(c) /\ up[c] = <<>>

\* The stream ends before the client has authenticated itself.
CloseEarly(c) ==
  /\ server[c] = "challenged" /\ AtEnd(c)
  /\ server' = [server EXCEPT ![c] = "closed"]
  /\ UNCHANGED <<swarmVars, device, client, clientKey, clusterKey, nodeId, serverKey,
                 up, down, sent, announced, rival>>

\* Mutant: the end of the stream is the end of the handler.
CloseWithoutDrain(c) ==
  /\ server[c] = "serving" /\ AtEnd(c)
  /\ server' = [server EXCEPT ![c] = "closed"]
  /\ announced' = [announced EXCEPT ![c] = FALSE]
  /\ UNCHANGED <<swarmVars, device, client, clientKey, clusterKey, nodeId, serverKey,
                 up, down, sent, rival>>

\* The stream ends under the event loop: the node is drained, by its
\* identifier, whoever else is connected under it.
Close(c) ==
  /\ server[c] = "serving" /\ AtEnd(c)
  /\ server' = [server EXCEPT ![c] = "closed"]
  /\ Drain(nodeId[c])
  /\ announced' = [announced EXCEPT ![c] = FALSE]
  /\ UNCHANGED <<device, client, clientKey, clusterKey, nodeId, serverKey,
                 up, down, sent, rival>>

------------------------------------------------------------------------
ServerStep(c) ==
  \/ Authenticate(c) \/ CloseEarly(c) \/ Close(c)
  \/ HandleAnnounce(c) \/ HandleMismatch(c) \/ HandleStatus(c)
  \/ HandleHeartbeat(c) \/ HandleDrain(c) \/ HandleOther(c)

\* What connect_to_cluster does by itself.
ClientStep(c) ==
  \/ \E x \in FirstScores : Respond(c, x)
  \/ Join(c)
  \/ SeeEnd(c)

ConnNext ==
  \E c \in Conns :
    \/ \E n \in Nodes : Connect(c, n)
    \/ ClientStep(c)
    \/ \E m \in AppMessages : Send(c, m)
    \/ Receive(c)
    \/ Go(c)
    \/ ServerStep(c)

ConnSpec == ConnInit /\ [][ConnNext]_connVars

\* handle_socket can go on: there is a message to read, or the stream ended.
ServerReady(c) ==
  server[c] \in {"challenged", "serving"} /\ (up[c] # <<>> \/ AtEnd(c))

\* Both ends read their streams on: the server's task and connect_to_cluster
\* await nothing else.  Nobody has to connect, to send or to go.  The server's
\* part is WF_connVars(ServerStep(c)), with ServerReady(c) for its ENABLED.
FairConnSpec ==
  /\ ConnSpec
  /\ \A c \in Conns :
       /\ []<>(~ ServerReady(c)) \/ []<><<ServerStep(c)>>_connVars
       /\ WF_connVars(ClientStep(c))

------------------------------------------------------------------------
(* Properties.                                                             *)

Messages ==
  AppMessages
    \cup {AuthResponse(c, n) : c \in Conns, n \in Nodes}

ServerSession(c) == SessionKey(ServerSecret(c), PublicKey(ClientSecret(c)), NonceOf(c))
ClientSession(c) == SessionKey(ClientSecret(c), PublicKey(ServerSecret(c)), NonceOf(c))

Answers(c) ==
  {AuthChallenge(c), JoinResponse(ServerSession(c)), [kind |-> "RebalanceCommand"]}

\* Every variable of a connection holds a value of its kind.
ConnTypeOK ==
  /\ device \in [Conns -> Nodes \cup {None}]
  /\ client \in [Conns -> {"idle", "connecting", "joining", "joined", "failed", "gone"}]
  /\ server \in [Conns -> {"idle", "challenged", "serving", "closed", "dropped"}]
  /\ nodeId \in [Conns -> Nodes \cup {None}]
  /\ up \in [Conns -> Seq(Messages)]
  /\ \A c \in Conns : /\ clientKey[c] \in {None, ClientSession(c)}
                      /\ serverKey[c] \in {None, ServerSession(c)}
                      /\ down[c] \in Seq(Answers(c))
  /\ clusterKey \in [Conns -> {None, ClusterKey}]
  /\ sent \in 0 .. MaxSends
  /\ announced \in [Conns -> BOOLEAN]
  /\ rival \in [Conns -> BOOLEAN]

\* The registry holds no node that nobody speaks for: whoever is registered
\* announced itself on a connection that is still served, or on one that
\* ended by the return for a mismatched identity, which leaves the entry.
RegisteredIsServed ==
  \A n \in Registered : \E c \in Conns :
    announced[c] /\ nodeId[c] = n /\ server[c] \in {"serving", "dropped"}

\* A device that announced itself on a connection stays registered as long as
\* the connection is served and it does not ask to drain, unless another
\* handler had its identity meanwhile: that one's close drains the new
\* registration too.
ServedIsRegistered ==
  \A c \in Conns :
    server[c] = "serving" /\ announced[c] /\ ~ rival[c] => nodeId[c] \in Registered

\* connect_to_cluster fails only for the wrong secret, and when it returns it
\* has the cluster key and the master has authenticated this device on this
\* connection, whatever the others do and however the two sides interleave.
JoinOutcome ==
  \A c \in Conns :
    /\ client[c] = "failed" => c \in Misconfigured
    /\ client[c] = "joined" => /\ c \notin Misconfigured
                              /\ clusterKey[c] = ClusterKey
                              /\ nodeId[c] = device[c]

\* The connection a step is taken on: a message of it is sent or read, or its
\* handler starts or returns.
Acting == {c \in Conns : up'[c] # up[c] \/ server'[c] # server[c]}

\* A node enters or leaves the registry only in a step of the one handler that
\* serves this very device and has checked its secret: it enters as this
\* handler reads an announce, and leaves as this handler reads a drain request
\* or the end of its stream.  Neither the end of a refused handshake nor a
\* mismatched announce touches the entry it names, and no late status or
\* heartbeat brings one back, also while the device has a served connection.
OnlyItsDevice ==
  [][ \A n \in Nodes : (n \in Registered) # (n \in Registered')
        => \E c \in Conns \ Misconfigured :
             /\ Acting = {c}
             /\ server[c] = "serving" /\ nodeId[c] = n /\ device[c] = n
             /\ IF n \in Registered' THEN Handling(c, "NodeAnnounce")
                                     ELSE Handling(c, "DrainRequest") \/ AtEnd(c) ]_connVars

\* Every client of the device is gone and no handler of it was dropped.
Abandoned(n) ==
  /\ \A c \in Conns : device[c] = n => ClientGoneFor(c)
  /\ \A c \in Conns : nodeId[c] = n => server[c] # "dropped"

\* A device whose clients are all gone leaves the registry, whatever was still
\* under way from them, or connects again.
GoneIsForgotten ==
  \A n \in Nodes :
    Abandoned(n) /\ n \in Registered ~> n \notin Registered \/ ~ Abandoned(n)

\* connect_to_cluster comes to an end.
HandshakeEnds ==
  \A c \in Conns :
    client[c] = "connecting" ~> client[c] \in {"joined", "failed", "gone"}
========================================================================
