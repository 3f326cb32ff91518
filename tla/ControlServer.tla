------------------------------ MODULE ControlServer ------------------------------
(***************************************************************************)
(* The server as its host and a client meet it: ControlServerBuilder,      *)
(* build and serve (control-api/src/server.rs), GET /key, POST /ts2021 and *)
(* the task the upgrade spawns (control-core/src/server/mod.rs), with      *)
(* noise::accept and write_early_noise (noise/src/responder.rs), whose     *)
(* writes go to the raw socket first and through FramedIo's buffer then.   *)
(*                                                                         *)
(* A handler and the task it spawns run concurrently, and each await is a  *)
(* step; both outlive the serve() that took the connection. Clients are    *)
(* the environment: they keep the key they fetched, send requests well     *)
(* formed or not, read when they like and go away at any time.             *)
(***************************************************************************)
EXTENDS NoiseResponder, Sequences, SequencesExt

CONSTANTS
    Connection,   \* connections at a time
    Configured,   \* the key given to the builder's server_key(), or None
    BadRequest,   \* requests that are not an up-to-date client's
    SocketBuffer, \* messages a socket takes that its client has not read
    HostSteps     \* what the host may do after the first serve()

ASSUME ControlServerAssumption ==
    /\ Configured \in ServerKey \cup {None}
    /\ SocketBuffer \in Nat \ {0}
    /\ HostSteps \subseteq {"stop", "rebuild", "exit"}

(* A request of POST /ts2021: `upgrade` and `handshake` are the two headers,*)
(* None where absent; `connection` says that hyper sees an upgrade request. *)
Request ==
    [upgrade : {None, "empty", "token"}, connection : BOOLEAN,
     handshake : Initiation \cup {None}]

ClientRequest(m, v, key) ==
    [upgrade |-> "token", connection |-> TRUE,
     handshake |-> Initiate(m, v, key)]

(* After the 101, in their order: msg2 in two writes, EarlyNoise, and the   *)
(* answer to a /machine request.                                            *)
Dialogue == <<"101", "header", "response", "early", "{}">>
Message == {Dialogue[i] : i \in 1..5}

Connected ==
    [key : ServerKey,               \* the ServerState its handlers were given
     request : Request \cup {None}, \* what it asked of /ts2021
     status : {"none", "101", "400", "500"}, \* what the handler answered
     task : {"none", "upgrade", "accept", "header", "response", "early",
             "flush", "serving", "ended"}, \* what the spawned task does next
     session : Session \cup {None}, \* its Noise session
     error : NoiseError \cup {"none"}, \* what ended it
     buffered : Seq(Message),       \* what Framed holds for the socket
     wire : Seq(Message \cup {"400", "500"}), \* history: what the socket took
     taken : Nat,                   \* how much of it the client has read
     asked : BOOLEAN,               \* the client has sent a /machine request
     gone : BOOLEAN,                \* the client has closed its end, or broken
                                    \* HTTP/2 in the tunnel
     draining : BOOLEAN]            \* the serve() that took it is dropped

ASSUME RequestAssumption ==
    /\ BadRequest \subseteq Request
    /\ None \notin Request /\ None \notin Connected

VARIABLES
    server_key, \* ControlServer::server_key, None where there is no handle
    listening,  \* its serve() is past the bind
    used,       \* history: the keys there have been
    reply,      \* the answer to a machine's GET /key on its way, or None
    cached,     \* the key a machine holds, or None
    conn        \* the connections, None for one that is free

host == <<server_key, listening, used>>
clients == <<reply, cached>>
vars == <<host, clients, conn>>

TypeOK ==
    /\ server_key \in ServerKey \cup {None}
    /\ listening \in BOOLEAN
    /\ used \subseteq ServerKey
    /\ reply \in [Machine -> ServerKey \cup {None}]
    /\ cached \in [Machine -> ServerKey \cup {None}]
    /\ conn \in [Connection -> Connected \cup {None}]

Init ==
    /\ server_key = None
    /\ listening = FALSE
    /\ used = {}
    /\ reply = [m \in Machine |-> None]
    /\ cached = [m \in Machine |-> None]
    /\ conn = [c \in Connection |-> None]

-----------------------------------------------------------------------------
(* The host.                                                                *)

(* build: the configured key, or a fresh one.                               *)
FreshAlways == ServerKey \ used \* faulty: server_key() is dropped

KeyChoice == IF Configured = None THEN ServerKey \ used ELSE {Configured}

Live(c) == conn[c] # None

(* While serve() runs it borrows the handle; afterwards the host may build  *)
(* another. A build without a store fails and makes none.                   *)
Build ==
    /\ ~listening
    /\ server_key = None \/ "rebuild" \in HostSteps
    /\ server_key' \in KeyChoice
    /\ used' = used \cup {server_key'}
    /\ UNCHANGED <<listening, clients, conn>>

(* serve: a bind that fails leaves the handle as it is, to be tried again.  *)
Serve ==
    /\ server_key # None /\ ~listening
    /\ listening' = TRUE
    /\ UNCHANGED <<server_key, used, clients, conn>>

(* The host drops the future of serve(): the listener closes. axum tells the*)
(* connections that are still HTTP to finish; spawned tasks go on.          *)
Stop ==
    /\ "stop" \in HostSteps
    /\ listening
    /\ listening' = FALSE
    /\ conn' = [c \in Connection |->
                   IF Live(c) /\ conn[c].task = "none"
                   THEN [conn[c] EXCEPT !.draining = TRUE]
                   ELSE conn[c]]
    /\ UNCHANGED <<server_key, used, clients>>

(* The process ends; an answer it has sent may still arrive. The keys left  *)
(* in ServerKey bound the restarts.                                         *)
Exit ==
    /\ "exit" \in HostSteps
    /\ server_key # None /\ KeyChoice # {}
    /\ server_key' = None
    /\ listening' = FALSE
    /\ conn' = [c \in Connection |-> None]
    /\ UNCHANGED <<used, clients>>

(* axum gives a connection its own clone of the state.                      *)
Fresh(key) ==
    [key |-> key, request |-> None, status |-> "none", task |-> "none",
     session |-> None, error |-> "none", buffered |-> <<>>, wire |-> <<>>,
     taken |-> 0, asked |-> FALSE, gone |-> FALSE, draining |-> FALSE]

Connect(c) ==
    /\ listening
    /\ conn[c] = None
    /\ conn' = [conn EXCEPT ![c] = Fresh(server_key)]
    /\ UNCHANGED <<host, clients>>

Idle(c) == Live(c) /\ conn[c].request = None /\ ~conn[c].gone

-----------------------------------------------------------------------------
(* GET /key.                                                                *)

get_key(c, m) ==
    /\ Idle(c)
    /\ reply[m] = None
    /\ reply' = [reply EXCEPT ![m] = conn[c].key]
    /\ UNCHANGED <<host, cached, conn>>

(* The client keeps the key it received.                                    *)
KeyReceived(m) ==
    /\ reply[m] # None
    /\ cached' = [cached EXCEPT ![m] = reply[m]]
    /\ reply' = [reply EXCEPT ![m] = None]
    /\ UNCHANGED <<host, conn>>

-----------------------------------------------------------------------------
(* POST /ts2021: the handler answers and, if it answers 101, has spawned a  *)
(* task. hyper writes the answer.                                           *)

Answer(req) ==
    IF req.upgrade \in {None, "empty"} THEN "500"
    ELSE IF req.handshake = None THEN "400"
    ELSE "101"

(* From here on only connections change.                                    *)
Only(change) == change /\ UNCHANGED <<host, clients>>

ts2021_upgrade(c, req) ==
    /\ Idle(c)
    /\ Only(conn' = [conn EXCEPT
          ![c].request = req,
          ![c].status = Answer(req),
          ![c].task = IF Answer(req) = "101" THEN "upgrade" ELSE "none"])

Room(c) == Len(conn[c].wire) - conn[c].taken < SocketBuffer

Respond(c) ==
    /\ Live(c) /\ ~conn[c].gone
    /\ conn[c].status # "none" /\ conn[c].wire = <<>>
    /\ Only(conn' = [conn EXCEPT ![c].wire = <<conn[c].status>>])

-----------------------------------------------------------------------------
(* The spawned task.                                                        *)

At(c, point) == Live(c) /\ conn[c].task = point

Ends(c, e) ==
    Only(conn' = [conn EXCEPT ![c].task = "ended", ![c].session = None,
                              ![c].error = e, ![c].buffered = <<>>])

(* on_upgrade: once the 101 is out, hyper gives the connection away.        *)
UpgradedAtOnce(c) == TRUE \* faulty: not awaited

Upgraded(c) == conn[c].request.connection /\ conn[c].wire # <<>>

Upgrade(c) ==
    /\ At(c, "upgrade")
    /\ Upgraded(c)
    /\ Only(conn' = [conn EXCEPT ![c].task = "accept"])

UpgradeFails(c) ==
    /\ At(c, "upgrade")
    /\ \/ ~conn[c].request.connection
       \/ conn[c].gone /\ conn[c].wire = <<>>
    /\ Ends(c, "none")

(* The key the task moved in when it was spawned.                           *)
OwnKeyOfRunning(c) == server_key \* faulty: looked up when the task runs

OwnKey(c) == conn[c].key

(* accept, up to its first write.                                           *)
Accept(c) ==
    /\ At(c, "accept")
    /\ Rejection(conn[c].request.handshake, OwnKey(c)) = "none"
    /\ Only(conn' = [conn EXCEPT
          ![c].session = Accepted(conn[c].request.handshake, OwnKey(c)),
          ![c].task = "header"])

RejectAnswered(c) == \* faulty: a header is written before the last check
    /\ At(c, "accept")
    /\ LET e == Rejection(conn[c].request.handshake, OwnKey(c))
       IN  /\ e # "none"
           /\ Only(conn' = [conn EXCEPT ![c].task = "ended", ![c].error = e,
                                        ![c].wire = Append(@, "header")])

Reject(c) ==
    /\ At(c, "accept")
    /\ LET e == Rejection(conn[c].request.handshake, OwnKey(c))
       IN  e # "none" /\ Ends(c, e)

(* msg2: each write_all of accept waits until the socket takes it. The flush*)
(* after them has nothing to do: a socket keeps no buffer of its own.       *)
Write(c) ==
    /\ At(c, "header") \/ At(c, "response")
    /\ Room(c)
    /\ Only(conn' = [conn EXCEPT
          ![c].wire = Append(@, conn[c].task),
          ![c].task = IF @ = "header" THEN "response" ELSE "early"])

(* write_early_noise: write_all leaves the frame with Framed, flush sends   *)
(* it.                                                                      *)
WriteEarlyNoise(c) ==
    /\ At(c, "early")
    /\ Only(conn' = [conn EXCEPT ![c].buffered = Append(@, "early"),
                                 ![c].task = "flush"])

(* FramedIo: a poll_flush passes on what the socket takes.                  *)
Transmit(c) ==
    /\ At(c, "flush") \/ At(c, "serving")
    /\ conn[c].buffered # <<>>
    /\ Room(c)
    /\ Only(conn' = [conn EXCEPT ![c].wire = Append(@, Head(conn[c].buffered)),
                                 ![c].buffered = Tail(@)])

FlushedAtOnce(c) == TRUE \* faulty: not flushed

Flushed(c) == conn[c].buffered = <<>>

ServeConnection(c) ==
    /\ At(c, "flush")
    /\ Flushed(c)
    /\ Only(conn' = [conn EXCEPT ![c].task = "serving"])

WriteFails(c) ==
    /\ \E point \in {"header", "response", "flush"} : At(c, point)
    /\ conn[c].gone
    /\ Ends(c, "Io")

(* The answer is given to FramedIo. One request per connection: it is       *)
(* always the same.                                                         *)
handle_machine(c) ==
    /\ At(c, "serving")
    /\ conn[c].asked
    /\ "{}" \notin Range(conn[c].buffered \o conn[c].wire)
    /\ Only(conn' = [conn EXCEPT ![c].buffered = Append(@, "{}")])

(* serve_connection returns: the client is done, or is answered with an     *)
(* HTTP/2 error and read no further.                                        *)
Hangup(c) ==
    /\ At(c, "serving")
    /\ conn[c].gone
    /\ Ends(c, "none")

-----------------------------------------------------------------------------
(* The client's end, and the connection's.                                  *)

Take(c) ==
    /\ Live(c) /\ ~conn[c].gone
    /\ conn[c].taken < Len(conn[c].wire)
    /\ Only(conn' = [conn EXCEPT ![c].taken = @ + 1])

(* A client needs msg2 to encrypt a request.                                *)
Ask(c) ==
    /\ Live(c) /\ ~conn[c].gone /\ ~conn[c].asked
    /\ conn[c].taken >= 3
    /\ Only(conn' = [conn EXCEPT ![c].asked = TRUE])

Leave(c) ==
    /\ Live(c) /\ ~conn[c].gone
    /\ Only(conn' = [conn EXCEPT ![c].gone = TRUE])

(* An error is an answer like others: the connection may be used again, by  *)
(* a client quick enough also when it is draining.                          *)
KeepAlive(c) ==
    /\ Live(c)
    /\ conn[c].wire \in {<<"400">>, <<"500">>}
    /\ conn[c].taken = 1
    /\ Only(conn' = [conn EXCEPT ![c] =
          [Fresh(conn[c].key) EXCEPT !.draining = conn[c].draining]])

(* A draining connection is closed between two requests.                    *)
Drained(c) ==
    /\ conn[c].draining
    /\ conn[c].request = None \/ conn[c].wire # <<>>

Close(c) ==
    /\ Live(c)
    /\ \/ conn[c].task = "none" /\ (conn[c].gone \/ Drained(c))
       \/ conn[c].task = "ended"
    /\ Only(conn' = [conn EXCEPT ![c] = None])

-----------------------------------------------------------------------------

ClientRequests ==
    {ClientRequest(m, v, cached[m]) :
        m \in {m \in Machine : cached[m] # None}, v \in Capver}

ServerStep(c) ==
    \/ Respond(c) \/ Upgrade(c) \/ UpgradeFails(c) \/ Accept(c) \/ Reject(c)
    \/ Write(c) \/ WriteEarlyNoise(c) \/ Transmit(c) \/ ServeConnection(c)
    \/ WriteFails(c) \/ handle_machine(c) \/ Hangup(c)

ClientStep(c) ==
    \/ \E m \in Machine : get_key(c, m)
    \/ \E req \in ClientRequests \cup BadRequest : ts2021_upgrade(c, req)
    \/ Take(c) \/ Ask(c) \/ Leave(c)

Next ==
    \/ Build \/ Serve \/ Stop \/ Exit
    \/ \E m \in Machine : KeyReceived(m)
    \/ \E c \in Connection :
          Connect(c) \/ ServerStep(c) \/ ClientStep(c) \/ KeepAlive(c) \/ Close(c)

Spec == Init /\ [][Next]_vars

(* The runtime runs every task that can go on.                              *)
Fairness == \A c \in Connection : WF_vars(ServerStep(c))

FairSpec == Spec /\ Fairness

-----------------------------------------------------------------------------
(* Properties.                                                              *)

(* A session (accept, responder.rs) is one both ends agree on: its server   *)
(* is the one that took the connection, its peer the machine that sealed    *)
(* the initiation, and its version, at least the minimum, the one that      *)
(* machine mixed in. Of a message that is cut short nothing is made.        *)
SessionAgreed ==
    \A c \in Connection :
        Live(c) /\ conn[c].session # None =>
            LET sealed == conn[c].request.handshake.payload
                session == conn[c].session
            IN  /\ sealed.intact
                /\ conn[c].request.handshake.length >= INITIATION_LEN
                /\ session = [server |-> sealed.to, peer |-> sealed.from,
                              capver |-> sealed.prologue]
                /\ session.server = conn[c].key
                /\ session.capver >= MIN_SUPPORTED_CAPABILITY_VERSION

(* No check of accept has rejected it.                                      *)
Unhindered(c) == conn[c].error \in {"none", "Io"}

(* A client reads 101, msg2, EarlyNoise and HTTP/2 in this order, or an     *)
(* error status and nothing else (ts2021_upgrade and run_noise_connection,  *)
(* server/mod.rs): the task that writes does not overtake the handler, the  *)
(* raw writes of accept not those of FramedIo, and HTTP/2 does not begin    *)
(* before EarlyNoise is out. A client that a check of accept rejects has had*)
(* its 101, of which nothing can be taken back, and is sent nothing more.   *)
WireInOrder ==
    \A c \in Connection : Live(c) =>
        /\ \/ IsPrefix(conn[c].wire \o conn[c].buffered, Dialogue)
           \/ conn[c].wire \in {<<"400">>, <<"500">>}
        /\ conn[c].task = "serving" => "early" \in Range(conn[c].wire)
        /\ ~Unhindered(c) => conn[c].wire \o conn[c].buffered = <<"101">>

(* The request of an up-to-date client, whatever follows its payload.       *)
Asks(req, m, v, key) ==
    /\ req # None
    /\ req.handshake # None
    /\ req.handshake.length >= INITIATION_LEN
    /\ [req EXCEPT !.handshake.length = INITIATION_LEN] = ClientRequest(m, v, key)

(* A client of a supported version that holds one of the keys.              *)
Supported(c, held) ==
    /\ Live(c)
    /\ \E m \in Machine, v \in Capver, key \in held :
          /\ v >= MIN_SUPPORTED_CAPABILITY_VERSION
          /\ Asks(conn[c].request, m, v, key)

(* A client that holds the key of the server that took its connection and   *)
(* speaks a supported version is rejected by none of the checks of accept   *)
(* (responder.rs), also when the host has stopped or replaced that server   *)
(* before the spawned task comes to run them.                               *)
Current(c) == Supported(c, {conn[c].key})

CurrentClientAccepted ==
    \A c \in Connection : Live(c) /\ Current(c) => Unhindered(c)

(* With a key given to the builder's server_key (server.rs), no handshake   *)
(* fails for the key a client fetched, from whichever run of the server and *)
(* however late it arrived.                                                 *)
FetchedKeyAccepted ==
    \A c \in Connection : Supported(c, ServerKey) => Unhindered(c)

(* Every connection that is upgraded comes to be served or ends, that of a  *)
(* client with the current key is served, and a request inside the tunnel   *)
(* is answered (run_noise_connection, handle_machine, server/mod.rs):       *)
(* unless the client leaves or stops reading, or the process ends. It stops *)
(* neither with serve() nor with the server's replacement.                  *)
Departed(c) == ~Live(c) \/ conn[c].gone
Answered(c) == Live(c) /\ conn[c].taken = Len(Dialogue)
Reads(c) == Live(c) => conn[c].gone \/ conn[c].taken = Len(conn[c].wire)

UpgradeSettles ==
    \A c \in Connection :
        []<>Reads(c) =>
            /\ At(c, "upgrade") ~> At(c, "serving") \/ At(c, "ended") \/ ~Live(c)
            /\ (Live(c) /\ Current(c)) ~> At(c, "serving") \/ Departed(c)
            /\ (Live(c) /\ conn[c].asked) ~> Answered(c) \/ Departed(c)
================================================================================
