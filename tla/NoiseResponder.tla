----------------------------- MODULE NoiseResponder -----------------------------
(***************************************************************************)
(* The checks noise::accept (noise/src/responder.rs) makes on a controlbase*)
(* initiation, in their order, and what a session is made of. The base64   *)
(* text and the bytes are records of what the checks look at; the Noise IK *)
(* cipher, which is no part of the repository, opens exactly the payloads  *)
(* that were sealed to its static key under the same prologue.             *)
(***************************************************************************)
EXTENDS Integers

CONSTANTS
    Machine,   \* clients, each with its long-lived machine key
    ServerKey, \* Noise static keys a server may have
    Capver,    \* capability versions, two bytes on the wire
    None       \* no session, no key, no request

U16 == 0..65535 \* what two bytes hold

ASSUME ResponderAssumption ==
    /\ Capver \subseteq U16
    /\ None \notin ServerKey

MIN_SUPPORTED_CAPABILITY_VERSION == 113

CAPVER_PREFIX_LEN == 2
CONTROLBASE_HEADER_LEN == 3
INIT_PAYLOAD_LEN == 96
INITIATION_LEN ==
    CAPVER_PREFIX_LEN + CONTROLBASE_HEADER_LEN + INIT_PAYLOAD_LEN

Payload ==
    [to : ServerKey, from : Machine, prologue : Capver, intact : BOOLEAN]

Initiation ==
    [base64 : BOOLEAN, length : Nat, capver : Capver, initiation : BOOLEAN,
     body_len : U16, payload : Payload]

Session == [server : ServerKey, peer : Machine, capver : Capver]

ASSUME NoneAssumption == None \notin Initiation /\ None \notin Session

(* But Serde: EarlyNoise, one public key, always serializes.               *)
NoiseError ==
    {"Base64", "BadInitiation", "UnsupportedVersion", "HandshakeFailed", "Io"}

(* What a client of the given version and key puts into the header.         *)
Initiate(m, v, key) ==
    [base64 |-> TRUE, length |-> INITIATION_LEN, capver |-> v,
     initiation |-> TRUE, body_len |-> INIT_PAYLOAD_LEN,
     payload |-> [to |-> key, from |-> m, prologue |-> v, intact |-> TRUE]]

(* ReceivedHandshake::new.                                                  *)
Opens(payload, key, prologue) ==
    payload.intact /\ payload.to = key /\ payload.prologue = prologue

(* The prologue names the version the client advertised in the clear.       *)
PrologueOfServer(msg) == MIN_SUPPORTED_CAPABILITY_VERSION \* faulty: its own

Prologue(msg) == msg.capver

(* Bytes after the payload are not looked at.                               *)
CutByMore(msg) == msg.length < INITIATION_LEN - 1 \* faulty: off by one
NotExact(msg) == msg.length # INITIATION_LEN \* faulty: nothing may follow

TooShort(msg) == msg.length < INITIATION_LEN

(* accept, up to the handshake: the first check that fails, "none" if none  *)
(* does.                                                                    *)
RejectionAnyVersion(msg, key) == \* faulty: no minimum
    IF Opens(msg.payload, key, Prologue(msg)) THEN "none" ELSE "HandshakeFailed"

Rejection(msg, key) ==
    IF ~msg.base64 THEN "Base64"
    ELSE IF TooShort(msg) THEN "BadInitiation"
    ELSE IF msg.capver < MIN_SUPPORTED_CAPABILITY_VERSION
         THEN "UnsupportedVersion"
    ELSE IF ~msg.initiation \/ msg.body_len # INIT_PAYLOAD_LEN
         THEN "BadInitiation"
    ELSE IF ~Opens(msg.payload, key, Prologue(msg)) THEN "HandshakeFailed"
    ELSE "none"

(* What accept learns from a message it does not reject.                    *)
AcceptedUnnamed(msg, key) == \* faulty: the peer's key is not kept
    [server |-> key, peer |-> None, capver |-> msg.capver]

Accepted(msg, key) ==
    [server |-> key, peer |-> msg.payload.from, capver |-> msg.capver]
================================================================================
