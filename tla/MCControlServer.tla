----------------------------- MODULE MCControlServer -----------------------------
(* Small instances of ControlServer: one client and a version below, at and *)
(* above the minimum; requests that differ from a client's in one respect.  *)
EXTENDS ControlServer, TLC

CONSTANTS m1, s1

Good == ClientRequest(m1, 113, s1)
Handshake(msg) == [Good EXCEPT !.handshake = msg]
Msg == Good.handshake

(* What proxies drop, what does not parse, what was tampered with; and one  *)
(* with bytes after the payload, which accept does not mind.                *)
OddRequests ==
    {[Good EXCEPT !.upgrade = None], [Good EXCEPT !.upgrade = "empty"],
     [Good EXCEPT !.connection = FALSE], [Good EXCEPT !.handshake = None],
     Handshake([Msg EXCEPT !.base64 = FALSE]),
     Handshake([Msg EXCEPT !.length = INITIATION_LEN - 1]),
     Handshake([Msg EXCEPT !.length = INITIATION_LEN + 1]),
     Handshake([Msg EXCEPT !.capver = 114]),
     Handshake([Msg EXCEPT !.initiation = FALSE]),
     Handshake([Msg EXCEPT !.body_len = INIT_PAYLOAD_LEN - 1]),
     Handshake([Msg EXCEPT !.payload.intact = FALSE])}

(* Answered with an error.                                                  *)
RefusedRequests == {[Good EXCEPT !.handshake = None]}

(* Connections differ in nothing.                                           *)
Symmetry == Permutations(Connection)
================================================================================
