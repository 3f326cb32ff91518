------------------------------- MODULE SharedStore -------------------------------
(***************************************************************************)
(* What FileStore promises a host that has several calls under way at once *)
(* (store/traits.rs: every method takes &self). Reads and redemptions see  *)
(* one memory, changed by one call at a time. The disk keeps its promise   *)
(* to a call that no other overlapped, as in DurableStore. Calls that      *)
(* overlap may leave it unreadable, or at any document that was in memory  *)
(* or on disk since the store was last idle; and an overlapped load may    *)
(* bring any of these back into memory.                                    *)
(***************************************************************************)
EXTENDS StoreDocument

CONSTANTS
    Caller,    \* concurrent tasks that hold the store
    Mutations, \* the mutations the host calls
    Initial,   \* what a restart may find on disk at first
    Unreadable \* on disk: bytes that open rejects

VARIABLES
    up,      \* the store is open
    view,    \* the document reads are answered from
    durable, \* what a restart would read: a document, None, or Unreadable
    phase,   \* "ready", "saving" or "loading", of each caller
    answer,  \* what its last call returned, or will if it succeeds
    alone,   \* the running call if no other has overlapped it
    period,  \* the documents seen since no call was running, while one is
    now

vars == <<up, view, durable, phase, answer, alone, period, now>>

Init ==
    /\ ~up
    /\ view = NewDocument
    /\ durable \in Initial
    /\ phase = [c \in Caller |-> "ready"]
    /\ answer = [c \in Caller |-> "none"]
    /\ alone = {} /\ period = {}
    /\ now \in Time

Running == {c \in Caller : phase[c] # "ready"}
Ready(c) == up /\ c \notin Running

Begin(c, doc, at, a) ==
    /\ Ready(c)
    /\ view' = doc
    /\ phase' = [phase EXCEPT ![c] = at]
    /\ answer' = [answer EXCEPT ![c] = a]
    /\ alone' = IF Running = {} THEN {c} ELSE {}
    /\ period' = {doc} \cup (IF Running = {}
                             THEN {view, durable} \ {None, Unreadable}
                             ELSE period)
    /\ UNCHANGED <<up, durable, now>>

Finish(c, a) ==
    /\ phase' = [phase EXCEPT ![c] = "ready"]
    /\ answer' = [answer EXCEPT ![c] = a]
    /\ alone' = alone \ {c}
    /\ period' = IF Running = {c} THEN {} ELSE period
    /\ UNCHANGED <<up, now>>

(* A call of one step.                                                      *)
Reply(c, a) ==
    /\ Ready(c)
    /\ answer' = [answer EXCEPT ![c] = a]
    /\ UNCHANGED <<up, view, durable, phase, alone, period, now>>

Mutate(c) == \E m \in Mutations : Begin(c, Apply(view, m), "saving", "ok")

Redeem(c) == \E k \in PreAuthKeyId :
    IF Consumable(view, k, now)
    THEN Begin(c, Consumed(view, k), "saving", "true")
    ELSE Reply(c, "false")

Save(c) == Begin(c, view, "saving", "ok")

(* Ok, or Ok(true).                                                         *)
Commit(c) ==
    /\ phase[c] = "saving"
    /\ durable' \in IF c \in alone THEN {view} ELSE period \cup {Unreadable}
    /\ Finish(c, answer[c])
    /\ UNCHANGED view

(* Err, or the future is dropped.                                           *)
Abort(c) ==
    /\ c \in Running
    /\ durable' \in IF c \in alone THEN {durable} ELSE {durable, Unreadable}
    /\ \E a \in {"err", "none"} : Finish(c, a)
    /\ UNCHANGED view

(* Calls that overlap disturb each other before they return.                *)
Interfere(c) ==
    /\ phase[c] = "saving" /\ c \notin alone
    /\ durable' \in period \cup {Unreadable}
    /\ UNCHANGED <<up, view, phase, answer, alone, period, now>>

Load(c) ==
    \/ Begin(c, view, "loading", "ok") /\ durable \notin {None, Unreadable}
    \/ Reply(c, "ok") /\ durable = None
    \/ Reply(c, "err")

Loaded(c) ==
    /\ phase[c] = "loading"
    /\ view' \in IF c \in alone THEN {durable} ELSE period
    /\ Finish(c, answer[c])
    /\ UNCHANGED durable

Crash ==
    /\ up /\ ~up'
    /\ view' = NewDocument
    /\ durable' \in IF Running \subseteq alone THEN {durable}
                    ELSE {durable, Unreadable}
    /\ phase' = [c \in Caller |-> "ready"]
    /\ answer' = [c \in Caller |-> "none"]
    /\ alone' = {} /\ period' = {}
    /\ UNCHANGED now

Restart ==
    /\ ~up /\ up'
    /\ durable # Unreadable
    /\ view' = IF durable = None THEN NewDocument ELSE durable
    /\ UNCHANGED <<durable, phase, answer, alone, period, now>>

Tick ==
    /\ now' \in Time
    /\ UNCHANGED <<up, view, durable, phase, answer, alone, period>>

Next ==
    \/ \E c \in Caller :
          \/ Mutate(c) \/ Redeem(c) \/ Save(c) \/ Load(c)
          \/ Commit(c) \/ Abort(c) \/ Interfere(c) \/ Loaded(c)
    \/ Crash \/ Restart \/ Tick

Spec == Init /\ [][Next]_vars
================================================================================
