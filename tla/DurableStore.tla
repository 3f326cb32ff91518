------------------------------ MODULE DurableStore ------------------------------
(***************************************************************************)
(* What a durable Store promises a host that makes one call at a time      *)
(* ("durable persistence port", store/traits.rs): a call that answers Ok   *)
(* has the whole document on disk, a call that answers Err has left the    *)
(* disk alone, and a restart reads back exactly what the last Ok left.     *)
(* What it does not promise: that a call that fails, or is dropped, leaves *)
(* the document the host reads alone.                                      *)
(***************************************************************************)
EXTENDS StoreDocument

CONSTANTS
    Mutations, \* the mutations the host calls
    Initial    \* documents that may be on disk at first, None for none

VARIABLES
    view,    \* the document reads are answered from
    durable, \* the document a restart would read, None for none
    phase,   \* "down", "ready", "saving" or "loading"
    answer,  \* what the last call returned, or will if it succeeds
    now

vars == <<view, durable, phase, answer, now>>

Init ==
    /\ view = NewDocument
    /\ durable \in Initial
    /\ phase = "down"
    /\ answer = "none"
    /\ now \in Time

OnDisk == IF durable = None THEN NewDocument ELSE durable

Begin(doc, a) ==
    /\ phase = "ready"
    /\ view' = doc
    /\ phase' = "saving"
    /\ answer' = a
    /\ UNCHANGED <<durable, now>>

Mutate == \E m \in Mutations : Begin(Apply(view, m), "ok")

Redeem == \E k \in PreAuthKeyId :
    Consumable(view, k, now) /\ Begin(Consumed(view, k), "true")

Refuse ==
    /\ phase = "ready"
    /\ \E k \in PreAuthKeyId : ~Consumable(view, k, now)
    /\ answer' = "false"
    /\ UNCHANGED <<view, durable, phase, now>>

Save == Begin(view, "ok")

(* Ok: the whole document is durable.                                       *)
Commit ==
    /\ phase = "saving"
    /\ durable' = view
    /\ phase' = "ready"
    /\ UNCHANGED <<view, answer, now>>

(* Err, or the future is dropped: the disk is as it was.                    *)
Abort ==
    /\ phase \in {"saving", "loading"}
    /\ answer' \in {"err", "none"}
    /\ phase' = "ready"
    /\ UNCHANGED <<view, durable, now>>

Load ==
    /\ phase = "ready"
    /\ \/ durable = None /\ phase' = "ready" /\ answer' = "ok"
       \/ durable # None /\ phase' = "loading" /\ answer' = "ok"
       \/ phase' = "ready" /\ answer' = "err"
    /\ UNCHANGED <<view, durable, now>>

Loaded ==
    /\ phase = "loading"
    /\ view' = durable
    /\ phase' = "ready"
    /\ UNCHANGED <<durable, answer, now>>

Crash ==
    /\ phase # "down"
    /\ phase' = "down"
    /\ view' = NewDocument
    /\ answer' = "none"
    /\ UNCHANGED <<durable, now>>

Restart ==
    /\ phase = "down"
    /\ phase' = "ready"
    /\ view' = OnDisk
    /\ UNCHANGED <<durable, answer, now>>

Tick ==
    /\ now' \in Time
    /\ UNCHANGED <<view, durable, phase, answer>>

Next ==
    \/ Mutate \/ Redeem \/ Refuse \/ Save \/ Commit \/ Abort
    \/ Load \/ Loaded \/ Crash \/ Restart \/ Tick

Spec == Init /\ [][Next]_vars
================================================================================
