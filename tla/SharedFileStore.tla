----------------------------- MODULE SharedFileStore -----------------------------
(***************************************************************************)
(* FileStore with the history that tells what its overlapping calls may    *)
(* rely on: which of them was alone, and which documents there were since  *)
(* no call was running. The path names the format the host stays with.     *)
(***************************************************************************)
EXTENDS FileStore

CONSTANT Unreadable \* what open rejects, as SharedStore sees it

ASSUME SharedAssumption ==
    /\ Unreadable \notin Document \cup {None}
    /\ WithFormat = {Extension}

VARIABLES
    alone,  \* the running call if no other has overlapped it
    period  \* the documents in memory or on disk since no call was running

sharedVars == <<vars, alone, period>>

Running == {c \in Caller : pc[c] # "idle"}

(* What open makes of a file (deserialize, file.rs).                        *)
Contents(content) ==
    IF content = None THEN None
    ELSE IF Parses(Extension, content) THEN content.doc
    ELSE Unreadable

(* The part of a call that FileStore's host can tell from its beginning.    *)
PhaseAt(at) ==
    IF at = "idle" THEN "ready" ELSE IF at = "replace" THEN "loading" ELSE "saving"

Phase == [c \in Caller |-> PhaseAt(pc[c])]

SharedInit == Init /\ alone = {} /\ period = {}

(* The history of a step: a call that begins on an idle store is alone      *)
(* until another begins, and starts a period.                               *)
Overlap ==
    /\ alone' = {c \in Running' :
                    Running' = {c} /\ (Running = {} \/ c \in alone)}
    /\ period' =
          IF Running' = {} THEN {}
          ELSE {mem'} \cup
               (IF Running = {}
                THEN {mem, Contents(file["target"])} \ {None, Unreadable}
                ELSE period)

SharedNext == Next /\ Overlap

SharedSpec == SharedInit /\ [][SharedNext]_sharedVars

-----------------------------------------------------------------------------
(* Properties.                                                              *)

(* However the awaits and system calls of mutators, flushes and loads       *)
(* (file.rs) interleave, fail or die, each step of FileStore is a step of   *)
(* SharedStore: memory changes once per call, a call that was alone has its *)
(* document on disk if and only if it returns Ok, and calls that overlap    *)
(* publish or load nothing older than the period they overlap in.           *)
Shared ==
    INSTANCE SharedStore WITH
        Initial <- {Contents(f) : f \in InitialFiles},
        up <- store = "open",
        view <- mem,
        durable <- Contents(file["target"]),
        phase <- Phase

ImplementsSharedStore == Shared!Spec
================================================================================
