------------------------------- MODULE KeyedStore -------------------------------
(***************************************************************************)
(* The volatile Store a host may imagine (store/traits.rs): one document   *)
(* whose tables are functions from ids to rows, every call one step.       *)
(***************************************************************************)
EXTENDS StoreDocument

CONSTANT Mutations \* the mutations the host calls

VARIABLES
    doc,    \* the document
    saved,  \* a clone FileStore took with snapshot()
    answer, \* what the last call returned: a Boolean and a set of <<id, row>>
    now     \* Utc::now()

vars == <<doc, saved, answer, now>>

Init ==
    /\ doc = NewDocument
    /\ saved = NewDocument
    /\ answer = [ok |-> TRUE, rows |-> {}]
    /\ now \in Time

(* The rows of a table that are there, and those of one network.            *)
Entries(table) == {<<x, table[x]>> : x \in {y \in DOMAIN table : table[y] # None}}
InNetwork(entries, n) == {e \in entries : e[2].network_id = n}
Entry(table, x) == {e \in Entries(table) : e[1] = x}

Answer(ok, rows) == answer' = [ok |-> ok, rows |-> rows]

Mutate ==
    /\ \E m \in Mutations : doc' = Apply(doc, m)
    /\ Answer(TRUE, {})
    /\ UNCHANGED <<saved, now>>

Consume ==
    /\ \E k \in PreAuthKeyId :
          IF Consumable(doc, k, now)
          THEN doc' = Consumed(doc, k) /\ Answer(TRUE, {})
          ELSE UNCHANGED doc /\ Answer(FALSE, {})
    /\ UNCHANGED <<saved, now>>

Read ==
    /\ \/ Answer(TRUE, Entries(doc.networks))
       \/ \E n \in NetworkId :
             \/ Answer(TRUE, InNetwork(Entries(doc.users), n))
             \/ Answer(TRUE, InNetwork(Entries(doc.nodes), n))
             \/ Answer(TRUE, InNetwork(Entries(doc.preauth_keys), n))
             \/ Answer(TRUE, Entry(doc.policies, n))
       \/ \E x \in NodeId : Answer(TRUE, Entry(doc.nodes, x))
    /\ UNCHANGED <<doc, saved, now>>

Snapshot == saved' = doc /\ UNCHANGED <<doc, answer, now>>
Replace == doc' = saved /\ UNCHANGED <<saved, answer, now>>
Tick == now' \in Time /\ UNCHANGED <<doc, saved, answer>>

Next == Mutate \/ Consume \/ Read \/ Snapshot \/ Replace \/ Tick

Spec == Init /\ [][Next]_vars
================================================================================
