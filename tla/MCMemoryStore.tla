------------------------------ MODULE MCMemoryStore ------------------------------
(* A small instance of MemoryStore: two networks, every table but the users' *)
EXTENDS MemoryStore

CONSTANTS n1, n2, d1, d2, k1, a

Clock == {0, 1}

In(n) == [network_id |-> n, data |-> a]
Key(reusable, used, expires_at) ==
    [network_id |-> n1, reusable |-> reusable, used |-> used,
     expires_at |-> expires_at]
Op(op, id, row) == [op |-> op, id |-> id, row |-> row]

(* Two nodes, one of which an upsert may move to the other network; a       *)
(* single-use key that expires, one that never was good and a reusable one; *)
(* a network and a policy. Users, which are kept as nodes are, are left out.*)
MixedMutations ==
    {Op("upsert_node", d1, In(n1)), Op("upsert_node", d1, In(n2)),
     Op("upsert_node", d2, In(n1)), Op("delete_node", d1, None),
     Op("upsert_preauth_key", k1, Key(FALSE, FALSE, 1)),
     Op("upsert_preauth_key", k1, Key(FALSE, FALSE, Malformed)),
     Op("upsert_preauth_key", k1, Key(TRUE, FALSE, None)),
     Op("upsert_network", n1, [data |-> a]),
     Op("set_policy", n1, a)}
================================================================================
