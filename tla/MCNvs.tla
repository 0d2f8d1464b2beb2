------------------------------- MODULE MCNvs -------------------------------
(* Instances of Nvs for TLC: kernel is kernel_task, general is general_task.*)
EXTENDS Nvs

CONSTANTS kernel, general, u1, u2, v1, v2

Rq(ops, us, ns, vs) == [op : ops, uid : us, n : ns, val : vs]

Bond1 == [uid |-> u1, n |-> 1, val |-> v1]
Bond2 == [uid |-> u2, n |-> 1, val |-> v1]
Empty == <<>>
BothBonds == <<Bond1, Bond2>>

\* The firmware's use of the store: the kernel task adds bonds and erases the
\* partition, the general task looks bonds up.
Deployed == {(kernel :> Rq({"add"}, {u1, u2}, {1}, {v1, v2}) \cup Rq({"erase"}, {u1}, {1}, {v1}))
             @@ (general :> Rq({"pointer"}, {u1, u2}, {1}, {v1}))}

\* One task changes the store in every way, another reads.
OneWriter == (kernel :> Rq({"add", "modify"}, {u1, u2}, {1, 2}, {v1})
                        \cup Rq({"modify"}, {u1}, {1}, {v2})
                        \cup Rq({"delete", "erase"}, {u1, u2}, {1}, {v1}))
             @@ (general :> Rq({"read", "pointer"}, {u1, u2}, {1}, {v1}))

\* Two tasks rewrite records of their own.
TwoRewriters == (kernel :> Rq({"modify", "delete", "read"}, {u1}, {1}, {v1, v2}))
                @@ (general :> Rq({"modify", "delete", "read"}, {u2}, {1}, {v1, v2}))

OneOrTwoWriters == {OneWriter, TwoRewriters}

\* A task that adds its own record beside one that rewrites its own.
AddWhileRewriting == {(kernel :> Rq({"modify"}, {u1}, {1}, {v2}))
                      @@ (general :> Rq({"add"}, {u2}, {1}, {v1}))}

============================================================================
