---------------------------- MODULE ExclusiveUse ----------------------------
(***************************************************************************)
(* What a mutex promises: at any time at most one client uses a resource.  *)
(* The turn mutex (module TurnMutex, one thread) and the turns themselves  *)
(* (module TurnLifecycle, all threads) are shown to implement it.          *)
(***************************************************************************)
CONSTANTS Clients, Resources

VARIABLE users      \* for each resource, the clients using it

Init == users = [x \in Resources |-> {}]

Enter(c, x) ==
    /\ users[x] = {}
    /\ users' = [users EXCEPT ![x] = {c}]

Leave(c, x) ==
    /\ c \in users[x]
    /\ users' = [users EXCEPT ![x] = @ \ {c}]

Next == \E c \in Clients, x \in Resources : Enter(c, x) \/ Leave(c, x)

Spec == Init /\ [][Next]_users
=============================================================================
