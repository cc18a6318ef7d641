---------------------------- MODULE MCBesideTurn ----------------------------
(***************************************************************************)
(* What runs beside the turns of a thread: its compactions, and the people *)
(* its tool calls wait for.  The two share no state, so an instance is a   *)
(* busy thread or busy approvals, with the other at rest.                  *)
(***************************************************************************)
EXTENDS Approvals, Compaction, TLC

CONSTANTS k1, k2, k3, c1, c2, h1, h2

\* Two rounds of compaction with a failure, and with a turn after them; fewer
\* turns with more failures; and a fork.
Threads ==
    {[inherited |-> 0, turns |-> 12, faults |-> 1], [inherited |-> 0, turns |-> 13, faults |-> 0],
     [inherited |-> 0, turns |-> 8, faults |-> 2], [inherited |-> 2, turns |-> 8, faults |-> 1],
     [inherited |-> 0, turns |-> 0, faults |-> 0]}

Plan(a, b, v, w, n) ==
    [calls |-> c1 :> a @@ c2 :> b, by |-> h1 :> v @@ h2 :> w, faults |-> n]

A(k, t, a) == [kind |-> k, tool |-> t, args |-> a]

None == A("none", "none", "none")

Dispatch == A("dispatch", "t1", "a1")

Question == A("ask", "none", "none")

Client == A("mcp", "t1", "a1")

\* Nobody.
Quiet == Plan(None, None, "none", "none", 0)

\* Duplicates of a call answered twice over HTTP, by HTTP and socket, and once
\* with a failure; calls that differ in an argument; a tool that asks; a client
\* and its repeated try; tries with other arguments, for another tool, and with
\* the id of a dispatch or of a question.
Asked ==
    {Plan(Dispatch, Dispatch, "http", "http", 0), Plan(Dispatch, Dispatch, "http", "none", 1),
     Plan(Dispatch, Dispatch, "http", "socket", 0), Plan(Dispatch, A("dispatch", "t1", "a2"), "http", "http", 0),
     Plan(Question, None, "http", "tool", 1),
     Plan(Client, Client, "http", "tool", 0), Plan(Client, Client, "http", "none", 1),
     Plan(Client, A("mcp", "t1", "a2"), "http", "none", 0), Plan(Client, A("mcp", "t2", "a1"), "http", "none", 0),
     Plan(Dispatch, Client, "http", "none", 1), Plan(Question, Client, "http", "socket", 0), Quiet}

BesideInit == Init /\ ThreadInit /\ (maxTurns = 0 <=> plan # Quiet)

BesideNext ==
    \/ ThreadNext /\ UNCHANGED vars
    \/ Next /\ UNCHANGED threadVars

BesideSpec ==
    /\ BesideInit /\ [][BesideNext]_<<threadVars, vars>>
    /\ WF_threadVars((\E c \in Compactors : Compact(c)) /\ UNCHANGED <<inherited, maxTurns, vars>>)
    /\ WF_vars(Progress /\ UNCHANGED <<plan, threadVars>>)
=============================================================================
