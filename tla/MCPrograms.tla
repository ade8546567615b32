------------------------------ MODULE MCPrograms ------------------------------
(***************************************************************************)
(* Small instances of the programs around the books: the commands on the   *)
(* database file and the HTTP front.  They share no state, so a behaviour  *)
(* explores the one that is in focus and leaves the other as it starts;    *)
(* as it starts nothing is fair in it, so the fairness of both is that of  *)
(* the one in focus.                                                       *)
(***************************************************************************)
EXTENDS DatabaseLifecycle, McpHttpServer

VARIABLE focus

programVars == <<focus, vars, mcpVars>>

\* Requests are interchangeable.  Bound: they arrive in this order.
Arrivals == <<"q1", "q2", "q3", "q4">>
InOrder == \A i \in 1 .. Len(Arrivals) - 1 :
             req[Arrivals[i]].step = "unsent" => req'[Arrivals[i + 1]].step = "unsent"

\* Bound: one body is read at a time; nothing is shared before admission.
OneBody == Cardinality({r \in Requests : req'[r].step \in Reading}) <= 1

ProgramsInit == focus \in {"lifecycle", "server"} /\ Init /\ McpInit

ProgramsNext ==
  \/ focus = "lifecycle" /\ Next /\ UNCHANGED <<focus, mcpVars>>
  \/ focus = "server" /\ McpNext /\ InOrder /\ OneBody /\ UNCHANGED <<focus, vars>>

ProgramsSpec == ProgramsInit /\ [][ProgramsNext]_programVars /\ Fairness /\ McpFairness
=============================================================================
