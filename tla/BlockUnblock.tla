----------------------------- MODULE BlockUnblock -----------------------------
(***************************************************************************)
(* What block and unblock promise (section 4.9 of the course's             *)
(* specification): every process has a private semaphore that only its     *)
(* parent raises.  ProcTree is checked to implement this.                  *)
(***************************************************************************)
EXTENDS Naturals

CONSTANTS Proc, Root, NoParent

VARIABLES
  alive,
  parent,
  credit,   \* unblocks received and not used
  waiting   \* processes that block and have no credit

buVars == <<alive, parent, credit, waiting>>

BUInit ==
  /\ alive = {Root}
  /\ parent = [p \in Proc |-> NoParent]
  /\ credit = [p \in Proc |-> 0]
  /\ waiting = {}

Create(p, c) ==
  /\ p \in alive \ waiting /\ c \notin alive
  /\ alive' = alive \cup {c}
  /\ parent' = [parent EXCEPT ![c] = p]
  /\ credit' = [credit EXCEPT ![c] = 0]
  /\ UNCHANGED waiting

Finish(p) ==
  /\ p \in alive \ waiting
  /\ alive' = alive \ {p}
  /\ UNCHANGED <<parent, credit, waiting>>

Down(p) ==
  /\ p \in alive \ waiting
  /\ \/ credit[p] > 0 /\ credit' = [credit EXCEPT ![p] = @ - 1] /\ UNCHANGED waiting
     \/ credit[p] = 0 /\ waiting' = waiting \cup {p} /\ UNCHANGED credit
  /\ UNCHANGED <<alive, parent>>

Up(p, c) ==
  /\ p \in alive \ waiting /\ parent[c] = p
  /\ \/ c \in waiting /\ waiting' = waiting \ {c} /\ UNCHANGED credit
     \/ c \notin waiting /\ credit' = [credit EXCEPT ![c] = @ + 1] /\ UNCHANGED waiting
  /\ UNCHANGED <<alive, parent>>

BUNext ==
  \E p \in Proc : Finish(p) \/ Down(p) \/ \E c \in Proc : Create(p, c) \/ Up(p, c)

BUSpec == BUInit /\ [][BUNext]_buVars
===============================================================================
