----------------------------- MODULE Cooperative -----------------------------
(***************************************************************************)
(* What a cooperative scheduler promises its tasks, without ready states,  *)
(* loops or stacks: one task at a time has the CPU, keeps it until it      *)
(* releases it, gets it again no earlier than it asked for, and, once it   *)
(* may run, eventually does.                                               *)
(***************************************************************************)
EXTENDS Integers

CONSTANTS
    Task,   \* the identities tasks can have
    None    \* not one of them: nobody has the CPU

VARIABLES
    now,       \* real time
    created,   \* the tasks that exist
    due,       \* the time before which a task may not run
    running    \* the task that has the CPU, or None

vars == <<now, created, due, running>>

Init ==
    /\ now = 0
    /\ created = {}
    /\ due = [t \in Task |-> 0]
    /\ running = None

Advance == now' = now + 1 /\ UNCHANGED <<created, due, running>>

Create(t) ==
    /\ running = None
    /\ t \notin created
    /\ created' = created \union {t}
    /\ UNCHANGED <<now, due, running>>

MayRun(t) == t \in created /\ due[t] <= now

Run(t) ==
    /\ running = None
    /\ MayRun(t)
    /\ running' = t
    /\ UNCHANGED <<now, created, due>>

(* Release the CPU until some later time, or just until the next turn.     *)
Release ==
    /\ running # None
    /\ running' = None
    /\ due' \in [Task -> Nat]
    /\ \A t \in Task \ {running} : due'[t] = due[t]
    /\ due'[running] = due[running] \/ due'[running] >= now
    /\ UNCHANGED <<now, created>>

Next == Advance \/ Release \/ \E t \in Task : Create(t) \/ Run(t)

Spec == Init /\ [][Next]_vars

(* Freedom from starvation: a task that may run gets the CPU.              *)
EveryTaskRuns == \A t \in Task : MayRun(t) ~> (running = t)
=============================================================================
