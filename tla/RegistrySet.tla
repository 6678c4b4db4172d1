----------------------------- MODULE RegistrySet -----------------------------
(***************************************************************************)
(* What the thread registry promises: a set.  Each insertion or removal    *)
(* takes effect at one instant between its call and its return.            *)
(***************************************************************************)
CONSTANTS Threads,  \* the records that can be registered
          Workers,  \* the host threads that call the registry
          NULL

VARIABLES members,  \* the registered records
          call      \* what each worker is doing

vars == <<members, call>>

Idle == [op |-> "none", target |-> NULL, phase |-> "idle"]

Init ==
  /\ members = {}
  /\ call = [w \in Workers |-> Idle]

Invoke(w, o, t) ==
  /\ call[w] = Idle
  /\ call' = [call EXCEPT ![w] = [op |-> o, target |-> t, phase |-> "called"]]
  /\ UNCHANGED members

Effect(w) ==
  /\ call[w].phase = "called"
  /\ members' = IF call[w].op = "add" THEN members \cup {call[w].target}
                                      ELSE members \ {call[w].target}
  /\ call' = [call EXCEPT ![w].phase = "done"]

Respond(w) ==
  /\ call[w].phase = "done"
  /\ call' = [call EXCEPT ![w] = Idle]
  /\ UNCHANGED members

Next ==
  \E w \in Workers :
    \/ \E o \in {"add", "remove"}, t \in Threads : Invoke(w, o, t)
    \/ Effect(w)
    \/ Respond(w)

Spec == Init /\ [][Next]_vars
=============================================================================
