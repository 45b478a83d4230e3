-------------------------------- MODULE Rpc --------------------------------
(***************************************************************************)
(* What a connection of the IPC client promises about its requests:        *)
(* numbered in the order they are made, one at a time, each is executed by *)
(* the server at most once and in that order; one that is answered was     *)
(* executed, one that is refused never is, and one that fails, or that the *)
(* caller gives up, may have been executed or may still be.                *)
(***************************************************************************)
EXTENDS Integers, Sequences, SequencesExt

CONSTANT MaxCalls  \* bound on the requests of a connection

Calls == 1 .. MaxCalls

VARIABLES
  outcome,  \* of each request, as its caller knows it
  log       \* the requests the server has executed

Init ==
  /\ outcome = [c \in Calls |-> "new"]
  /\ log = <<>>

Returned(c) == outcome[c] \in {"ok", "failed", "refused"}

Issue(c) ==
  /\ outcome[c] = "new"
  /\ \A d \in 1 .. c - 1 : Returned(d)
  /\ \E o \in {"open", "refused"} : outcome' = [outcome EXCEPT ![c] = o]
  /\ UNCHANGED log

Execute(c) ==
  /\ outcome[c] \notin {"new", "refused", "ok"}
  /\ \A d \in ToSet(log) : d < c
  /\ log' = Append(log, c)
  /\ UNCHANGED outcome

Answer(c) ==
  /\ outcome[c] = "open"
  /\ c \in ToSet(log)
  /\ outcome' = [outcome EXCEPT ![c] = "ok"]
  /\ UNCHANGED log

Fail(c) ==
  /\ outcome[c] = "open"
  /\ outcome' = [outcome EXCEPT ![c] = "failed"]
  /\ UNCHANGED log

Next == \E c \in Calls : Issue(c) \/ Execute(c) \/ Answer(c) \/ Fail(c)

Spec == Init /\ [][Next]_<<outcome, log>>
=============================================================================
