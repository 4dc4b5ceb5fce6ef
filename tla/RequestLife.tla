----------------------------- MODULE RequestLife -----------------------------
(***************************************************************************)
(* What a file system driver owes the requests it is sent, whatever they   *)
(* are: each is in one place at a time, a routine, the worker queue or     *)
(* somebody else's hands, and whoever has it answers it, once.  The memory *)
(* a routine keeps about it is released once, and not while it is used.    *)
(* What a driver does otherwise it has to name: the kinds of request that  *)
(* it loses, lets a worker queue again, or answers again.                  *)
(***************************************************************************)
EXTENDS Naturals

CONSTANTS
  Irp,
  Kind,      \* kinds of request, as far as it matters
  Result,    \* what a request can be answered with
  Losable,   \* kinds that may be left without an owner,
  Reposted,  \* that a worker may put back into the queue,
  Repeated   \* that may be answered again

VARIABLES
  stage,     \* "new"; "served" in its caller's thread, "waiting" for a worker, "worked"
             \* on by one, "given" to somebody else; "lost", "over"
  kind,
  answers,   \* times it was answered
  released,  \* times its context was released
  result,
  stopped    \* the system has stopped

vars == <<stage, kind, answers, released, result, stopped>>

Init ==
  /\ stage = [i \in Irp |-> "new"] /\ kind = [i \in Irp |-> "none"]
  /\ answers = [i \in Irp |-> 0] /\ released = [i \in Irp |-> 0]
  /\ result = [i \in Irp |-> "none"] /\ stopped = FALSE

AtWork == {"served", "worked"}

Move(i, from, to) ==
  /\ stage[i] \in from /\ stage' = [stage EXCEPT ![i] = to]
  /\ UNCHANGED stopped

Release(i) == released[i] = 0 /\ released' = [released EXCEPT ![i] = 1]

Arrive(i) ==
  /\ Move(i, {"new"}, "served")
  /\ \E k \in Kind : kind' = [kind EXCEPT ![i] = k]
  /\ UNCHANGED <<answers, released, result>>

Post(i) ==
  /\ Move(i, IF kind[i] \in Reposted THEN AtWork ELSE {"served"}, "waiting")
  /\ UNCHANGED <<kind, answers, released, result>>

TakeUp(i) ==
  /\ Move(i, {"waiting"}, "worked")
  /\ UNCHANGED <<kind, answers, released, result>>

Give(i) ==
  /\ Move(i, AtWork, "given")
  /\ Release(i) \/ UNCHANGED released
  /\ UNCHANGED <<kind, answers, result>>

Lose(i) ==
  /\ kind[i] \in Losable
  /\ Move(i, AtWork \cup {"given"}, "lost")
  /\ UNCHANGED <<kind, answers, released, result>>

Answer(i) ==
  /\ Move(i, AtWork \cup {"waiting", "given"} \cup (IF kind[i] \in Repeated THEN {"over"} ELSE {}), "over")
  /\ answers' = [answers EXCEPT ![i] = @ + 1]
  /\ \E r \in Result : result' = [result EXCEPT ![i] = r]
  /\ (stage[i] \in AtWork /\ Release(i)) \/ UNCHANGED released
  /\ UNCHANGED kind

\* The context of a request that is no longer the driver's.
Forget(i) ==
  /\ stage[i] \in {"given", "over"} /\ Release(i)
  /\ UNCHANGED <<stage, kind, answers, result, stopped>>

Stop(i) ==
  /\ stage[i] \in AtWork /\ Release(i) /\ stopped' = TRUE
  /\ UNCHANGED <<stage, kind, answers, result>>

Next ==
  /\ ~stopped
  /\ \E i \in Irp :
       \/ Arrive(i) \/ Post(i) \/ TakeUp(i) \/ Give(i) \/ Lose(i)
       \/ Answer(i) \/ Forget(i) \/ Stop(i)

Spec == Init /\ [][Next]_vars
=============================================================================
