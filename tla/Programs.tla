------------------------------ MODULE Programs ------------------------------
(***************************************************************************)
(* All user-mode programs of the repository in one instance: a behaviour   *)
(* is one of a communicating example, or one in which an input of the      *)
(* exercises grows and no example runs.                                    *)
(***************************************************************************)
EXTENDS Examples, Solutions

programVars == <<vars, input>>

NoExercise == [kind |-> "none"]

ProgramsInit ==
  \/ Init /\ input = NoExercise
  \/ EpollInit(FALSE) /\ FifoInit(FALSE) /\ SocketInit(FALSE) /\ ExerciseInit

ProgramsNext ==
  \/ Next /\ UNCHANGED input
  \/ ExerciseNext /\ UNCHANGED vars

ProgramsSpec ==
  /\ ProgramsInit /\ [][ProgramsNext]_programVars
  /\ EpollFairness /\ FifoFairness /\ SocketFairness
=============================================================================
