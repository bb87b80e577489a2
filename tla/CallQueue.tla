------------------------------ MODULE CallQueue ------------------------------
(***************************************************************************)
(* What the threaded GS backend promises its caller (the header comment of *)
(* src/runtime/gs/gs_threaded.h): a call may be accepted before it has     *)
(* run, but calls run one at a time, each once, in the order and with the  *)
(* contents they were accepted with, and the queue is taken down only when *)
(* nothing accepted is left.  GsRing implements it in a ring of bytes.     *)
(*                                                                         *)
(* A call's contents are one copy of it per unit it takes.                 *)
(***************************************************************************)
EXTENDS Integers, Sequences

CONSTANT Calls   \* the calls there may be: records with an id and a size

VARIABLES
  queue,   \* the contents of the calls accepted and not finished
  begun,   \* the id of the last call that began to run
  over     \* the queue is taken down

vars == <<queue, begun, over>>

Contents(call) == [unit \in 1..call.size |-> call]
NextId == (IF queue = <<>> THEN begun ELSE queue[Len(queue)][1].id) + 1

Accept(call) ==
  /\ ~ over /\ call.id = NextId
  /\ queue' = Append(queue, Contents(call))
  /\ UNCHANGED <<begun, over>>

Begin ==
  /\ queue # <<>> /\ Head(queue)[1].id = begun + 1
  /\ begun' = begun + 1
  /\ UNCHANGED <<queue, over>>

Finish ==
  /\ queue # <<>> /\ Head(queue)[1].id = begun
  /\ queue' = Tail(queue)
  /\ UNCHANGED <<begun, over>>

Close ==
  /\ queue = <<>> /\ ~ over /\ over' = TRUE
  /\ UNCHANGED <<queue, begun>>

Init == queue = <<>> /\ begun = 0 /\ over = FALSE
Next == (\E call \in Calls : Accept(call)) \/ Begin \/ Finish \/ Close
Spec == Init /\ [][Next]_vars
=============================================================================
