----------------------------- MODULE ChainQueue -----------------------------
(***************************************************************************)
(* What the meta block ring promises, without positions, sizes or a        *)
(* wrap-around: a bounded queue whose entries are reserved in order,       *)
(* published in any order, handed to a chain of stages in order, and       *)
(* dropped by the last stage (S2D, at the head) only when every other      *)
(* stage has passed them.  A published entry never changes.                *)
(***************************************************************************)
EXTENDS Naturals, Sequences

CONSTANTS
  MaxLen,   (* entries the queue holds at most                              *)
  Stages,   (* stages in front of the last one, numbered from 1             *)
  Items     (* what a published entry may say                               *)

VARIABLES
  queue,    (* entries, the oldest first                                    *)
  pos       (* entries each stage has passed, counted from the head         *)

Open        == [state |-> "open"]
Done        == [state |-> "done"]
Ready(item) == [state |-> "ready", item |-> item]

IsReady(i)  == queue[i].state = "ready"

(* How far a stage may go: as far as the stage in front of it.             *)
UpTo(s) == IF s = 1 THEN Len(queue) ELSE pos[s-1]

Init == queue = <<>> /\ pos = [s \in 1 .. Stages |-> 0]

Reserve ==
  /\ Len(queue) < MaxLen
  /\ queue' = Append(queue, Open)
  /\ UNCHANGED pos

Publish ==
  /\ \E i \in 1 .. Len(queue), item \in Items :
       /\ queue[i] = Open
       /\ queue' = [queue EXCEPT ![i] = Ready(item)]
  /\ UNCHANGED pos

Advance ==
  /\ \E s \in 1 .. Stages : \E count \in 1 .. UpTo(s) - pos[s] :
       /\ \A i \in pos[s] + 1 .. pos[s] + count : IsReady(i)
       /\ pos' = [pos EXCEPT ![s] = @ + count]
  /\ UNCHANGED queue

HeadPassed == queue # <<>> /\ \A s \in 1 .. Stages : pos[s] > 0

(* The last stage takes the entry at the head, ...                         *)
TakeHead ==
  /\ HeadPassed /\ IsReady(1)
  /\ queue' = [queue EXCEPT ![1] = Done]
  /\ UNCHANGED pos

(* ... and gives its room back, at once or when it is done with it.        *)
DropHead ==
  /\ HeadPassed /\ queue[1] # Open
  /\ queue' = Tail(queue)
  /\ pos' = [s \in 1 .. Stages |-> pos[s] - 1]

Next == Reserve \/ Publish \/ Advance \/ TakeHead \/ DropHead

Spec == Init /\ [][Next]_<<queue, pos>>
=============================================================================
