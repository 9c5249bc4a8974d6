--------------------------- MODULE EffectContext ---------------------------
(***************************************************************************)
(* The context of an open effect: its data and status queues, the flag the *)
(* client wakes the worker with, and the configuration they were made for. *)
(* One operator per method of class EffectContext.                         *)
(*                                                                         *)
(* Samples are counted, not named.  A configuration gives a number of      *)
(* frames and a frame size for each side; a frame of size 0 stands for a   *)
(* layout without channels, which setCommon refuses.  The interface version*)
(* is one that knows reopen().                                             *)
(***************************************************************************)
EXTENDS Naturals

CONSTANTS
  Commons,  \* the configurations a client passes
  None      \* the null pointer

Side == {"in", "out"}

Common == [frames : [Side -> Nat], size : [Side -> Nat]]
Queue  == {q \in [cap : Nat, filled : Nat] : q.filled <= q.cap}

Larger(m, n)  == IF m > n THEN m ELSE n
Smaller(m, n) == IF m < n THEN m ELSE n

Context == [
  common    : Common,
  frameSize : [Side -> Nat],
  queue     : [Side -> Queue \cup {None}],
  work      : Nat,        \* the size of the work buffer
  status    : BOOLEAN,    \* the one place of the status queue is taken
  notEmpty  : BOOLEAN]    \* the bit of the event flag that the worker waits for

ASSUME CommonsAssumption == Commons \subseteq Common
ASSUME NullAssumption    == None \notin Queue /\ None \notin Context

HasChannels(common) == \A s \in Side : common.size[s] # 0
HasQueues(c)        == \A s \in Side : c.queue[s] # None

\* The size of the queue and of the work buffer for a side.
Samples(c, s)  == c.common.frames[s] * c.frameSize[s]
WorkSize(c)    == Larger(Samples(c, "in"), Samples(c, "out"))
EmptyQueue(n)  == [cap |-> n, filled |-> 0]
Free(c)        == c.queue["out"].cap - c.queue["out"].filled

NewContext(common) == [
  common    |-> common,
  frameSize |-> common.size,
  queue     |-> [s \in Side |-> EmptyQueue(common.frames[s] * common.size[s])],
  work      |-> Larger(common.frames["in"] * common.size["in"],
                       common.frames["out"] * common.size["out"]),
  status    |-> FALSE,
  notEmpty  |-> FALSE]

\* The queue of a side whose size changes is dropped; both sides are left
\* alone when one of them has been dropped already.
UpdateIOFrameSize(c, common) ==
  [c EXCEPT
    !.frameSize = common.size,
    !.queue = [s \in Side |->
      IF /\ c.work # 0 /\ HasQueues(c)
         /\ \/ common.size[s] # c.frameSize[s]
            \/ common.frames[s] # c.common.frames[s]
      THEN None ELSE c.queue[s]]]

SetCommon(c, common) ==
  [UpdateIOFrameSize(c, common) EXCEPT
    !.common = IF HasChannels(common) THEN common ELSE @]

DupeFmqWithReopen(c) ==
  [c EXCEPT
    !.queue = [s \in Side |->
      IF c.queue[s] = None THEN EmptyQueue(Samples(c, s)) ELSE c.queue[s]],
    !.work = WorkSize(c)]

\* The status queue keeps its status: only the input is abandoned.
ResetBuffer(c) ==
  IF c.queue["in"] = None THEN c ELSE [c EXCEPT !.queue["in"].filled = 0]

Wake(c) == [c EXCEPT !.notEmpty = TRUE]
=============================================================================
