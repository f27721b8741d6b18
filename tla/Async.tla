-------------------------------- MODULE Async --------------------------------
(* The coroutine adapter (include/smply/async/task.hpp): Task and the         *)
(* awaitable around a callback.  Coroutine k may call and await coroutine     *)
(* k + 1, a local of its own; each may await operations, whose callbacks run  *)
(* inline in the start, later, or never.  The C++ call stack is part of the   *)
(* state, since a resumption is a call.                                       *)
EXTENDS Naturals, Sequences, FiniteSets

CONSTANTS
  Chain,       \* how many coroutines await each other
  MaxAwaits    \* how many operations they start between them

ASSUME AsyncAssumption == Chain \in Nat \ {0} /\ MaxAwaits \in Nat

VARIABLES
  co,        \* the coroutine frames and the call stack
  await      \* each operation's AwaitState, shared with its callback

asyncVars == <<co, await>>

Coroutines == 1 .. Chain
Awaits == 1 .. MaxAwaits
Nobody == 0

(* A suspended frame waits for `on': an operation, or its child (0). *)
FreshFrame == [at |-> "none", on |-> 0, continuation |-> FALSE, threw |-> FALSE]
FreshAwait == [at |-> "unused", result |-> FALSE, waiter |-> Nobody, by |-> Nobody]

AsyncIdle ==
  /\ co = [frame |-> [k \in Coroutines |-> FreshFrame], stack |-> <<>>, over |-> TRUE]
  /\ await = [o \in Awaits |-> FreshAwait]

AsyncInit ==
  /\ co = [frame |-> [k \in Coroutines |-> FreshFrame], stack |-> <<>>, over |-> FALSE]
  /\ await = [o \in Awaits |-> FreshAwait]

Running == co.stack[Len(co.stack)]
Beneath == SubSeq(co.stack, 1, Len(co.stack) - 1)
OnStack(k) == \E i \in DOMAIN co.stack : co.stack[i] = k
At(k) == co.frame[k].at
MayRun == co.stack # <<>> /\ At(Running) = "running"

(* The application calls the outermost coroutine: it runs at once. *)
StartTask ==
  /\ ~co.over /\ co.stack = <<>> /\ At(1) = "none"
  /\ co' = [co EXCEPT !.frame[1].at = "running", !.stack = <<1>>]
  /\ UNCHANGED await

(* co_await await_result(...): await_suspend() calls start_ with the callback. *)
StartOperation(o) ==
  /\ MayRun /\ await[o].at = "unused" /\ \A p \in 1 .. o - 1 : await[p].at # "unused"
  /\ await' = [await EXCEPT ![o] = [FreshAwait EXCEPT !.at = "starting", !.by = Running]]
  /\ co' = [co EXCEPT !.frame[Running].at = "starting", !.frame[Running].on = o]

\* Fault: the waiter is set whether or not the operation has completed.
SuspendAnyway(o) ==
  /\ await' = [await EXCEPT ![o].at = "started", ![o].waiter = Running]
  /\ co' = [co EXCEPT !.frame[Running].at = "suspended", !.stack = Beneath]

(* ... start_ has returned: on with it if the result is there, else suspend. *)
Suspend(o) ==
  IF await[o].result
  THEN /\ co' = [co EXCEPT !.frame[Running].at = "running"]
       /\ await' = [await EXCEPT ![o].at = "taken"]
  ELSE /\ await' = [await EXCEPT ![o].at = "started", ![o].waiter = Running]
       /\ co' = [co EXCEPT !.frame[Running].at = "suspended", !.stack = Beneath]

StartReturns ==
  /\ co.stack # <<>> /\ At(Running) = "starting"
  /\ Suspend(co.frame[Running].on)

(* The callback: the result is stored, and the waiter taken and resumed, if   *)
(* there is one.  Inside the start there is none; once the coroutine is gone  *)
(* there is none either.                                                      *)
Callback(o) ==
  /\ await[o].at \in {"starting", "started"} /\ ~await[o].result
  /\ await' = [await EXCEPT ![o].result = TRUE, ![o].waiter = Nobody,
                            ![o].at = IF await[o].waiter # Nobody THEN "taken" ELSE @]
  /\ co' = IF await[o].waiter # Nobody
           THEN [co EXCEPT !.frame[await[o].waiter].at = "running",
                           !.stack = Append(@, await[o].waiter)]
           ELSE co

(* A call of the next coroutine, whose body runs before the call returns. *)
CallTask ==
  /\ MayRun /\ Running < Chain /\ At(Running + 1) = "none"
  /\ co' = [co EXCEPT !.frame[Running].at = "calling",
                      !.frame[Running + 1].at = "running",
                      !.stack = Append(@, Running + 1)]
  /\ UNCHANGED await

(* co_await of the task: a finished one does not suspend; another resumes its *)
(* caller when it ends.                                                       *)
AwaitChild(k) ==
  IF At(k + 1) = "done"
  THEN co' = [co EXCEPT !.frame[k].at = "running"]
  ELSE co' = [co EXCEPT !.frame[k].at = "suspended", !.frame[k].on = 0,
                        !.frame[k + 1].continuation = TRUE, !.stack = Beneath]

AwaitTask ==
  /\ co.stack # <<>> /\ At(Running) = "calling"
  /\ AwaitChild(Running) /\ UNCHANGED await

(* The body ends, by co_return or an exception: FinalAwaiter transfers to the *)
(* coroutine that awaits the task, if one does.                               *)
FinishTask(threw) ==
  LET ended == [co.frame EXCEPT ![Running].at = "done", ![Running].threw = threw]
  IN  /\ MayRun
      /\ co' = IF co.frame[Running].continuation
               THEN [co EXCEPT !.frame = [ended EXCEPT ![Running - 1].at = "running"],
                               !.stack = Append(Beneath, Running - 1)]
               ELSE [co EXCEPT !.frame = ended, !.stack = Beneath]
      /\ UNCHANGED await

\* Fault: the awaitable is destroyed without forgetting its waiter.
DetachNothing(gone) == await

(* ~ResultAwaitable(): the result of an operation that is still out is        *)
(* dropped when it comes.                                                     *)
Detach(gone) ==
  [o \in Awaits |->
     IF await[o].by \in gone THEN [await[o] EXCEPT !.waiter = Nobody] ELSE await[o]]

(* ~Task() of the outermost, or a move assignment over it: its frame goes,    *)
(* and with it the tasks and awaitables that are locals of it.  A frame that  *)
(* runs is not destroyed.                                                     *)
DestroyTask ==
  /\ At(1) \in {"suspended", "done"} /\ \A k \in Coroutines : ~OnStack(k)
  /\ co' = [co EXCEPT !.frame = [k \in Coroutines |->
              IF At(k) = "none" THEN co.frame[k]
              ELSE [co.frame[k] EXCEPT !.at = "destroyed", !.continuation = FALSE]]]
  /\ await' = Detach(Coroutines)

(* The child's task is a local of its caller: it goes when the caller has the *)
(* result.                                                                    *)
DropChild ==
  /\ MayRun /\ Running < Chain /\ At(Running + 1) = "done"
  /\ co' = [co EXCEPT !.frame[Running + 1].at = "destroyed",
                      !.frame[Running + 1].continuation = FALSE]
  /\ await' = Detach({Running + 1})

AsyncNext ==
  \/ StartTask \/ StartReturns \/ CallTask \/ AwaitTask \/ DestroyTask \/ DropChild
  \/ \E o \in Awaits : StartOperation(o) \/ Callback(o)
  \/ \E threw \in BOOLEAN : FinishTask(threw)

AsyncSpec == AsyncInit /\ [][AsyncNext]_asyncVars

(* Whoever will be resumed is there to be resumed: an operation's waiter, and *)
(* the coroutine a task continues with, are suspended on exactly that, so no  *)
(* resumption reaches a frame that is gone, runs or has been resumed already  *)
(* (await_suspend(), ~ResultAwaitable(), FinalAwaiter).                       *)
ResumesOnlyWaiting ==
  /\ \A o \in Awaits : await[o].waiter # Nobody =>
       LET k == await[o].waiter
       IN  /\ At(k) = "suspended" /\ co.frame[k].on = o
           /\ ~await[o].result
  /\ \A k \in Coroutines :
       k > 1 /\ co.frame[k].continuation /\ At(k) # "done" =>
         At(k - 1) = "suspended" /\ co.frame[k - 1].on = 0

(* Once every operation has called back and the stack has unwound, no         *)
(* coroutine that still exists is left waiting: a result that came before the *)
(* suspension, or a task that ended before it was awaited, is not slept over. *)
NobodySleepsOn ==
  co.stack = <<>> /\ (\A o \in Awaits : await[o].at = "unused" \/ await[o].result)
    => \A k \in Coroutines : At(k) # "suspended"

(* A coroutine is resumed exactly when what it awaits is there: never after   *)
(* it has gone, and never not at all (await_suspend(), ~ResultAwaitable()).   *)
CoroutinesSound == ResumesOnlyWaiting /\ NobodySleepsOn
=============================================================================
