------------------------ MODULE DiscreteEventEngine ------------------------
(***************************************************************************)
(* The virtual-time engine of cubesat_testbed/engine.py.                   *)
(*                                                                         *)
(* The engine is synchronous: run_until, run_until_idle and run_next are   *)
(* loops that call handlers, and a handler is user code that may schedule  *)
(* events, (un)register handlers and enter the engine again.  The Python   *)
(* call stack is therefore part of the state: `frames' holds one           *)
(* activation record per engine loop in progress, the innermost last.      *)
(***************************************************************************)
EXTENDS Integers, Sequences, FiniteSets

CONSTANTS
  Kind,          (* event kinds (EventKind)                                 *)
  Handler,       (* identities of registered handlers                       *)
  None,          (* Python's None: no horizon, no limit, no event           *)
  MaxTime,       (* bound: latest virtual time any call names               *)
  MaxEvents,     (* bound: events scheduled in one behaviour                *)
  MaxDepth,      (* bound: nested engine loops                              *)
  MaxBudget,     (* bound: largest max_events a call passes                 *)
  MaxHandlers    (* bound: handlers registered for one kind                 *)

VARIABLES
  now,           (* _now                                                    *)
  nextSeq,       (* _next_sequence                                          *)
  queue,         (* _queue: the heap, as the set of its items               *)
  handlers,      (* _handlers: registration order per kind                  *)
  frames,        (* the engine loops on the Python call stack               *)
  done           (* history: every event popped for dispatch                *)

vars == <<now, nextSeq, queue, handlers, frames, done>>

Time == 0..MaxTime

(* A queued item; `oneShot' says whether it carries its own handler.  The   *)
(* payload never influences the engine and is left out.                     *)
Event == [time : Nat, seq : Nat, kind : Kind, oneShot : BOOLEAN]

ASSUME EngineAssumption ==
  /\ MaxTime \in Nat
  /\ MaxEvents \in Nat
  /\ MaxDepth \in Nat
  /\ MaxBudget \in Nat
  /\ MaxHandlers \in Nat
  /\ None \notin Nat
  /\ None \notin Event

(* One engine loop.  stage "loop": between two events.  stage "oneShot":    *)
(* the item's own handler is running.  stage "kind": the head of `pending'  *)
(* is running and the rest of the snapshot is still to be called.           *)
Frame == [horizon : Nat \cup {None}, budget : Nat \cup {None},
          stage : {"loop", "oneShot", "kind"},
          event : Event \cup {None}, pending : Seq(Handler)]

(* _QueuedEvent orders items by (time, sequence).                           *)
Precedes(d, e) == d.time < e.time \/ (d.time = e.time /\ d.seq < e.seq)

(* Mutant: a heap ordered by time alone.                                    *)
IsFirst_TimeOnly(e) == e \in queue /\ \A d \in queue : e.time <= d.time

IsFirst(e) == e \in queue /\ \A d \in queue \ {e} : Precedes(e, d)

Due(e, horizon) == horizon # None => e.time <= horizon

Init ==
  /\ now \in Time
  /\ nextSeq = 0
  /\ queue = {}
  /\ handlers = [k \in Kind |-> <<>>]
  /\ frames = <<>>
  /\ done = {}

-----------------------------------------------------------------------------
Top == frames[Len(frames)]
Below == SubSeq(frames, 1, Len(frames) - 1)
Replace(f) == Append(Below, f)

InLoop == frames # <<>> /\ Top.stage = "loop"
InHandler == frames # <<>> /\ Top.stage # "loop"

(* User code has control: the caller of the engine, or a handler body.      *)
UserCode == frames = <<>> \/ InHandler

-----------------------------------------------------------------------------
(* Calls of user code.                                                      *)

(* schedule_at with an admissible time; schedule_after and the typed        *)
(* schedule_* helpers add a non-negative delay to `now' and end here.       *)
ScheduleAt(t, k, o) ==
  /\ UserCode
  /\ nextSeq < MaxEvents
  /\ t >= now
  /\ queue' = queue \cup {[time |-> t, seq |-> nextSeq, kind |-> k, oneShot |-> o]}
  /\ nextSeq' = nextSeq + 1
  /\ UNCHANGED <<now, handlers, frames, done>>

AddHandler(k, h) ==
  /\ UserCode
  /\ Len(handlers[k]) < MaxHandlers
  /\ handlers' = [handlers EXCEPT ![k] = Append(@, h)]
  /\ UNCHANGED <<now, nextSeq, queue, frames, done>>

(* list.remove: the first registration of the handler goes.                 *)
RemoveHandler(k, h) ==
  /\ UserCode
  /\ \E i \in 1..Len(handlers[k]) :
       /\ handlers[k][i] = h
       /\ \A j \in 1..(i - 1) : handlers[k][j] # h
       /\ handlers' = [handlers EXCEPT ![k] =
                         SubSeq(@, 1, i - 1) \o SubSeq(@, i + 1, Len(@))]
  /\ UNCHANGED <<now, nextSeq, queue, frames, done>>

Enter(horizon, budget) ==
  /\ UserCode
  /\ Len(frames) < MaxDepth
  /\ frames' = Append(frames, [horizon |-> horizon, budget |-> budget,
                               stage |-> "loop", event |-> None, pending |-> <<>>])
  /\ UNCHANGED <<now, nextSeq, queue, handlers, done>>

(* Mutant: run_until without its check of the horizon.                      *)
RunUntil_NoCheck(horizon, budget) == Enter(horizon, budget)

RunUntil(horizon, budget) == horizon >= now /\ Enter(horizon, budget)
RunUntilIdle(budget) == Enter(None, budget)

(* run_next pops one event and dispatches it: a loop that ends after one.   *)
RunNext == Enter(None, 1)

AdvanceTo(t) ==
  /\ UserCode
  /\ t >= now
  /\ \A e \in queue : e.time >= t
  /\ now' = t
  /\ UNCHANGED <<nextSeq, queue, handlers, frames, done>>

-----------------------------------------------------------------------------
(* Steps of the innermost engine loop.                                      *)

(* Mutant: the loop keeps the event it has finished.                        *)
Calling_KeepsEvent(f, pending) ==
  [f EXCEPT !.pending = pending, !.stage = IF pending = <<>> THEN "loop" ELSE "kind"]

(* The frame once `pending' is what is left of the snapshot to call.        *)
Calling(f, pending) ==
  [horizon |-> f.horizon, budget |-> f.budget, pending |-> pending,
   stage |-> IF pending = <<>> THEN "loop" ELSE "kind",
   event |-> IF pending = <<>> THEN None ELSE f.event]

(* The frame while the item's own handler runs, one event of its budget     *)
(* spent.                                                                   *)
Taking(f, e) ==
  [horizon |-> f.horizon, pending |-> <<>>, stage |-> "oneShot", event |-> e,
   budget |-> IF f.budget = None THEN None ELSE f.budget - 1]

(* Mutant: virtual time moves only when the loop ends.                      *)
Dispatch_LateJump ==
  /\ InLoop
  /\ Top.budget # 0
  /\ \E e \in queue :
       /\ IsFirst(e)
       /\ Due(e, Top.horizon)
       /\ queue' = queue \ {e}
       /\ done' = done \cup {e}
       /\ frames' = Replace(IF e.oneShot THEN Taking(Top, e)
                                         ELSE Calling(Taking(Top, e), handlers[e.kind]))
  /\ UNCHANGED <<now, nextSeq, handlers>>

(* heappop, the jump of virtual time, and the first call of _dispatch.      *)
Dispatch ==
  /\ InLoop
  /\ Top.budget # 0
  /\ \E e \in queue :
       /\ IsFirst(e)
       /\ Due(e, Top.horizon)
       /\ queue' = queue \ {e}
       /\ done' = done \cup {e}
       /\ now' = e.time
       /\ LET f == Taking(Top, e)
          IN  frames' = Replace(IF e.oneShot THEN f ELSE Calling(f, handlers[e.kind]))
  /\ UNCHANGED <<nextSeq, handlers>>

(* The item's own handler returns; only now is the tuple of the kind's      *)
(* handlers taken, so a handler it registered is part of it.                *)
OneShotReturns ==
  /\ InHandler
  /\ Top.stage = "oneShot"
  /\ frames' = Replace(Calling(Top, handlers[Top.event.kind]))
  /\ UNCHANGED <<now, nextSeq, queue, handlers, done>>

KindHandlerReturns ==
  /\ InHandler
  /\ Top.stage = "kind"
  /\ frames' = Replace(Calling(Top, Tail(Top.pending)))
  /\ UNCHANGED <<now, nextSeq, queue, handlers, done>>

(* Mutant: the limit is noticed after the pop.                              *)
StopByLimit_Pops ==
  /\ InLoop
  /\ Top.budget = 0
  /\ \E e \in queue : IsFirst(e) /\ Due(e, Top.horizon) /\ queue' = queue \ {e}
  /\ frames' = Below
  /\ UNCHANGED <<now, nextSeq, handlers, done>>

(* max_events is used up with an event still due: virtual time stays.       *)
StopByLimit ==
  /\ InLoop
  /\ Top.budget = 0
  /\ \E e \in queue : Due(e, Top.horizon)
  /\ frames' = Below
  /\ UNCHANGED <<now, nextSeq, queue, handlers, done>>

(* Nothing is due any more: run_until jumps to its horizon.                 *)
Finish ==
  /\ InLoop
  /\ \A e \in queue : ~Due(e, Top.horizon)
  /\ now' = IF Top.horizon = None THEN now ELSE Top.horizon
  /\ frames' = Below
  /\ UNCHANGED <<nextSeq, queue, handlers, done>>

(* An exception leaves a handler and is caught by the user code below the   *)
(* k-th loop: no engine loop handles it, so the loops above are abandoned   *)
(* where they are, with their event consumed and its later handlers not     *)
(* called.                                                                  *)
HandlerRaises ==
  /\ InHandler
  /\ \E k \in 0..(Len(frames) - 1) : frames' = SubSeq(frames, 1, k)
  /\ UNCHANGED <<now, nextSeq, queue, handlers, done>>

-----------------------------------------------------------------------------
(* How the testbed uses the engine: scenario steps call run_until with any  *)
(* later horizon, a handler only re-enters it with horizon = now            *)
(* (ScenarioRunner._run_current_events).                                    *)
Budget == {None} \cup 0..MaxBudget

Step ==
  \/ \E t \in Time, k \in Kind, o \in BOOLEAN : ScheduleAt(t, k, o)
  \/ \E k \in Kind, h \in Handler : AddHandler(k, h) \/ RemoveHandler(k, h)
  \/ Dispatch
  \/ OneShotReturns
  \/ KindHandlerReturns
  \/ StopByLimit
  \/ Finish
  \/ HandlerRaises

CallerStep ==
  /\ frames = <<>>
  /\ \/ \E t \in Time : AdvanceTo(t)
     \/ \E t \in Time, b \in Budget : RunUntil(t, b)
     \/ \E b \in Budget : RunUntilIdle(b)
     \/ RunNext

HandlerStep ==
  /\ InHandler
  /\ \E b \in Budget : RunUntil(now, b)

Next == Step \/ CallerStep \/ HandlerStep
Spec == Init /\ [][Next]_vars

-----------------------------------------------------------------------------
TypeOK ==
  /\ now \in Nat
  /\ nextSeq \in Nat
  /\ queue \subseteq Event
  /\ handlers \in [Kind -> Seq(Handler)]
  /\ frames \in Seq(Frame)
  /\ done \subseteq Event
  /\ \A i \in 1..Len(frames) :
       /\ (frames[i].stage = "loop") = (frames[i].event = None)
       /\ (frames[i].stage = "kind") = (frames[i].pending # <<>>)
       /\ i < Len(frames) => frames[i].stage # "loop"

(* No event waits at a time that has passed: whatever handlers schedule,    *)
(* whichever loops nest and wherever max_events cuts a run_until short.     *)
QueueNotInPast == \A e \in queue : e.time >= now

(* Every event that has been dispatched comes before every event that has   *)
(* not, in (time, sequence) order: dispatch order over the whole run is the *)
(* sorted order the class documents, across nested loops and exceptions.    *)
DoneBeforePending == \A d \in done, e \in queue : Precedes(d, e)

(* Virtual time and dispatch follow the one order of (time, sequence).      *)
DispatchOrder == QueueNotInPast /\ DoneBeforePending

(* A handler reads in engine.now the time of the event it was called for,   *)
(* even after it has run the engine again: advance_cycles(now=engine.now)   *)
(* and the re-armed timer of ScenarioRunner._on_step depend on it.          *)
HandlersAtEventTime ==
  \A i \in 1..Len(frames) :
    frames[i].stage # "loop" => now = frames[i].event.time

(* Each scheduled event is either waiting or was taken exactly once.        *)
NoEventLost ==
  /\ {e.seq : e \in queue \cup done} = 0..(nextSeq - 1)
  /\ \A d, e \in queue \cup done : d.seq = e.seq => d = e
  /\ queue \cap done = {}

(* Virtual time never runs backward: run_until and advance_to refuse an     *)
(* earlier time, and a run_until that ends must not undo a later jump.      *)
TimeNeverBackward == [][now' >= now]_vars

(* What makes the above inductive: a nested loop stands at `now' (the       *)
(* outermost one has its horizon ahead), and what was dispatched is past    *)
(* and carries a sequence number already given out.                         *)
LoopsAtNow ==
  \A i \in 1..Len(frames) :
    frames[i].horizon # None =>
      frames[i].horizon >= now /\ (i > 1 => frames[i].horizon = now)

NestedLoopsBounded == \A i \in 2..Len(frames) : frames[i].horizon # None

DoneInPast == \A d \in done : d.time <= now

SequencesGivenOut == \A e \in queue \cup done : e.seq < nextSeq

EngineInv ==
  /\ TypeOK
  /\ QueueNotInPast
  /\ DoneBeforePending
  /\ HandlersAtEventTime
  /\ LoopsAtNow
  /\ NestedLoopsBounded
  /\ DoneInPast
  /\ SequencesGivenOut
=============================================================================
