------------------------ MODULE EngineAndFaultProofs ------------------------
(***************************************************************************)
(* Theorems about the event engine and about the fault registry attached   *)
(* to it, for every value of their constants: two specifications that      *)
(* share no variable.                                                      *)
(***************************************************************************)
EXTENDS DiscreteEventEngine, FaultInjection, TLAPS

-----------------------------------------------------------------------------
(* The event engine.                                                         *)

(* Init establishes the inductive invariant of the engine.                  *)
LEMMA EngineInitInv == Init => EngineInv
  BY EngineAssumption
  DEF Init, EngineInv, TypeOK, QueueNotInPast, DoneBeforePending,
      HandlersAtEventTime, LoopsAtNow, NestedLoopsBounded, DoneInPast,
      SequencesGivenOut, Time, Event, Frame

(* A user call that adds an engine loop, with a horizon no handler may pass. *)
LEMMA EnterInv ==
  ASSUME EngineInv, NEW h \in Nat \cup {None}, NEW b \in Nat \cup {None},
         h = None => frames = <<>>,
         h # None => h >= now /\ (frames # <<>> => h = now),
         Enter(h, b)
  PROVE  EngineInv'
<1> DEFINE f == [horizon |-> h, budget |-> b, stage |-> "loop", event |-> None, pending |-> <<>>]
<1>1. f \in Frame
  BY DEF Frame
<1>2. frames' = Append(frames, f) /\ frames \in Seq(Frame)
  BY DEF EngineInv, TypeOK, Enter
<1>3. frames' \in Seq(Frame) /\ Len(frames') = Len(frames) + 1
      /\ frames'[Len(frames) + 1] = f
      /\ \A i \in 1..Len(frames) : frames'[i] = frames[i]
  BY <1>1, <1>2
<1>4. \A i \in 1..Len(frames) : frames[i].stage # "loop"
  BY <1>2 DEF EngineInv, TypeOK, Enter, UserCode, InHandler, Top
<1>5. TypeOK'
  BY <1>3, <1>4, <1>2, EngineAssumption DEF EngineInv, TypeOK, Enter
<1>6. QueueNotInPast' /\ DoneBeforePending' /\ DoneInPast' /\ SequencesGivenOut'
  BY DEF EngineInv, Enter, QueueNotInPast, DoneBeforePending, DoneInPast,
         SequencesGivenOut, Precedes
<1>7. HandlersAtEventTime'
  BY <1>2, <1>3 DEF EngineInv, Enter, HandlersAtEventTime
<1>8. LoopsAtNow' /\ NestedLoopsBounded'
  BY <1>2, <1>3, EngineAssumption DEF EngineInv, Enter, LoopsAtNow, NestedLoopsBounded, TypeOK
<1> QED
  BY <1>5, <1>6, <1>7, <1>8 DEF EngineInv

(* A step that leaves the timeline alone and replaces or removes loops at   *)
(* the top of the stack: handlers returning or raising, a loop stopped by   *)
(* its limit.                                                               *)
LEMMA KeepTimelineInv ==
  ASSUME EngineInv,
         UNCHANGED <<now, nextSeq, queue, done>>,
         handlers' \in [Kind -> Seq(Handler)],
         frames' \in Seq(Frame), Len(frames') <= Len(frames),
         \A i \in 1..Len(frames') :
           /\ frames'[i].horizon = frames[i].horizon
           /\ frames'[i].stage # "loop" => frames[i].stage # "loop" /\ frames'[i].event = frames[i].event
           /\ (frames'[i].stage = "loop") = (frames'[i].event = None)
           /\ (frames'[i].stage = "kind") = (frames'[i].pending # <<>>)
           /\ i < Len(frames') => frames'[i].stage # "loop"
  PROVE  EngineInv'
<1>1. TypeOK'
  BY DEF EngineInv, TypeOK
<1>2. QueueNotInPast' /\ DoneBeforePending' /\ DoneInPast' /\ SequencesGivenOut'
  BY DEF EngineInv, QueueNotInPast, DoneBeforePending, DoneInPast, SequencesGivenOut, Precedes
<1>3. HandlersAtEventTime'
  BY DEF EngineInv, TypeOK, HandlersAtEventTime
<1>4. \A i \in 1..Len(frames') : i \in 1..Len(frames) /\ frames'[i].horizon = frames[i].horizon
  BY DEF EngineInv, TypeOK
<1>5. LoopsAtNow'
  BY <1>4 DEF EngineInv, LoopsAtNow
<1>6. \A i \in 2..Len(frames') : i \in 1..Len(frames') /\ i \in 2..Len(frames)
  BY DEF EngineInv, TypeOK
<1>7. NestedLoopsBounded'
  BY <1>4, <1>6 DEF EngineInv, NestedLoopsBounded
<1> QED
  BY <1>1, <1>2, <1>3, <1>5, <1>7 DEF EngineInv

(* What a loop frame looks like after a call of a handler has returned.     *)
LEMMA CallingFrame ==
  ASSUME NEW f \in Frame, f.event # None, NEW p \in Seq(Handler)
  PROVE  /\ Calling(f, p) \in Frame
         /\ Calling(f, p).horizon = f.horizon
         /\ Calling(f, p).stage \in {"loop", "kind"}
         /\ Calling(f, p).stage = "loop" => p = <<>> /\ Calling(f, p).event = None
         /\ Calling(f, p).stage = "kind" => p # <<>> /\ Calling(f, p).event = f.event
         /\ Calling(f, p).pending = p
  BY DEF Calling, Frame

(* Cutting the call stack back to its k outermost loops.                    *)
LEMMA BelowFrames ==
  ASSUME frames \in Seq(Frame), NEW k \in 0..Len(frames)
  PROVE  /\ SubSeq(frames, 1, k) \in Seq(Frame)
         /\ Len(SubSeq(frames, 1, k)) = k
         /\ \A i \in 1..k : SubSeq(frames, 1, k)[i] = frames[i]
  OBVIOUS

(* Replacing the innermost loop.                                            *)
LEMMA ReplaceFrame ==
  ASSUME frames \in Seq(Frame), frames # <<>>, NEW f \in Frame
  PROVE  /\ Replace(f) \in Seq(Frame)
         /\ Len(Replace(f)) = Len(frames)
         /\ Replace(f)[Len(frames)] = f
         /\ \A i \in 1..(Len(frames) - 1) : Replace(f)[i] = frames[i]
<1>1. Below \in Seq(Frame) /\ Len(Below) = Len(frames) - 1
      /\ \A i \in 1..(Len(frames) - 1) : Below[i] = frames[i]
  <2>1. Len(frames) - 1 \in 0..Len(frames)
    BY SMT
  <2> QED
    BY <2>1, BelowFrames DEF Below
<1> QED
  BY <1>1 DEF Replace

(* The innermost loop is a frame of the stack.                              *)
LEMMA TopFrame ==
  ASSUME EngineInv, frames # <<>>
  PROVE  Top \in Frame /\ Len(frames) \in 1..Len(frames) /\ Top = frames[Len(frames)]
  BY DEF EngineInv, TypeOK, Top

(* Handlers that return or raise, and a loop cut short, keep the invariant. *)
LEMMA HandlerReturnsInv ==
  ASSUME EngineInv, OneShotReturns \/ KindHandlerReturns \/ HandlerRaises \/ StopByLimit
  PROVE  EngineInv'
<1>0. /\ frames \in Seq(Frame) /\ frames # <<>> /\ Top \in Frame
      /\ Top = frames[Len(frames)] /\ Len(frames) \in 1..Len(frames)
      /\ UNCHANGED <<now, nextSeq, queue, done, handlers>>
      /\ handlers \in [Kind -> Seq(Handler)]
  BY TopFrame DEF EngineInv, TypeOK, OneShotReturns, KindHandlerReturns, HandlerRaises,
                  StopByLimit, InHandler, InLoop
<1>1. ASSUME NEW p \in Seq(Handler), frames' = Replace(Calling(Top, p)), InHandler
      PROVE  EngineInv'
  <2> DEFINE f == Calling(Top, p)
  <2>1. Top.event # None /\ Top.stage # "loop"
    BY <1>0, <1>1 DEF EngineInv, TypeOK, InHandler
  <2>2. /\ f \in Frame /\ f.horizon = Top.horizon
        /\ f.stage # "loop" => f.event = Top.event
        /\ (f.stage = "loop") = (f.event = None)
        /\ (f.stage = "kind") = (f.pending # <<>>)
    BY <1>0, <2>1, CallingFrame
  <2>3. /\ frames' \in Seq(Frame) /\ Len(frames') = Len(frames)
        /\ frames'[Len(frames)] = f
        /\ \A i \in 1..(Len(frames) - 1) : frames'[i] = frames[i]
    BY <1>0, <1>1, <2>2, ReplaceFrame
  <2> HIDE DEF f
  <2>4. ASSUME NEW i \in 1..Len(frames')
        PROVE  /\ frames'[i].horizon = frames[i].horizon
               /\ frames'[i].stage # "loop" => frames[i].stage # "loop" /\ frames'[i].event = frames[i].event
               /\ (frames'[i].stage = "loop") = (frames'[i].event = None)
               /\ (frames'[i].stage = "kind") = (frames'[i].pending # <<>>)
               /\ i < Len(frames') => frames'[i].stage # "loop"
    <3>1. CASE i = Len(frames)
      BY <3>1, <1>0, <2>1, <2>2, <2>3
    <3>2. CASE i # Len(frames)
      <4>1. i \in 1..Len(frames) /\ i < Len(frames) /\ frames'[i] = frames[i]
        BY <3>2, <1>0, <2>3
      <4> QED
        BY <4>1 DEF EngineInv, TypeOK
    <3> QED
      BY <3>1, <3>2
  <2> QED
    BY <1>0, <2>3, <2>4, KeepTimelineInv
<1>2. CASE OneShotReturns
  <2>1. Top.event # None
    BY <1>0, <1>2 DEF EngineInv, TypeOK, OneShotReturns
  <2>2. Top.event.kind \in Kind
    BY <1>0, <2>1 DEF Frame, Event
  <2>3. handlers[Top.event.kind] \in Seq(Handler)
    BY <1>0, <2>2
  <2> QED
    BY <1>1, <1>2, <2>3 DEF OneShotReturns
<1>3. CASE KindHandlerReturns
  <2>1. Top.pending \in Seq(Handler) /\ Top.pending # <<>>
    BY <1>0, <1>3 DEF EngineInv, TypeOK, KindHandlerReturns, Frame
  <2>2. Tail(Top.pending) \in Seq(Handler)
    BY <2>1
  <2> QED
    BY <1>1, <1>3, <2>2 DEF KindHandlerReturns
<1>4. ASSUME NEW k \in 0..(Len(frames) - 1), frames' = SubSeq(frames, 1, k)
      PROVE  EngineInv'
  <2>1. frames' \in Seq(Frame) /\ Len(frames') = k /\ \A i \in 1..k : frames'[i] = frames[i]
    BY <1>0, <1>4, BelowFrames
  <2>2. k <= Len(frames) /\ \A i \in 1..k : i < Len(frames) /\ i \in 1..Len(frames)
    BY <1>0
  <2>3. \A i \in 1..k :
          /\ frames[i].stage # "loop"
          /\ (frames[i].stage = "loop") = (frames[i].event = None)
          /\ (frames[i].stage = "kind") = (frames[i].pending # <<>>)
    BY <2>2 DEF EngineInv, TypeOK
  <2> QED
    BY <1>0, <2>1, <2>2, <2>3, KeepTimelineInv
<1>5. CASE HandlerRaises
  BY <1>4, <1>5 DEF HandlerRaises
<1>6. CASE StopByLimit
  <2>1. Len(frames) - 1 \in 0..(Len(frames) - 1)
    BY <1>0
  <2>2. frames' = SubSeq(frames, 1, Len(frames) - 1)
    BY <1>6 DEF StopByLimit, Below
  <2> QED
    BY <1>4, <2>1, <2>2
<1> QED
  BY <1>2, <1>3, <1>5, <1>6

(* Popping the first due event: virtual time jumps to it, which for a       *)
(* nested loop is no jump at all.                                           *)
LEMMA DispatchInv ==
  ASSUME EngineInv, Dispatch
  PROVE  EngineInv' /\ now' >= now
<1>0. /\ frames \in Seq(Frame) /\ frames # <<>> /\ Top \in Frame
      /\ Top = frames[Len(frames)] /\ Len(frames) \in 1..Len(frames)
      /\ now \in Nat /\ nextSeq \in Nat /\ queue \subseteq Event /\ done \subseteq Event
      /\ handlers \in [Kind -> Seq(Handler)]
      /\ Top.stage = "loop" /\ Top.budget # 0 /\ UNCHANGED <<nextSeq, handlers>>
  BY TopFrame DEF EngineInv, TypeOK, Dispatch, InLoop
<1>1. PICK e \in queue :
        /\ \A d \in queue \ {e} : Precedes(e, d)
        /\ Due(e, Top.horizon)
        /\ queue' = queue \ {e}
        /\ done' = done \cup {e}
        /\ now' = e.time
        /\ frames' = Replace(IF e.oneShot THEN Taking(Top, e)
                                          ELSE Calling(Taking(Top, e), handlers[e.kind]))
  BY DEF Dispatch, IsFirst
<1>2. e \in Event /\ e.time \in Nat /\ e.seq \in Nat /\ e.kind \in Kind /\ e.time >= now
      /\ e # None
  BY <1>0, <1>1, EngineAssumption DEF EngineInv, QueueNotInPast, Event, TypeOK
<1> DEFINE g == Taking(Top, e)
           f == IF e.oneShot THEN g ELSE Calling(g, handlers[e.kind])
<1>3. g \in Frame /\ g.horizon = Top.horizon /\ g.event = e /\ g.stage = "oneShot"
      /\ g.pending = <<>>
  BY <1>0, <1>2 DEF Taking, Frame
<1>4. handlers[e.kind] \in Seq(Handler)
  BY <1>0, <1>2
<1> HIDE DEF g
<1>5. /\ f \in Frame /\ f.horizon = Top.horizon
      /\ f.stage # "loop" => f.event = e
      /\ (f.stage = "loop") = (f.event = None)
      /\ (f.stage = "kind") = (f.pending # <<>>)
  <2>1. CASE e.oneShot
    BY <2>1, <1>2, <1>3
  <2>2. CASE ~e.oneShot
    BY <2>2, <1>2, <1>3, <1>4, CallingFrame
  <2> QED
    BY <2>1, <2>2
<1>6. frames' = Replace(f)
  BY <1>1 DEF g
<1> HIDE DEF f
<1>7. /\ frames' \in Seq(Frame) /\ Len(frames') = Len(frames)
      /\ frames'[Len(frames)] = f
      /\ \A i \in 1..(Len(frames) - 1) : frames'[i] = frames[i]
  BY <1>0, <1>5, <1>6, ReplaceFrame
<1>8. \A i \in 1..(Len(frames) - 1) : i \in 1..Len(frames) /\ i < Len(frames)
  BY <1>0
<1>9. Len(frames) > 1 => now' = now
  BY <1>0, <1>1, <1>2 DEF EngineInv, LoopsAtNow, NestedLoopsBounded, Due
<1>10. Top.horizon # None => Top.horizon >= now' /\ Top.horizon \in Nat
  BY <1>0, <1>1 DEF Due, Frame
<1>11. TypeOK'
  <2>1. now' \in Nat /\ nextSeq' \in Nat /\ queue' \subseteq Event /\ done' \subseteq Event
        /\ handlers' \in [Kind -> Seq(Handler)]
    BY <1>0, <1>1, <1>2
  <2>2. ASSUME NEW i \in 1..Len(frames')
        PROVE  /\ (frames'[i].stage = "loop") = (frames'[i].event = None)
               /\ (frames'[i].stage = "kind") = (frames'[i].pending # <<>>)
               /\ i < Len(frames') => frames'[i].stage # "loop"
    <3>1. CASE i = Len(frames)
      BY <3>1, <1>0, <1>5, <1>7
    <3>2. CASE i # Len(frames)
      <4>1. i \in 1..Len(frames) /\ i < Len(frames) /\ frames'[i] = frames[i]
        BY <3>2, <1>0, <1>7
      <4> QED
        BY <4>1 DEF EngineInv, TypeOK
    <3> QED
      BY <3>1, <3>2
  <2> QED
    BY <2>1, <2>2, <1>7 DEF TypeOK
<1>12. QueueNotInPast' /\ DoneInPast'
  <2>1. \A d \in queue \ {e} : d.time >= e.time
    BY <1>0, <1>1, <1>2 DEF Precedes, Event
  <2>2. \A d \in done : d.time <= e.time
    BY <1>0, <1>2 DEF EngineInv, DoneInPast, Event
  <2> QED
    BY <1>1, <1>2, <2>1, <2>2 DEF QueueNotInPast, DoneInPast
<1>13. DoneBeforePending' /\ SequencesGivenOut'
  BY <1>0, <1>1 DEF EngineInv, DoneBeforePending, SequencesGivenOut, Precedes
<1>14. HandlersAtEventTime'
  <2>1. ASSUME NEW i \in 1..Len(frames'), frames'[i].stage # "loop"
        PROVE  now' = frames'[i].event.time
    <3>1. CASE i = Len(frames)
      BY <3>1, <2>1, <1>1, <1>5, <1>7
    <3>2. CASE i # Len(frames)
      BY <3>2, <2>1, <1>7, <1>8, <1>9, <1>0 DEF EngineInv, HandlersAtEventTime
    <3> QED
      BY <3>1, <3>2
  <2> QED
    BY <2>1 DEF HandlersAtEventTime
<1>15. LoopsAtNow' /\ NestedLoopsBounded'
  <2>1. ASSUME NEW i \in 1..Len(frames')
        PROVE  /\ frames'[i].horizon # None =>
                     frames'[i].horizon >= now' /\ (i > 1 => frames'[i].horizon = now')
               /\ i > 1 => frames'[i].horizon # None
    <3>1. i \in 1..Len(frames) /\ frames'[i].horizon = frames[i].horizon
      BY <1>0, <1>5, <1>7
    <3>2. CASE Len(frames) > 1
      BY <3>1, <3>2, <1>9 DEF EngineInv, LoopsAtNow, NestedLoopsBounded
    <3>3. CASE Len(frames) = 1
      BY <3>1, <3>3, <1>0, <1>10
    <3>4. Len(frames) = 1 \/ Len(frames) > 1
      <4>1. Len(frames) \in Nat
        BY <1>0
      <4>2. Len(frames) >= 1
        BY <1>0
      <4>3. \A n \in Nat : n >= 1 => n = 1 \/ n > 1
        OBVIOUS
      <4> QED
        BY <4>1, <4>2, <4>3
    <3> QED
      BY <3>2, <3>3, <3>4
  <2>2. \A i \in 2..Len(frames') : i \in 1..Len(frames') /\ i > 1
    BY <1>0, <1>7
  <2> QED
    BY <2>1, <2>2 DEF LoopsAtNow, NestedLoopsBounded
<1> QED
  BY <1>0, <1>1, <1>2, <1>11, <1>12, <1>13, <1>14, <1>15 DEF EngineInv

(* The end of run_until: the jump to its horizon passes no waiting event.   *)
LEMMA FinishInv ==
  ASSUME EngineInv, Finish
  PROVE  EngineInv' /\ now' >= now
<1>0. /\ frames \in Seq(Frame) /\ frames # <<>> /\ Top \in Frame
      /\ Top = frames[Len(frames)] /\ Len(frames) \in 1..Len(frames)
      /\ now \in Nat /\ queue \subseteq Event /\ done \subseteq Event
      /\ UNCHANGED <<nextSeq, handlers, queue, done>>
  BY TopFrame DEF EngineInv, TypeOK, Finish, InLoop
<1>1. now' \in Nat /\ now' >= now /\ (Len(frames) > 1 => now' = now)
  <2>1. /\ Top.horizon \in Nat \cup {None}
        /\ Top.horizon # None => Top.horizon >= now
        /\ Len(frames) > 1 => Top.horizon # None /\ Top.horizon = now
    BY <1>0 DEF EngineInv, LoopsAtNow, NestedLoopsBounded, Frame
  <2>2. now' = IF Top.horizon = None THEN now ELSE Top.horizon
    BY DEF Finish
  <2> QED
    BY <1>0, <2>1, <2>2
<1>2. Len(frames) - 1 \in 0..Len(frames)
  BY <1>0
<1>3. /\ frames' \in Seq(Frame) /\ Len(frames') = Len(frames) - 1
      /\ \A i \in 1..(Len(frames) - 1) : frames'[i] = frames[i]
  BY <1>0, <1>2, BelowFrames DEF Finish, Below
<1>4. \A i \in 1..Len(frames') :
        i \in 1..Len(frames) /\ i < Len(frames) /\ frames'[i] = frames[i] /\ now' = now
  BY <1>0, <1>1, <1>3
<1>5. TypeOK'
  BY <1>0, <1>1, <1>3, <1>4, ZenonT(40) DEF EngineInv, TypeOK
<1>6. QueueNotInPast'
  BY <1>0 DEF EngineInv, Finish, QueueNotInPast, Due, Event, Frame
<1>7. DoneInPast'
  BY <1>0, <1>1 DEF EngineInv, DoneInPast, Event
<1>8. DoneBeforePending' /\ SequencesGivenOut'
  BY <1>0 DEF EngineInv, DoneBeforePending, SequencesGivenOut, Precedes
<1>9. HandlersAtEventTime' /\ LoopsAtNow'
  BY <1>4 DEF EngineInv, HandlersAtEventTime, LoopsAtNow
<1>10. \A i \in 2..Len(frames') : i \in 1..Len(frames') /\ i \in 2..Len(frames)
  BY <1>0, <1>3
<1>11. NestedLoopsBounded'
  BY <1>4, <1>10 DEF EngineInv, NestedLoopsBounded
<1> QED
  BY <1>1, <1>5, <1>6, <1>7, <1>8, <1>9, <1>11 DEF EngineInv

(* User code that touches the registrations only, or only the clock.        *)
LEMMA UserCallInv ==
  ASSUME EngineInv,
         \/ \E t \in Time, k \in Kind, o \in BOOLEAN : ScheduleAt(t, k, o)
         \/ \E k \in Kind, h \in Handler : AddHandler(k, h) \/ RemoveHandler(k, h)
  PROVE  EngineInv' /\ now' = now
<1>1. ASSUME NEW t \in Time, NEW k \in Kind, NEW o \in BOOLEAN, ScheduleAt(t, k, o)
      PROVE  EngineInv' /\ now' = now
  <2> DEFINE e == [time |-> t, seq |-> nextSeq, kind |-> k, oneShot |-> o]
  <2>1. /\ e \in Event /\ e.time = t /\ e.seq = nextSeq /\ t \in Nat /\ t >= now
        /\ queue' = queue \cup {e} /\ nextSeq' = nextSeq + 1
        /\ UNCHANGED <<now, handlers, frames, done>>
        /\ now \in Nat /\ nextSeq \in Nat /\ queue \subseteq Event /\ done \subseteq Event
    BY <1>1, EngineAssumption DEF ScheduleAt, EngineInv, TypeOK, Time, Event
  <2> HIDE DEF e
  <2>2. TypeOK'
    BY <2>1 DEF EngineInv, TypeOK
  <2>3. QueueNotInPast' /\ DoneInPast'
    BY <2>1 DEF EngineInv, QueueNotInPast, DoneInPast
  <2>4. SequencesGivenOut'
    BY <2>1 DEF EngineInv, SequencesGivenOut, Event
  <2>5. \A d \in done : Precedes(d, e)
    BY <2>1 DEF EngineInv, DoneInPast, SequencesGivenOut, Precedes, Event
  <2>6. DoneBeforePending'
    BY <2>1, <2>5 DEF EngineInv, DoneBeforePending, Precedes
  <2>7. HandlersAtEventTime' /\ LoopsAtNow' /\ NestedLoopsBounded'
    BY <2>1 DEF EngineInv, HandlersAtEventTime, LoopsAtNow, NestedLoopsBounded
  <2> QED
    BY <2>1, <2>2, <2>3, <2>4, <2>6, <2>7 DEF EngineInv
<1>2. ASSUME handlers' \in [Kind -> Seq(Handler)], UNCHANGED <<now, nextSeq, queue, frames, done>>
      PROVE  EngineInv' /\ now' = now
  BY <1>2 DEF EngineInv, TypeOK, QueueNotInPast, DoneBeforePending, HandlersAtEventTime,
              LoopsAtNow, NestedLoopsBounded, DoneInPast, SequencesGivenOut, Precedes
<1>3. ASSUME NEW k \in Kind, NEW h \in Handler, AddHandler(k, h)
      PROVE  EngineInv' /\ now' = now
  <2>1. Append(handlers[k], h) \in Seq(Handler)
    BY DEF EngineInv, TypeOK
  <2> QED
    BY <1>2, <1>3, <2>1 DEF AddHandler, EngineInv, TypeOK
<1>4. ASSUME NEW k \in Kind, NEW h \in Handler, RemoveHandler(k, h)
      PROVE  EngineInv' /\ now' = now
  <2>1. PICK i \in 1..Len(handlers[k]) :
          handlers' = [handlers EXCEPT ![k] =
                         SubSeq(handlers[k], 1, i - 1)
                           \o SubSeq(handlers[k], i + 1, Len(handlers[k]))]
    BY <1>4 DEF RemoveHandler
  <2>2. handlers \in [Kind -> Seq(Handler)] /\ handlers[k] \in Seq(Handler)
    BY DEF EngineInv, TypeOK
  <2>3. /\ SubSeq(handlers[k], 1, i - 1) \in Seq(Handler)
        /\ SubSeq(handlers[k], i + 1, Len(handlers[k])) \in Seq(Handler)
    BY <2>2
  <2>4. handlers' \in [Kind -> Seq(Handler)]
    BY <2>1, <2>2, <2>3
  <2> QED
    BY <1>2, <1>4, <2>4 DEF RemoveHandler
<1> QED
  BY <1>1, <1>3, <1>4

(* Calls of the scenario thread, with no loop in progress.                  *)
LEMMA CallerInv ==
  ASSUME EngineInv, CallerStep
  PROVE  EngineInv' /\ now' >= now
<1>1. now \in Nat /\ frames = <<>> /\ Budget \subseteq Nat \cup {None} /\ Time \subseteq Nat
      /\ queue \subseteq Event /\ done \subseteq Event
  BY EngineAssumption DEF EngineInv, TypeOK, CallerStep, Budget, Time
<1>2. ASSUME NEW t \in Time, AdvanceTo(t)
      PROVE  EngineInv' /\ now' >= now
  <2>1. t \in Nat /\ now' = t /\ now' >= now /\ UNCHANGED <<nextSeq, queue, handlers, frames, done>>
        /\ \A e \in queue : e.time >= t
    BY <1>1, <1>2 DEF AdvanceTo
  <2>2. TypeOK' /\ QueueNotInPast' /\ DoneBeforePending' /\ SequencesGivenOut'
    BY <2>1 DEF EngineInv, TypeOK, QueueNotInPast, DoneBeforePending, SequencesGivenOut, Precedes
  <2>3. DoneInPast'
    BY <1>1, <2>1 DEF EngineInv, DoneInPast, Event
  <2>4. HandlersAtEventTime' /\ LoopsAtNow' /\ NestedLoopsBounded'
    BY <1>1, <2>1 DEF HandlersAtEventTime, LoopsAtNow, NestedLoopsBounded
  <2> QED
    BY <2>1, <2>2, <2>3, <2>4 DEF EngineInv
<1>3. ASSUME NEW h \in Nat \cup {None}, NEW b \in Nat \cup {None}, h # None => h >= now,
             Enter(h, b)
      PROVE  EngineInv' /\ now' >= now
  BY <1>1, <1>3, EnterInv DEF Enter
<1>4. ASSUME NEW t \in Time, NEW b \in Budget, RunUntil(t, b)
      PROVE  EngineInv' /\ now' >= now
  BY <1>1, <1>3, <1>4 DEF RunUntil
<1>5. ASSUME NEW b \in Budget, RunUntilIdle(b)
      PROVE  EngineInv' /\ now' >= now
  BY <1>1, <1>3, <1>5 DEF RunUntilIdle
<1>6. CASE RunNext
  BY <1>3, <1>6 DEF RunNext
<1> QED
  BY <1>2, <1>4, <1>5, <1>6 DEF CallerStep

(* The inductive step, and with it that virtual time does not decrease.     *)
LEMMA EngineStepInv == EngineInv /\ [Next]_vars => EngineInv' /\ now' >= now
<1> SUFFICES ASSUME EngineInv, [Next]_vars PROVE EngineInv' /\ now' >= now
  OBVIOUS
<1>1. now \in Nat /\ Budget \subseteq Nat \cup {None}
  BY EngineAssumption DEF EngineInv, TypeOK, Budget
<1>2. CASE Step
  <2>1. CASE Dispatch
    BY <2>1, DispatchInv
  <2>2. CASE Finish
    BY <2>2, FinishInv
  <2>3. CASE OneShotReturns \/ KindHandlerReturns \/ HandlerRaises \/ StopByLimit
    <3>1. now' = now
      BY <2>3 DEF OneShotReturns, KindHandlerReturns, HandlerRaises, StopByLimit
    <3> QED
      BY <1>1, <2>3, <3>1, HandlerReturnsInv
  <2>4. CASE \/ \E t \in Time, k \in Kind, o \in BOOLEAN : ScheduleAt(t, k, o)
             \/ \E k \in Kind, h \in Handler : AddHandler(k, h) \/ RemoveHandler(k, h)
    BY <1>1, <2>4, UserCallInv
  <2> QED
    BY <1>2, <2>1, <2>2, <2>3, <2>4 DEF Step
<1>3. CASE CallerStep
  BY <1>3, CallerInv
<1>4. CASE HandlerStep
  <2>1. PICK b \in Budget : RunUntil(now, b)
    BY <1>4 DEF HandlerStep
  <2>2. now # None /\ Enter(now, b) /\ b \in Nat \cup {None} /\ now >= now
    BY <1>1, <2>1, EngineAssumption DEF RunUntil
  <2> QED
    BY <1>1, <2>2, EnterInv DEF Enter
<1>5. CASE UNCHANGED vars
  BY <1>1, <1>5 DEF vars, EngineInv, TypeOK, QueueNotInPast, DoneBeforePending, HandlersAtEventTime,
              LoopsAtNow, NestedLoopsBounded, DoneInPast, SequencesGivenOut, Precedes
<1> QED
  BY <1>2, <1>3, <1>4, <1>5 DEF Next

(* The strengthening is an invariant of every engine whose handlers only    *)
(* re-enter it at the current time.                                         *)
THEOREM EngineInvariant == Spec => []EngineInv
<1>1. Init => EngineInv
  BY EngineInitInv
<1>2. EngineInv /\ [Next]_vars => EngineInv'
  BY EngineStepInv
<1> QED
  BY <1>1, <1>2, PTL DEF Spec

(* The engine's state stays well formed: in particular every loop but the   *)
(* innermost is inside a dispatch.                                          *)
THEOREM EngineTypeCorrect == Spec => []TypeOK
<1>1. EngineInv => TypeOK
  BY DEF EngineInv
<1> QED
  BY <1>1, EngineInvariant, PTL

(* Events are dispatched in the order of (time, sequence) over the whole    *)
(* run, and none is ever left waiting in the past.                          *)
THEOREM DispatchIsOrdered == Spec => []DispatchOrder
<1>1. EngineInv => DispatchOrder
  BY DEF EngineInv, DispatchOrder
<1> QED
  BY <1>1, EngineInvariant, PTL

(* Every running handler reads its own event's time in engine.now.          *)
THEOREM HandlersReadTheirTime == Spec => []HandlersAtEventTime
<1>1. EngineInv => HandlersAtEventTime
  BY DEF EngineInv
<1> QED
  BY <1>1, EngineInvariant, PTL

(* Virtual time is monotonic.                                               *)
THEOREM VirtualTimeMonotonic == Spec => TimeNeverBackward
<1>1. EngineInv /\ [Next]_vars => [now' >= now]_vars
  BY EngineStepInv
<1> QED
  BY <1>1, EngineInvariant, PTL DEF Spec, TimeNeverBackward

(* Scheduling gives the new event the next sequence number.                 *)
LEMMA ScheduleAccounted ==
  ASSUME EngineInv, NoEventLost, NEW t \in Time, NEW k \in Kind, NEW o \in BOOLEAN,
         ScheduleAt(t, k, o)
  PROVE  NoEventLost'
<1> DEFINE new == [time |-> t, seq |-> nextSeq, kind |-> k, oneShot |-> o]
           all == queue \cup done
<1>1. /\ queue' = queue \cup {new} /\ done' = done /\ nextSeq' = nextSeq + 1
      /\ new.seq = nextSeq /\ nextSeq \in Nat
  BY DEF ScheduleAt, EngineInv, TypeOK
<1>2. \A e \in all : e.seq \in Nat /\ e.seq < nextSeq
  BY DEF EngineInv, TypeOK, SequencesGivenOut, Event
<1>3. (queue \cup done)' = all \cup {new}
  BY <1>1
<1>4. {e.seq : e \in (queue \cup done)'} = 0..(nextSeq' - 1)
  <2>1. {e.seq : e \in all} = 0..(nextSeq - 1)
    BY DEF NoEventLost
  <2>2. {e.seq : e \in all \cup {new}} = {e.seq : e \in all} \cup {new.seq}
    OBVIOUS
  <2>3. 0..(nextSeq' - 1) = (0..(nextSeq - 1)) \cup {nextSeq}
    BY <1>1
  <2> HIDE DEF all, new
  <2> QED
    BY <1>1, <1>3, <2>1, <2>2, <2>3
<1>5. \A d, e \in (queue \cup done)' : d.seq = e.seq => d = e
  <2>1. \A d, e \in all : d.seq = e.seq => d = e
    BY DEF NoEventLost
  <2>2. \A d \in all : d.seq # new.seq
    BY <1>1, <1>2
  <2> HIDE DEF all, new
  <2> QED
    BY <1>3, <2>1, <2>2
<1>6. (queue \cap done)' = {}
  <2>1. new \notin done
    BY <1>1, <1>2
  <2>2. queue \cap done = {}
    BY DEF NoEventLost
  <2> HIDE DEF all, new
  <2> QED
    BY <1>1, <2>1, <2>2
<1> QED
  BY <1>4, <1>5, <1>6 DEF NoEventLost

(* No other step changes which events there are: a dispatch moves one from  *)
(* the queue to the history.                                                *)
LEMMA StepAccounted == EngineInv /\ NoEventLost /\ [Next]_vars => NoEventLost'
<1> SUFFICES ASSUME EngineInv, NoEventLost, [Next]_vars PROVE NoEventLost'
  OBVIOUS
<1>1. ASSUME UNCHANGED <<nextSeq, queue, done>> PROVE NoEventLost'
  BY <1>1 DEF NoEventLost
<1>2. CASE Dispatch
  <2>1. PICK e \in queue : queue' = queue \ {e} /\ done' = done \cup {e}
    BY <1>2 DEF Dispatch
  <2>2. (queue \cup done)' = queue \cup done /\ (queue \cap done)' = {} /\ nextSeq' = nextSeq
    BY <1>2, <2>1 DEF NoEventLost, Dispatch
  <2> QED
    BY <2>2 DEF NoEventLost
<1>3. CASE \E t \in Time, k \in Kind, o \in BOOLEAN : ScheduleAt(t, k, o)
  BY <1>3, ScheduleAccounted
<1>4. CASE \/ OneShotReturns \/ KindHandlerReturns \/ StopByLimit \/ Finish \/ HandlerRaises
           \/ \E k \in Kind, h \in Handler : AddHandler(k, h) \/ RemoveHandler(k, h)
  BY <1>1, <1>4 DEF OneShotReturns, KindHandlerReturns, StopByLimit, Finish, HandlerRaises,
                    AddHandler, RemoveHandler
<1>5. CASE CallerStep \/ HandlerStep
  BY <1>1, <1>5 DEF CallerStep, HandlerStep, AdvanceTo, RunUntil, RunUntilIdle, RunNext, Enter
<1>6. CASE UNCHANGED vars
  BY <1>1, <1>6 DEF vars
<1> QED
  BY <1>2, <1>3, <1>4, <1>5, <1>6 DEF Next, Step

(* Whatever nests, raises or is cut short, every scheduled event is either  *)
(* waiting or was dispatched, once.                                         *)
THEOREM EventsAccountedFor == Spec => []NoEventLost
<1>1. Init => NoEventLost
  BY DEF Init, NoEventLost
<1> QED
  BY <1>1, EngineInvariant, StepAccounted, PTL DEF Spec

-----------------------------------------------------------------------------
(* The fault registry: lazy expiration is unobservable, for all targets,     *)
(* durations and cycle counts.                                               *)

(* What has expired stays expired: time and the cycle counter only grow.    *)
LEMMA ExpiryIsFinal ==
  ASSUME NEW o \in Override, NEW t \in Nat, NEW c \in Nat, IsExpired(o, t, c),
         NEW u \in Nat, NEW d \in Nat, t <= u, c <= d
  PROVE  IsExpired(o, u, d)
  BY DEF IsExpired, Override

(* Time never seen by the registry runs ahead of the engine.                *)
LEMMA CurrentTimeBound ==
  ASSUME FaultTypeOK, NEW a \in TimeArg
  PROVE  CurrentTime(a) \in Nat /\ CurrentTime(a) <= clock
  BY FaultAssumption DEF FaultTypeOK, TimeArg, CurrentTime

(* A request is stored as a well-formed override.                           *)
LEMMA MakeOverrideType ==
  ASSUME FaultTypeOK, NEW s \in Slot, NEW v \in Value, NEW d \in Span, NEW c \in Span, NEW t \in Nat
  PROVE  MakeOverride(s, v, d, c, t) \in Override
<1>1. Boundary(t, d) \in Nat \cup {Nothing} /\ Boundary(cycle, c) \in Nat \cup {Nothing}
  BY FaultAssumption DEF FaultTypeOK, Span, Boundary
<1> QED
  BY <1>1 DEF MakeOverride, Override, FaultTypeOK

(* A clean-up at a time not ahead of the clock drops only what has run out. *)
LEMMA CleanUp ==
  ASSUME FaultTypeOK, OnlyExpiredDropped, NEW t \in Nat, t <= clock, NEW c \in Nat, cycle <= c,
         active' = Unexpired(active, t, c), cycle' = c,
         UNCHANGED <<clock, attached, named, requested>>
  PROVE  FaultTypeOK' /\ OnlyExpiredDropped'
<1>1. FaultTypeOK'
  BY DEF FaultTypeOK, Unexpired
<1>2. ASSUME NEW s \in Slot, active'[s] # requested'[s]
      PROVE  active'[s] = Nothing /\ Visible(requested'[s], clock', cycle') = Nothing
  <2>1. active[s] \in Override \cup {Nothing} /\ requested[s] \in Override \cup {Nothing}
        /\ clock \in Nat /\ cycle \in Nat
    BY DEF FaultTypeOK
  <2>2. CASE active[s] = requested[s]
    <3>1. active[s] # Nothing /\ IsExpired(active[s], t, c) /\ active'[s] = Nothing
      BY <1>2, <2>2 DEF Unexpired
    <3>2. IsExpired(active[s], clock, c)
      BY <2>1, <3>1, ExpiryIsFinal
    <3> QED
      BY <2>2, <3>1, <3>2 DEF Visible
  <2>3. CASE active[s] # requested[s]
    <3>1. active[s] = Nothing /\ Visible(requested[s], clock, cycle) = Nothing
      BY <2>3 DEF OnlyExpiredDropped
    <3>2. requested[s] = Nothing \/ IsExpired(requested[s], clock, cycle)
      BY <3>1 DEF Visible
    <3>3. requested[s] = Nothing \/ IsExpired(requested[s], clock, c)
      BY <2>1, <3>2, ExpiryIsFinal
    <3> QED
      BY <3>1, <3>3 DEF Unexpired, Visible
  <2> QED
    BY <2>2, <2>3
<1> QED
  BY <1>1, <1>2 DEF OnlyExpiredDropped

(* A step that changes one slot the same way in both registries.            *)
LEMMA SameChange ==
  ASSUME FaultTypeOK, OnlyExpiredDropped, NEW T \in SUBSET Slot, NEW o \in Override \cup {Nothing},
         active' = [s \in Slot |-> IF s \in T THEN o ELSE active[s]],
         requested' = [s \in Slot |-> IF s \in T THEN o ELSE requested[s]],
         named' \subseteq Module \X FaultName, UNCHANGED <<clock, attached, cycle>>
  PROVE  FaultTypeOK' /\ OnlyExpiredDropped'
  BY DEF FaultTypeOK, OnlyExpiredDropped, Visible, IsExpired

(* Every step keeps the registry consistent with the requests.              *)
LEMMA RegistryStep ==
  ASSUME FaultTypeOK, OnlyExpiredDropped, [FaultNext]_registry
  PROVE  FaultTypeOK' /\ OnlyExpiredDropped'
<1>0. clock \in Nat /\ cycle \in Nat /\ active \in [Slot -> Override \cup {Nothing}]
      /\ requested \in [Slot -> Override \cup {Nothing}] /\ named \subseteq Module \X FaultName
  BY DEF FaultTypeOK
<1>1. ASSUME NEW s \in Slot, NEW v \in Value, NEW d \in Span, NEW c \in Span, NEW a \in TimeArg,
             SetOverride(s, v, d, c, a)
      PROVE  FaultTypeOK' /\ OnlyExpiredDropped'
  <2> DEFINE o == MakeOverride(s, v, d, c, CurrentTime(a))
  <2>1. o \in Override
    BY CurrentTimeBound, MakeOverrideType
  <2>2. /\ active' = [active EXCEPT ![s] = o] /\ requested' = [requested EXCEPT ![s] = o]
        /\ UNCHANGED <<clock, attached, cycle, named>>
    BY <1>1 DEF SetOverride
  <2> HIDE DEF o
  <2>3. /\ active' = [x \in Slot |-> IF x \in {s} THEN o ELSE active[x]]
        /\ requested' = [x \in Slot |-> IF x \in {s} THEN o ELSE requested[x]]
    BY <1>0, <2>2
  <2>4. {s} \in SUBSET Slot /\ named' \subseteq Module \X FaultName
    BY <1>0, <2>2
  <2> QED
    BY <2>1, <2>2, <2>3, <2>4, SameChange
<1>2. ASSUME NEW a \in TimeArg, ClearExpired(a)
      PROVE  FaultTypeOK' /\ OnlyExpiredDropped'
  BY <1>0, <1>2, CurrentTimeBound, CleanUp DEF ClearExpired
<1>3. ASSUME NEW n \in 0..MaxCycle, NEW a \in TimeArg, AdvanceCycles(n, a)
      PROVE  FaultTypeOK' /\ OnlyExpiredDropped'
  <2>1. cycle + n \in Nat /\ cycle <= cycle + n
    BY <1>0, FaultAssumption
  <2> QED
    BY <1>3, <2>1, CurrentTimeBound, CleanUp DEF AdvanceCycles
<1>4. ASSUME NEW s \in Slot, ClearOverride(s)
      PROVE  FaultTypeOK' /\ OnlyExpiredDropped'
  <2>1. /\ active' = [x \in Slot |-> IF x \in {s} THEN Nothing ELSE active[x]]
        /\ requested' = [x \in Slot |-> IF x \in {s} THEN Nothing ELSE requested[x]]
        /\ UNCHANGED <<clock, attached, cycle, named>>
    BY <1>0, <1>4 DEF ClearOverride
  <2> QED
    BY <1>0, <2>1, SameChange
<1>5. CASE ClearAll
  <2>1. /\ active' = [x \in Slot |-> IF x \in Slot THEN Nothing ELSE active[x]]
        /\ requested' = [x \in Slot |-> IF x \in Slot THEN Nothing ELSE requested[x]]
        /\ named' = {} /\ UNCHANGED <<clock, attached, cycle>>
    BY <1>5 DEF ClearAll
  <2> QED
    BY <2>1, SameChange
<1>6. CASE \/ \E m \in Module, n \in FaultName : ActivateNamedFault(m, n) \/ ClearNamedFault(m, n)
           \/ \E m \in Module : ClearModuleFaults(m)
  <2>1. named' \subseteq Module \X FaultName /\ UNCHANGED <<clock, attached, cycle, active, requested>>
    BY <1>0, <1>6 DEF ActivateNamedFault, ClearNamedFault, ClearModuleFaults
  <2> QED
    BY <1>0, <2>1 DEF FaultTypeOK, OnlyExpiredDropped, Visible, IsExpired
<1>7. CASE Attach \/ Detach \/ UNCHANGED registry
  BY <1>0, <1>7 DEF Attach, Detach, registry, FaultTypeOK, OnlyExpiredDropped, Visible, IsExpired
<1>8. CASE TimePasses
  <2>1. clock' \in Nat /\ clock <= clock' /\ UNCHANGED <<attached, cycle, active, named, requested>>
    BY <1>0, <1>8, FaultAssumption DEF TimePasses
  <2>2. ASSUME NEW s \in Slot, active[s] # requested[s]
        PROVE  active[s] = Nothing /\ Visible(requested[s], clock', cycle) = Nothing
    <3>1. active[s] = Nothing /\ (requested[s] = Nothing \/ IsExpired(requested[s], clock, cycle))
      BY <2>2 DEF OnlyExpiredDropped, Visible
    <3>2. requested[s] = Nothing \/ IsExpired(requested[s], clock', cycle)
      BY <1>0, <2>1, <3>1, ExpiryIsFinal
    <3> QED
      BY <3>1, <3>2 DEF Visible
  <2> QED
    BY <2>1, <2>2 DEF FaultTypeOK, OnlyExpiredDropped
<1> QED
  BY <1>1, <1>2, <1>3, <1>4, <1>5, <1>6, <1>7, <1>8 DEF FaultNext, Lookup

(* The registry is well formed and loses no override that is still due.     *)
THEOREM LazyExpirationUnobservable == FaultSpec => [](FaultTypeOK /\ OnlyExpiredDropped)
<1>1. FaultInit => FaultTypeOK /\ OnlyExpiredDropped
  BY DEF FaultInit, FaultTypeOK, OnlyExpiredDropped
<1>2. (FaultTypeOK /\ OnlyExpiredDropped) /\ [FaultNext]_registry => (FaultTypeOK /\ OnlyExpiredDropped)'
  BY RegistryStep
<1> QED
  BY <1>1, <1>2, PTL DEF FaultSpec

(* A lookup at the current time answers what the latest request says.       *)
THEOREM LookupsAreCurrent == FaultSpec => LookupAnswersRequest
<1>1. FaultTypeOK /\ OnlyExpiredDropped =>
        \A s \in Slot, a \in TimeArg :
          Lookup(s, a) /\ CurrentTime(a) = clock =>
            active'[s] = Visible(requested[s], clock, cycle)
  BY DEF OnlyExpiredDropped, Lookup, ClearExpired, Unexpired, Visible
<1> QED
  BY <1>1, LazyExpirationUnobservable, PTL DEF LookupAnswersRequest

=============================================================================
