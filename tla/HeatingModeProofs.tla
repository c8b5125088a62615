------------------------- MODULE HeatingModeProofs -------------------------
(* Proofs about HeatingMode, for every range, every table of steps and     *)
(* every set of callers.                                                   *)
EXTENDS HeatingMode, TLAPS

USE RangeAssumption, StepsAssumption, HandAssumption, AskedAssumption,
    SwitchAssumption, NoneAssumption

(* What a mode writes lies in the register's range, and what the pump      *)
(* keeps of it in the pump's.                                              *)
LEMMA OffsetForType ==
  ASSUME NEW m \in Modes, NEW n \in Offsets
  PROVE  OffsetFor(m, n) \in Offsets
BY DEF OffsetFor, Clamp, Offsets

(* What the pump keeps of an offset is one of its own. *)
LEMMA KeptType ==
  ASSUME NEW o \in Offsets
  PROVE  Kept(o) \in PumpOffsets
BY DEF Kept, Clamp, Offsets, PumpOffsets

(* The pump's offsets are offsets. *)
LEMMA PumpInRange == PumpOffsets \subseteq Offsets
BY DEF PumpOffsets, Offsets

(* Following an offset keeps a state a state. *)
LEMMA FollowedType ==
  ASSUME NEW s \in State \union {NoState}, NEW o \in Offsets \union {NoOffset},
         NEW busy \in BOOLEAN
  PROVE  Followed(s, o, busy) \in State \union {NoState}
BY DEF Followed, Follow, Learn, State, Modes, Normal

(* Choosing a mode gives a state of the controller. *)
LEMMA ChosenType ==
  ASSUME NEW s \in State, NEW m \in Modes, NEW o \in Offsets
  PROVE  Chosen(s, m, o) \in State
BY DEF Chosen, Learn, State, Modes, Normal

(* A state once there stays there whatever is followed. *)
LEMMA FollowedStays ==
  ASSUME NEW s \in State, NEW o \in Offsets \union {NoOffset}, NEW busy \in BOOLEAN
  PROVE  Followed(s, o, busy) # NoState
<1>1. \A x \in Offsets : Learn(x) \in State /\ Follow(s, x) \in State
  BY DEF Follow, Learn, State, Modes, Normal
<1> QED
  BY <1>1 DEF Followed

(* Every call in flight was made with a state to compute its target from.  *)
CallsHaveState == \A c \in Choosers : call[c].pc # "idle" => state # NoState

TypeInv == TypeOK /\ CallsHaveState

(* The types hold at the start. *)
LEMMA TypeInit == Init => TypeInv
<1> SUFFICES ASSUME Init PROVE TypeInv
  OBVIOUS
<1>1. Idle \in Call /\ Idle.pc = "idle"
  BY DEF Idle, Call, Offsets, Modes, Normal
<1>2. call \in [Choosers -> Call] /\ \A c \in Choosers : call[c].pc = "idle"
  BY <1>1 DEF Init
<1> QED
  BY <1>2 DEF Init, TypeInv, TypeOK, CallsHaveState

(* Every step keeps them. *)
LEMMA TypeNext == TypeInv /\ [Next]_vars => TypeInv'
<1> SUFFICES ASSUME TypeInv, [Next]_vars PROVE TypeInv'
  OBVIOUS
<1> USE DEF TypeInv, TypeOK, CallsHaveState
<1>a. /\ Low \in Offsets /\ Idle \in Call
      /\ pump \in Offsets /\ Normal \in Modes
  BY PumpInRange DEF Idle, Call, Offsets, Modes, Normal
<1>1. ASSUME NEW o \in HandOffsets, Hand(o) PROVE TypeInv'
  BY <1>1 DEF Hand
<1>2. CASE Read
  BY <1>2, <1>a DEF Read
<1>3. CASE Publish
  <2>1. state' \in State \union {NoState}
    BY <1>3, FollowedType DEF Publish
  <2>2. state # NoState => state' # NoState
    BY <1>3, FollowedStays DEF Publish
  <2> QED BY <1>3, <2>1, <2>2 DEF Publish
<1>4. CASE PollFails
  <2>1. state' \in State \union {NoState}
    BY <1>4, FollowedType DEF PollFails
  <2>2. state # NoState => state' # NoState
    BY <1>4, FollowedStays DEF PollFails
  <2> QED BY <1>4, <2>1, <2>2 DEF PollFails
<1>10. CASE EntityReadBack
  <2>1. data' \in Offsets \union {NoOffset}
    BY <1>10, <1>a DEF EntityReadBack
  <2>2. state' \in State \union {NoState}
    BY <1>10, <2>1, FollowedType DEF EntityReadBack
  <2>3. state # NoState => state' # NoState
    BY <1>10, <2>1, FollowedStays DEF EntityReadBack
  <2> QED BY <1>10, <2>1, <2>2, <2>3 DEF EntityReadBack
<1>5. ASSUME NEW c \in Choosers, NEW m \in Asked, Choose(c, m) PROVE TypeInv'
  <2>1. OffsetFor(m, state.normal) \in Offsets
    BY <1>5, OffsetForType DEF Choose, State
  <2> QED BY <1>5, <2>1 DEF Choose, Call
<1>6. ASSUME NEW c \in Choosers, Finishes(c) PROVE TypeInv'
  <2>1. CASE Written(c)
    <3>1. Kept(call[c].target) \in PumpOffsets
      BY KeptType DEF Call
    <3> QED BY <2>1, <3>1 DEF Written, Call
  <2>2. CASE Refused(c) \/ Abandoned(c)
    BY <2>2, <1>a DEF Refused, Abandoned, GivesUp
  <2>3. CASE ReadBack(c)
    <3>1. state \in State /\ call[c] \in Call
      BY <2>3 DEF ReadBack
    <3>2. PICK stored \in {pump, call[c].target} :
             /\ data' = stored
             /\ held' = IF Buffered THEN held ELSE stored
             /\ state' = Chosen(Followed(state, stored, writing), call[c].mode, stored)
      BY <2>3 DEF ReadBack
    <3>3. stored \in Offsets
      BY <3>1, <3>2, <1>a DEF Call
    <3>4. Followed(state, stored, writing) \in State
      BY <3>1, <3>3, FollowedType, FollowedStays
    <3>5. state' \in State
      BY <3>1, <3>2, <3>3, <3>4, ChosenType DEF Call
    <3> QED BY <2>3, <3>2, <3>3, <3>5 DEF ReadBack, Call
  <2>4. CASE Saved(c)
    <3>1. state' \in State \union {NoState}
      BY <2>4, FollowedType DEF Saved
    <3>2. state # NoState => state' # NoState
      BY <2>4, FollowedStays DEF Saved
    <3> QED BY <2>4, <3>1, <3>2, <1>a DEF Saved
  <2> QED BY <1>6, <2>1, <2>2, <2>3, <2>4 DEF Finishes
<1>7. CASE DelayedSave
  BY <1>7 DEF DelayedSave
<1>8. CASE Restart
  <2>1. data' \in Offsets \union {NoOffset}
    BY <1>8, <1>a DEF Restart, StartData
  <2>2. state' \in State \union {NoState}
    BY <1>8, <2>1, FollowedType DEF Restart
  <2>3. call' \in [Choosers -> Call] /\ \A c \in Choosers : call'[c].pc = "idle"
    BY <1>8, <1>a DEF Restart, Idle
  <2>4. held' \in Offsets \union {NoOffset}
    BY <1>8, <2>1 DEF Restart
  <2>5. dirty' \in BOOLEAN
    BY <1>8 DEF Restart
  <2> QED BY <1>8, <2>1, <2>2, <2>3, <2>4, <2>5 DEF Restart
<1>9. CASE UNCHANGED vars
  BY <1>9 DEF vars
<1> QED
  BY <1>1, <1>2, <1>3, <1>4, <1>5, <1>6, <1>7, <1>8, <1>9, <1>10 DEF Next

(* Every variable stays in its type in every behaviour, faults, overlaps   *)
(* and restarts included.                                                  *)
THEOREM TypeCorrect == Spec => []TypeOK
<1>1. TypeInv => TypeOK
  BY DEF TypeInv
<1> QED
  BY TypeInit, TypeNext, <1>1, PTL DEF Spec

(* No change of the state is forgotten by the store, whatever fails.       *)
THEOREM NothingForgotten == Spec => []DiskCurrent
<1>1. Init => DiskCurrent
  BY DEF Init, DiskCurrent
<1>2. TypeInv /\ DiskCurrent /\ [Next]_vars => DiskCurrent'
  <2> SUFFICES ASSUME TypeInv, DiskCurrent, [Next]_vars PROVE DiskCurrent'
    OBVIOUS
  <2> USE DEF DiskCurrent
  <2>1. ASSUME NEW o \in HandOffsets, Hand(o) PROVE DiskCurrent'
    BY <2>1 DEF Hand
  <2>2. CASE Read
    BY <2>2 DEF Read
  <2>3. CASE Publish \/ PollFails \/ EntityReadBack
    BY <2>3 DEF Publish, PollFails, EntityReadBack
  <2>4. ASSUME NEW c \in Choosers, NEW m \in Asked, Choose(c, m) PROVE DiskCurrent'
    BY <2>4 DEF Choose
  <2>5. ASSUME NEW c \in Choosers, Finishes(c) PROVE DiskCurrent'
    <3>1. CASE Written(c)
      BY <3>1 DEF Written
    <3>2. CASE Refused(c) \/ Abandoned(c)
      BY <3>2 DEF Refused, Abandoned, GivesUp
    <3>3. CASE ReadBack(c)
      BY <3>3 DEF ReadBack
    <3>4. CASE Saved(c)
      BY <3>4 DEF Saved
    <3> QED BY <2>5, <3>1, <3>2, <3>3, <3>4 DEF Finishes
  <2>6. CASE DelayedSave
    BY <2>6 DEF DelayedSave
  <2>7. CASE Restart
    BY <2>7 DEF Restart
  <2>8. CASE UNCHANGED vars
    BY <2>8 DEF vars
  <2> QED
    BY <2>1, <2>2, <2>3, <2>4, <2>5, <2>6, <2>7, <2>8 DEF Next
<1> QED
  BY TypeInit, TypeNext, <1>1, <1>2, PTL DEF Spec

----------------------------------------------------------------------------
(* Normal learned only from a hand: the gateway, one call at a time        *)

(* A mode's offset from a normal inside the pump's range, for normal       *)
(* itself, is that normal: nothing is clamped on the way back.             *)
LEMMA NormalIsKept ==
  ASSUME NEW n \in PumpOffsets
  PROVE  OffsetFor(Normal, n) = n /\ Kept(OffsetFor(Normal, n)) = n
<1>1. n + Steps[Normal] = n /\ n \in Int /\ PumpLow <= n /\ n <= PumpHigh
  BY DEF PumpOffsets
<1>2. Low <= n /\ n <= High
  BY <1>1
<1> QED
  BY <1>1, <1>2 DEF OffsetFor, Kept, Clamp

(* The strengthened invariant holds at the start. *)
LEMMA MeantInit == Init => IInv
<1> SUFFICES ASSUME Init PROVE IInv
  OBVIOUS
<1>1. TypeOK
  BY TypeInit DEF TypeInv
<1>2. CallsTracked
  BY DEF Init, CallsTracked, Writing, Idle
<1>3. FileTracked /\ NormalSeen
  BY DEF Init, FileTracked, NormalSeen, NoCall, ShowsNormal, Idle
<1> QED
  BY <1>1, <1>2, <1>3 DEF IInv

(* Following never changes the mode; it changes the normal offset only     *)
(* while normal is shown, and then to the offset followed.                 *)
LEMMA FollowedMode ==
  ASSUME NEW s \in State, NEW o \in Offsets \union {NoOffset}, NEW busy \in BOOLEAN
  PROVE  /\ Followed(s, o, busy) \in State
         /\ Followed(s, o, busy).mode = s.mode
         /\ s.mode # Normal => Followed(s, o, busy).normal = s.normal
         /\ Followed(s, o, busy).normal # s.normal =>
              Followed(s, o, busy).normal = o /\ o # NoOffset /\ ~busy
BY DEF Followed, Follow, Learn, State, Modes, Normal

(* Every step that is not disturbed keeps it. *)
LEMMA MeantNext ==
  ASSUME Undisturbed, IInv, [Next]_vars
  PROVE  IInv'
<1>1. TypeOK /\ CallsTracked /\ FileTracked /\ NormalSeen
  BY DEF IInv
<1>2. TypeOK'
  BY <1>1, TypeNext DEF TypeInv, CallsHaveState, CallsTracked
<1>3. ~Buffered /\ ~CallsAbandoned /\ ~CrashMidCall /\ \A c, d \in Choosers : c = d
  BY DEF Undisturbed
<1>4. meant \subseteq PumpOffsets /\ PumpOffsets \subseteq Offsets
  BY <1>1, PumpInRange DEF NormalSeen
<1>5. ASSUME NEW o \in HandOffsets, Hand(o) PROVE IInv'
  <2>1. CallsTracked'
    BY <1>1, <1>5 DEF Hand, CallsTracked, Writing
  <2>2. FileTracked'
    BY <1>1, <1>5 DEF Hand, FileTracked, NoCall, ShowsNormal
  <2>3. NormalSeen'
    BY <1>1, <1>5 DEF Hand, NormalSeen, ShowsNormal
  <2> QED BY <1>2, <2>1, <2>2, <2>3 DEF IInv
<1>6. CASE Read
  <2>1. CallsTracked'
    BY <1>1, <1>6 DEF Read, CallsTracked, Writing
  <2>2. FileTracked'
    BY <1>1, <1>6 DEF Read, FileTracked, NoCall, ShowsNormal
  <2>3. NormalSeen'
    BY <1>1, <1>6 DEF Read, NormalSeen, ShowsNormal
  <2> QED BY <1>2, <2>1, <2>2, <2>3 DEF IInv
<1>7. ASSUME NEW o \in {held, data}, state' = Followed(state, o, writing),
             data' \in {held, data}, held' = held,
             UNCHANGED <<pump, writing, call, disk, meant>>
      PROVE  IInv'
  <2>1. o \in Offsets \union {NoOffset} /\ writing \in BOOLEAN
    BY <1>1, <1>7 DEF TypeOK
  <2>2. writing => state' = state
    BY <1>7, <2>1 DEF Followed
  <2>3. state # NoState => /\ state \in State /\ state' # NoState
                           /\ state'.mode = state.mode
                           /\ state.mode # Normal => state'.normal = state.normal
                           /\ state'.normal # state.normal =>
                                state'.normal = o /\ o # NoOffset /\ ~writing
    <3> SUFFICES ASSUME state # NoState
                 PROVE  /\ state \in State /\ state' # NoState
                        /\ state'.mode = state.mode
                        /\ state.mode # Normal => state'.normal = state.normal
                        /\ state'.normal # state.normal =>
                             state'.normal = o /\ o # NoOffset /\ ~writing
      OBVIOUS
    <3>1. state \in State
      BY <1>1 DEF TypeOK
    <3>2. Followed(state, o, writing) # NoState
      BY <2>1, <3>1, FollowedStays
    <3>3. /\ Followed(state, o, writing).mode = state.mode
          /\ state.mode # Normal => Followed(state, o, writing).normal = state.normal
          /\ Followed(state, o, writing).normal # state.normal =>
               Followed(state, o, writing).normal = o /\ o # NoOffset /\ ~writing
      BY <2>1, <3>1, FollowedMode
    <3> QED BY <1>7, <3>1, <3>2, <3>3
  <2>4. state = NoState =>
          \/ state' = NoState
          \/ ~writing /\ state' = Learn(o) /\ o # NoOffset
    BY <1>7, <2>1 DEF Followed
  <2>5. Learn(o).mode = Normal /\ Learn(o).normal = o
    BY DEF Learn
  <2>6. ~writing => \A c \in Choosers : call[c].pc # "readback"
    BY <1>1 DEF CallsTracked, Writing
  <2>7. ShowsNormal' <=> ShowsNormal
    BY <2>3, <2>4, <2>5 DEF ShowsNormal
  <2>8. (ShowsNormal /\ ~writing /\ o # NoOffset) => o \in meant
    BY <1>1, <1>7, <2>6 DEF NormalSeen
  <2>9. CallsTracked'
    BY <1>1, <1>7, <2>2, <2>3 DEF CallsTracked, Writing
  <2>10. FileTracked'
    <3>1. state' # NoState => state'.normal \in meant
      BY <1>1, <2>3, <2>4, <2>5, <2>8 DEF FileTracked, ShowsNormal
    <3>2. disk # NoState => disk.normal \in meant /\ state' # NoState
      BY <1>1, <2>3 DEF FileTracked
    <3>3. (\A c \in Choosers : call[c].pc # "saving")
            => IF disk = NoState THEN ShowsNormal'
               ELSE /\ disk.mode = state'.mode
                    /\ state'.mode # Normal => disk.normal = state'.normal
      BY <1>1, <2>3, <2>7 DEF FileTracked
    <3> QED BY <1>7, <3>1, <3>2, <3>3 DEF FileTracked
  <2>11. NormalSeen'
    BY <1>1, <1>7, <2>7 DEF NormalSeen
  <2> QED BY <1>2, <2>9, <2>10, <2>11 DEF IInv
<1>8. CASE Publish \/ PollFails
  <2>1. CASE Publish
    BY <1>3, <1>7, <2>1 DEF Publish
  <2>2. CASE PollFails /\ state' = Followed(state, data, writing)
    BY <1>3, <1>7, <2>2 DEF PollFails
  <2>3. CASE PollFails /\ state' = state
    <3>1. Followed(state, NoOffset, writing) = state
      BY DEF Followed
    <3>2. UNCHANGED <<pump, data, writing, call, disk, meant>> /\ held' = held
      BY <1>3, <2>3 DEF PollFails
    <3>3. CallsTracked'
      BY <1>1, <2>3, <3>2 DEF CallsTracked, Writing
    <3>4. FileTracked'
      BY <1>1, <2>3, <3>2 DEF FileTracked, ShowsNormal
    <3>5. NormalSeen'
      BY <1>1, <2>3, <3>2 DEF NormalSeen, ShowsNormal
    <3> QED BY <1>2, <3>3, <3>4, <3>5 DEF IInv
  <2> QED BY <1>8, <2>1, <2>2, <2>3 DEF PollFails
<1>9. ASSUME NEW c \in Choosers, NEW m \in Asked, Choose(c, m) PROVE IInv'
  <2>1. /\ state # NoState /\ call[c].pc = "idle" /\ UNCHANGED <<state, disk, meant, pump, held, data>>
        /\ writing' /\ call'[c].pc = "write"
        /\ call'[c].target = OffsetFor(call'[c].mode, state.normal)
        /\ \A d \in Choosers : d = c
    BY <1>1, <1>3, <1>9 DEF Choose, TypeOK
  <2>2. CallsTracked'
    BY <2>1 DEF CallsTracked, Writing
  <2>3. FileTracked'
    BY <1>1, <2>1 DEF FileTracked, ShowsNormal
  <2>4. NormalSeen'
    BY <1>1, <2>1 DEF NormalSeen, ShowsNormal
  <2> QED BY <1>2, <2>2, <2>3, <2>4 DEF IInv
<1>10. ASSUME NEW c \in Choosers, Written(c) PROVE IInv'
  <2>1. /\ state # NoState /\ state \in State
        /\ call[c].pc = "write" /\ call'[c].pc = "readback"
        /\ call'[c].mode = call[c].mode /\ call'[c].target = call[c].target
        /\ pump' = Kept(call[c].target)
        /\ call[c].target = OffsetFor(call[c].mode, state.normal)
        /\ UNCHANGED <<state, disk, meant, held, data, writing>>
        /\ \A d \in Choosers : d = c
    BY <1>1, <1>3, <1>10 DEF Written, TypeOK, CallsTracked, Writing
  <2>2. CallsTracked'
    BY <1>1, <2>1 DEF CallsTracked, Writing
  <2>3. FileTracked'
    BY <1>1, <2>1 DEF FileTracked, ShowsNormal
  <2>4. call[c].mode = Normal => pump' \in meant
    BY <1>1, <1>4, <2>1, NormalIsKept DEF FileTracked
  <2>5. NormalSeen'
    BY <1>1, <2>1, <2>4 DEF NormalSeen
  <2> QED BY <1>2, <2>2, <2>3, <2>5 DEF IInv
<1>11. ASSUME NEW c \in Choosers, Refused(c) \/ Abandoned(c) PROVE IInv'
  <2>1. /\ call[c].pc = "write" /\ call'[c].pc = "idle" /\ ~writing'
        /\ UNCHANGED <<state, disk, meant, pump, held, data>>
        /\ \A d \in Choosers : d = c
    BY <1>1, <1>3, <1>11 DEF Refused, Abandoned, GivesUp, Idle, TypeOK
  <2>2. CallsTracked'
    BY <2>1 DEF CallsTracked, Writing
  <2>3. FileTracked'
    BY <1>1, <2>1 DEF FileTracked, ShowsNormal
  <2>4. NormalSeen'
    BY <1>1, <2>1 DEF NormalSeen, ShowsNormal
  <2> QED BY <1>2, <2>2, <2>3, <2>4 DEF IInv
<1>12. ASSUME NEW c \in Choosers, ReadBack(c) PROVE IInv'
  <2>1. /\ state \in State /\ state # NoState
        /\ call[c].pc = "readback" /\ call[c].mode \in Modes
        /\ call'[c].pc = "saving" /\ writing /\ ~writing'
        /\ call[c].target = OffsetFor(call[c].mode, state.normal)
        /\ state.normal \in meant
        /\ UNCHANGED <<pump, disk, meant>>
        /\ \A d \in Choosers : d = c
    BY <1>1, <1>3, <1>12 DEF ReadBack, TypeOK, Call, CallsTracked, Writing, FileTracked
  <2>2. PICK stored \in {pump, call[c].target} :
           /\ data' = stored /\ held' = stored
           /\ state' = Chosen(Followed(state, stored, writing), call[c].mode, stored)
    BY <1>3, <1>12 DEF ReadBack
  <2>3. state' = Chosen(state, call[c].mode, stored)
    BY <2>1, <2>2 DEF Followed
  <2>4. call[c].mode = Normal => pump \in meant /\ stored \in meant
    BY <1>1, <1>4, <2>1, <2>2, NormalIsKept DEF NormalSeen
  <2>5. stored \in Offsets
    BY <1>1, <1>4, <2>1, <2>2, OffsetForType DEF TypeOK
  <2>6. /\ state' \in State /\ state' # NoState /\ state'.mode = call[c].mode
        /\ state'.normal \in meant
    <3>1. state' \in State
      BY <2>1, <2>3, <2>5, ChosenType
    <3>2. state'.mode = call[c].mode /\ state'.normal \in meant
      BY <2>1, <2>3, <2>4 DEF Chosen, Learn, Normal
    <3> QED BY <3>1, <3>2
  <2>7. CallsTracked'
    BY <2>1, <2>6 DEF CallsTracked, Writing
  <2>8. FileTracked'
    BY <1>1, <2>1, <2>6 DEF FileTracked
  <2>9. NormalSeen'
    BY <1>1, <2>1, <2>2, <2>4, <2>6 DEF NormalSeen, ShowsNormal
  <2> QED BY <1>2, <2>7, <2>8, <2>9 DEF IInv
<1>13. ASSUME NEW c \in Choosers, Saved(c) PROVE IInv'
  <2>1. /\ state \in State /\ state # NoState /\ ~writing
        /\ call[c].pc = "saving" /\ call'[c].pc = "idle"
        /\ disk' = state /\ UNCHANGED <<pump, held, data, writing, meant>>
        /\ state' = Followed(state, data, FALSE)
        /\ state.normal \in meant
        /\ data \in Offsets \union {NoOffset}
        /\ \A d \in Choosers : d = c
    BY <1>1, <1>3, <1>13 DEF Saved, TypeOK, Idle, CallsTracked, Writing, FileTracked
  <2>2. /\ state' \in State /\ state' # NoState /\ state'.mode = state.mode
        /\ state.mode # Normal => state'.normal = state.normal
        /\ state'.normal # state.normal => state'.normal = data /\ data # NoOffset
    BY <2>1, FollowedMode, FollowedStays
  <2>3. state.mode = Normal /\ data # NoOffset => data \in meant
    BY <1>1, <2>1 DEF NormalSeen, ShowsNormal
  <2>4. CallsTracked'
    BY <2>1, <2>2 DEF CallsTracked, Writing
  <2>5. FileTracked'
    BY <2>1, <2>2, <2>3 DEF FileTracked
  <2>6. NormalSeen'
    BY <1>1, <2>1, <2>2 DEF NormalSeen, ShowsNormal
  <2> QED BY <1>2, <2>4, <2>5, <2>6 DEF IInv
<1>14. CASE DelayedSave
  <2>1. disk' = state /\ UNCHANGED <<pump, held, data, state, writing, call, meant>>
    BY <1>14 DEF DelayedSave
  <2>2. CallsTracked'
    BY <1>1, <2>1 DEF CallsTracked, Writing
  <2>3. FileTracked'
    BY <1>1, <2>1 DEF FileTracked, ShowsNormal
  <2>4. NormalSeen'
    BY <1>1, <2>1 DEF NormalSeen, ShowsNormal
  <2> QED BY <1>2, <2>2, <2>3, <2>4 DEF IInv
<1>15. CASE Restart
  <2>1. /\ NoCall /\ held' = data' /\ data' \in {NoOffset, pump}
        /\ state' = Followed(disk, data', FALSE)
        /\ ~writing' /\ \A c \in Choosers : call'[c].pc = "idle"
        /\ UNCHANGED <<pump, disk, meant>>
    BY <1>3, <1>15 DEF Restart, StartData, Idle
  <2>2. ShowsNormal => pump \in meant
    BY <1>1, <2>1 DEF NormalSeen, NoCall
  <2>3. IF disk = NoState THEN ShowsNormal
        ELSE /\ disk \in State /\ disk.mode = state.mode /\ disk.normal \in meant
    BY <1>1, <2>1 DEF FileTracked, NoCall, TypeOK
  <2>4. data' \in Offsets \union {NoOffset}
    BY <1>1, <1>4, <2>1 DEF TypeOK
  <2>5. CASE disk = NoState
    <3>1. state' = NoState \/ (state' = Learn(pump) /\ pump \in meant)
      BY <2>1, <2>2, <2>3, <2>5 DEF Followed
    <3>2. state' # NoState => state'.mode = Normal /\ state'.normal \in meant
      BY <3>1 DEF Learn
    <3>3. CallsTracked'
      BY <2>1 DEF CallsTracked, Writing
    <3>4. FileTracked'
      BY <2>1, <2>5, <3>2 DEF FileTracked, ShowsNormal
    <3>5. NormalSeen'
      BY <1>1, <2>1, <2>2, <2>3, <2>5 DEF NormalSeen
    <3> QED BY <1>2, <3>3, <3>4, <3>5 DEF IInv
  <2>6. CASE disk # NoState
    <3>1. /\ state' \in State /\ state' # NoState /\ state'.mode = disk.mode
          /\ disk.mode # Normal => state'.normal = disk.normal
          /\ state'.normal # disk.normal => state'.normal = data' /\ data' # NoOffset
      BY <2>1, <2>3, <2>4, <2>6, FollowedMode, FollowedStays
    <3>2. state'.normal \in meant
      BY <2>1, <2>2, <2>3, <2>6, <3>1 DEF ShowsNormal
    <3>3. CallsTracked'
      BY <2>1 DEF CallsTracked, Writing
    <3>4. FileTracked'
      BY <2>1, <2>3, <2>6, <3>1, <3>2 DEF FileTracked
    <3>5. NormalSeen'
      BY <1>1, <2>1, <2>2, <2>3, <2>6, <3>1 DEF NormalSeen, ShowsNormal
    <3> QED BY <1>2, <3>3, <3>4, <3>5 DEF IInv
  <2> QED BY <2>5, <2>6
<1>16. CASE UNCHANGED vars
  <2>1. CallsTracked'
    BY <1>1, <1>16 DEF vars, CallsTracked, Writing
  <2>2. FileTracked'
    BY <1>1, <1>16 DEF vars, FileTracked, ShowsNormal
  <2>3. NormalSeen'
    BY <1>1, <1>16 DEF vars, NormalSeen, ShowsNormal
  <2> QED BY <1>2, <2>1, <2>2, <2>3 DEF IInv
<1>17. ~EntityReadBack
  BY <1>3 DEF EntityReadBack
<1> QED
  BY <1>5, <1>6, <1>8, <1>9, <1>10, <1>11, <1>12, <1>13, <1>14, <1>15, <1>16, <1>17
  DEF Next, Finishes

(* Where a call is never abandoned or overlapped and the coordinator       *)
(* publishes nothing read before a write, the normal offset is always one  *)
(* a hand gave the pump - restarts with no call in flight included.        *)
THEOREM NormalFromHands ==
  ASSUME Undisturbed
  PROVE  Spec => []NormalIsMeant
<1>1. IInv /\ [Next]_vars => IInv'
  BY MeantNext
<1>2. IInv => NormalIsMeant
  BY DEF IInv, FileTracked, NormalIsMeant
<1> QED
  BY MeantInit, <1>1, <1>2, PTL DEF Spec

----------------------------------------------------------------------------
(* In a mode other than normal, an offset changed by hand leaves the       *)
(* normal offset alone: in every environment, overlapping calls, lost      *)
(* answers and stale polls included.                                       *)
THEOREM NormalStaysPut == Spec => NormalStays
<1> DEFINE Stays == (/\ state # NoState /\ state' # NoState
                     /\ state.mode # Normal /\ state'.mode # Normal
                     /\ ~Restart) => state'.normal = state.normal
<1>1. ASSUME TypeInv, [Next]_vars PROVE [Stays]_vars
  <2> SUFFICES ASSUME state # NoState, state' # NoState, state.mode # Normal,
                      state'.mode # Normal, ~Restart
               PROVE  state'.normal = state.normal
    OBVIOUS
  <2>1. state \in State
    BY <1>1 DEF TypeInv, TypeOK
  <2>2. ASSUME NEW o \in Offsets \union {NoOffset}
        PROVE  Followed(state, o, writing).normal = state.normal
    BY <1>1, <2>1 DEF Followed, Follow, State
  <2>3. CASE Publish \/ PollFails
    BY <1>1, <2>2, <2>3 DEF Publish, PollFails, TypeInv, TypeOK
  <2>8. CASE EntityReadBack
    <3>1. data' \in Offsets \union {NoOffset}
      BY <1>1, <2>8, PumpInRange DEF EntityReadBack, TypeInv, TypeOK
    <3> QED BY <2>2, <2>8, <3>1 DEF EntityReadBack
  <2>4. ASSUME NEW c \in Choosers, Saved(c) PROVE state'.normal = state.normal
    BY <1>1, <2>2, <2>4 DEF Saved, TypeInv, TypeOK
  <2>5. ASSUME NEW c \in Choosers, ReadBack(c) PROVE state'.normal = state.normal
    <3>1. PICK stored \in {pump, call[c].target} :
             state' = Chosen(Followed(state, stored, writing), call[c].mode, stored)
      BY <2>5 DEF ReadBack
    <3>2. stored \in Offsets /\ writing \in BOOLEAN
      BY <1>1, PumpInRange DEF TypeInv, TypeOK, Call
    <3>3. Followed(state, stored, writing).normal = state.normal
      BY <2>2, <3>2
    <3> QED BY <3>1, <3>3 DEF Chosen, Learn
  <2>6. CASE UNCHANGED state
    BY <2>6
  <2>7. state' = state \/ Publish \/ PollFails \/ EntityReadBack
          \/ \E c \in Choosers : Saved(c) \/ ReadBack(c)
    BY <1>1 DEF Next, vars, Hand, Read, Choose, Finishes, Written, Refused,
                Abandoned, GivesUp, DelayedSave
  <2> QED BY <2>3, <2>4, <2>5, <2>6, <2>7, <2>8
<1> QED
  BY TypeInit, TypeNext, <1>1, PTL DEF Spec, NormalStays

(* The mapped first state is one of the promise's. *)
LEMMA PromiseInit == Init => Promise!Init
BY DEF Init, Promise!Init

(* Every step is a step of the promise or changes nothing it speaks of. *)
LEMMA PromiseNext ==
  ASSUME Undisturbed, IInv, IInv', [Next]_vars
  PROVE  [Promise!Next]_(Promise!promise)
<1> DEFINE shown == IF state = NoState THEN Normal ELSE state.mode
           known == IF state = NoState THEN NoOffset ELSE state.normal
           Unmoved == UNCHANGED <<pump, meant>>
<1>1. TypeOK /\ CallsTracked /\ FileTracked /\ NormalSeen
      /\ TypeOK' /\ FileTracked'
  BY DEF IInv
<1>2. \A n \in meant : n # NoOffset
  BY <1>1, PumpInRange DEF NormalSeen
<1>3. ASSUME Unmoved, shown' = shown,
             shown # Normal => known' = known
      PROVE  [Promise!Next]_(Promise!promise)
  <2>1. known' \in meant \union {NoOffset}
    BY <1>1, <1>3 DEF FileTracked
  <2>2. CASE shown = Normal
    BY <1>3, <2>1, <2>2 DEF Promise!Next, Promise!Learn
  <2>3. CASE shown # Normal
    BY <1>3, <2>3 DEF Promise!promise
  <2> QED BY <2>2, <2>3
<1>4. ASSUME state' = state, Unmoved PROVE [Promise!Next]_(Promise!promise)
  BY <1>4, <1>3
<1>5. ASSUME NEW o \in HandOffsets, Hand(o) PROVE [Promise!Next]_(Promise!promise)
  BY <1>5 DEF Hand, Promise!Next, Promise!Hand
<1>6. ASSUME NEW o \in Offsets \union {NoOffset}, NEW b \in BOOLEAN,
             state' = Followed(state, o, b), Unmoved
      PROVE  [Promise!Next]_(Promise!promise)
  <2>1. CASE state = NoState
    <3>1. shown' = Normal
      BY <1>6, <2>1 DEF Followed, Learn
    <3> QED BY <1>3, <1>6, <2>1, <3>1
  <2>2. CASE state # NoState
    <3>1. state \in State
      BY <1>1, <2>2 DEF TypeOK
    <3>2. Followed(state, o, b) # NoState
      BY <1>6, <3>1, FollowedStays
    <3>3. /\ Followed(state, o, b).mode = state.mode
          /\ state.mode # Normal => Followed(state, o, b).normal = state.normal
      BY <1>6, <3>1, FollowedMode
    <3>4. shown' = shown /\ (shown # Normal => known' = known)
      BY <1>6, <2>2, <3>2, <3>3
    <3> QED BY <1>3, <1>6, <3>4
  <2> QED BY <2>1, <2>2
<1>7. CASE Publish
  BY <1>1, <1>6, <1>7 DEF Publish, TypeOK
<1>8. CASE PollFails
  BY <1>1, <1>4, <1>6, <1>8 DEF PollFails, TypeOK
<1>9. ASSUME NEW c \in Choosers, Written(c) PROVE [Promise!Next]_(Promise!promise)
  <2>1. /\ state # NoState /\ state.normal # NoOffset
        /\ call[c].mode \in Modes /\ UNCHANGED <<state, meant>>
        /\ pump' = PumpOffsetFor(call[c].mode, state.normal)
    BY <1>1, <1>2, <1>9 DEF Written, TypeOK, Call, CallsTracked, Writing,
                            FileTracked, PumpOffsetFor
  <2> QED BY <2>1 DEF Promise!Next, Promise!Steer
<1>10. ASSUME NEW c \in Choosers, ReadBack(c) PROVE [Promise!Next]_(Promise!promise)
  <2>1. /\ state # NoState /\ state \in State /\ state.normal # NoOffset /\ writing
        /\ call[c].mode \in Modes /\ Unmoved
    BY <1>1, <1>2, <1>10 DEF ReadBack, TypeOK, Call, CallsTracked, Writing, FileTracked
  <2>2. PICK stored \in {pump, call[c].target} :
           state' = Chosen(Followed(state, stored, writing), call[c].mode, stored)
    BY <1>10 DEF ReadBack
  <2>3. state' = Chosen(state, call[c].mode, stored)
    BY <2>1, <2>2 DEF Followed
  <2>4. stored \in Offsets
    BY <1>1, <2>1, <2>2, PumpInRange DEF TypeOK, Call
  <2>5. state' \in State /\ state' # NoState
    BY <2>1, <2>3, <2>4, ChosenType
  <2>6. state'.mode = call[c].mode /\ state'.normal \in meant
        /\ (call[c].mode # Normal => state'.normal = state.normal)
    BY <1>1, <2>1, <2>3, <2>5 DEF Chosen, Learn, FileTracked
  <2>7. shown' = call[c].mode /\ known' = state'.normal /\ known = state.normal
    BY <2>1, <2>5, <2>6
  <2>8. Promise!Show
    BY <2>1, <2>6, <2>7 DEF Promise!Show
  <2> QED BY <2>8 DEF Promise!Next
<1>11. ASSUME NEW c \in Choosers, Saved(c) PROVE [Promise!Next]_(Promise!promise)
  BY <1>1, <1>6, <1>11 DEF Saved, TypeOK
<1>12. CASE Restart
  <2>1. NoCall /\ Unmoved /\ data' \in Offsets \union {NoOffset}
        /\ state' = Followed(disk, data', FALSE)
    BY <1>1, <1>12 DEF Restart, Undisturbed, TypeOK
  <2>2. CASE disk = NoState
    <3>1. ShowsNormal
      BY <1>1, <2>1, <2>2 DEF FileTracked, NoCall
    <3>2. shown = Normal /\ shown' = Normal
      BY <2>1, <2>2, <3>1 DEF Followed, Learn, ShowsNormal
    <3> QED BY <1>3, <2>1, <3>2
  <2>3. CASE disk # NoState
    <3>1. /\ disk \in State /\ state # NoState /\ disk.mode = state.mode
          /\ state.mode # Normal => disk.normal = state.normal
      BY <1>1, <2>1, <2>3 DEF FileTracked, NoCall, TypeOK
    <3>2. /\ state' # NoState /\ state'.mode = disk.mode
          /\ disk.mode # Normal => state'.normal = disk.normal
      BY <2>1, <3>1, FollowedMode, FollowedStays
    <3>3. shown' = shown /\ (shown # Normal => known' = known)
      BY <3>1, <3>2
    <3> QED BY <1>3, <2>1, <3>3
  <2> QED BY <2>2, <2>3
<1>13. CASE UNCHANGED vars
  BY <1>4, <1>13 DEF vars
<1>15. ~EntityReadBack
  BY DEF EntityReadBack, Undisturbed
<1>14. (state' = state /\ Unmoved) \/ Publish \/ PollFails \/ Restart
       \/ (\E o \in HandOffsets : Hand(o))
       \/ \E c \in Choosers : Written(c) \/ ReadBack(c) \/ Saved(c)
  BY <1>15 DEF Next, vars, Read, Choose, Finishes, Refused, Abandoned, GivesUp, DelayedSave
<1> QED
  BY <1>4, <1>5, <1>7, <1>8, <1>9, <1>10, <1>11, <1>12, <1>14

(* Where nothing is abandoned, overlapped or published stale, the          *)
(* controller with its polls, calls, saves and restarts implements the     *)
(* promise of HeatingPromise.                                              *)
THEOREM PromiseKept ==
  ASSUME Undisturbed
  PROVE  Spec => KeepsPromise
<1>1. IInv /\ [Next]_vars => IInv'
  BY MeantNext
<1>2. IInv /\ IInv' /\ [Next]_vars => [Promise!Next]_(Promise!promise)
  BY PromiseNext
<1> QED
  BY MeantInit, PromiseInit, <1>1, <1>2, PTL DEF Spec, KeepsPromise, Promise!Spec
============================================================================
