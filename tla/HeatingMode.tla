---------------------------- MODULE HeatingMode ----------------------------
(***************************************************************************)
(* The heating mode of one pump (heating_mode.Controller) with the parts   *)
(* of the system it interleaves with: the coordinator that polls and       *)
(* writes the heat offset register, the pump that stores it, the store     *)
(* that outlives a restart, and the hand at the pump's own display.        *)
(*                                                                         *)
(* Everything runs on one event loop, so an action is what runs between    *)
(* two awaits.  The register access itself is serialised by the client's   *)
(* lock: an exchange with the pump is one step.                            *)
(***************************************************************************)
EXTENDS Integers

CONSTANTS
  Low, High,          \* the range the register map gives the offset
  PumpLow, PumpHigh,  \* the range the pump itself keeps
  Steps,              \* offset steps from normal, per mode
  HandOffsets,        \* bound: the offsets a hand sets at the pump
  Asked,              \* bound: the modes callers ask for
  Choosers,           \* calls of async_choose that may be in flight at once
  Buffered,           \* TRUE: S-series, a poll keeps what it read to itself
  CallsAbandoned,     \* TRUE: an answer may be lost or a call cancelled
  CrashMidCall,       \* TRUE: a restart may fall inside a call
  NoOffset, NoState

Normal == "normal"
Modes == {"blocked", "eco", Normal, "boost"}

Offsets == Low .. High
PumpOffsets == PumpLow .. PumpHigh
State == [mode : Modes, normal : Offsets, offset : Offsets]
Call == [pc : {"idle", "write", "readback", "saving"}, mode : Modes, target : Offsets]

ASSUME RangeAssumption ==
  /\ Low \in Int /\ High \in Int /\ PumpLow \in Int /\ PumpHigh \in Int
  /\ Low <= PumpLow /\ PumpLow <= PumpHigh /\ PumpHigh <= High
ASSUME StepsAssumption == Steps \in [Modes -> Int] /\ Steps[Normal] = 0
ASSUME HandAssumption == HandOffsets \subseteq PumpOffsets /\ HandOffsets # {}
ASSUME AskedAssumption == Asked \subseteq Modes
ASSUME SwitchAssumption ==
  /\ Buffered \in BOOLEAN /\ CallsAbandoned \in BOOLEAN /\ CrashMidCall \in BOOLEAN
ASSUME NoneAssumption == NoOffset \notin Offsets /\ NoState \notin State

VARIABLES
  pump,      \* the offset the pump holds
  held,      \* what a poll has read and will publish
  data,      \* coordinator.data at the register
  state,     \* Controller.state
  writing,   \* Controller._writing
  call,      \* the calls of async_choose in flight
  disk,      \* the store's file
  dirty,     \* the store holds data it has still to write
  meant,     \* history: every offset the pump had from a hand
  touched    \* history: a hand moved the offset after the last mode written

vars == <<pump, held, data, state, writing, call, disk, dirty, meant, touched>>

----------------------------------------------------------------------------
(* The pure functions.  The operators before a definition that bear its    *)
(* name with a fault in it - OffsetForUnclamped before OffsetFor - are     *)
(* what the runs are shown to notice; nothing in the model uses them.      *)

Clamp(x, lo, hi) == IF x < lo THEN lo ELSE IF x > hi THEN hi ELSE x

OffsetForUnclamped(mode, normal) == normal + Steps[mode]

OffsetFor(mode, normal) == Clamp(normal + Steps[mode], Low, High)

Kept(x) == Clamp(x, PumpLow, PumpHigh)

PumpOffsetFor(mode, normal) == Kept(OffsetFor(mode, normal))

Learn(o) == [mode |-> Normal, normal |-> o, offset |-> o]

FollowLearnsAlways(s, o) ==
  IF o = s.offset THEN s ELSE [s EXCEPT !.normal = o, !.offset = o]

Follow(s, o) ==
  IF o = s.offset THEN s
  ELSE IF s.mode = Normal THEN Learn(o)
  ELSE [s EXCEPT !.offset = o]

Chosen(s, mode, o) ==
  IF mode = Normal THEN Learn(o)
  ELSE [mode |-> mode, normal |-> s.normal, offset |-> o]

FollowedWhileWriting(s, o, busy) ==
  IF o = NoOffset THEN s ELSE IF s = NoState THEN Learn(o) ELSE Follow(s, o)

(* The listener: what the controller makes of the offset `o' the           *)
(* coordinator shows, with a mode being written or not.                    *)
Followed(s, o, busy) ==
  IF o = NoOffset \/ busy THEN s
  ELSE IF s = NoState THEN Learn(o)
  ELSE Follow(s, o)

Idle == [pc |-> "idle", mode |-> Normal, target |-> Low]

NoCall == \A c \in Choosers : call[c].pc = "idle"

(* What the coordinator shows when the controller starts: an S-series      *)
(* coordinator has not asked for the register yet, a gateway one may have  *)
(* it from the start-up probe.                                             *)
StartData == IF Buffered THEN {NoOffset} ELSE {NoOffset, pump}

----------------------------------------------------------------------------
Init ==
  /\ pump \in HandOffsets
  /\ held = NoOffset
  /\ data = NoOffset
  /\ state = NoState
  /\ writing = FALSE
  /\ call = [c \in Choosers |-> Idle]
  /\ disk = NoState
  /\ dirty = FALSE
  /\ meant = {pump}
  /\ touched = FALSE

(* Someone changes the offset at the pump, in myUplink or through the      *)
(* offset's own entity, whose write the pump stores here.                  *)
Hand(o) ==
  /\ pump' = o
  /\ meant' = meant \union {o}
  /\ touched' = TRUE
  /\ UNCHANGED <<held, data, state, writing, call, disk, dirty>>

(* A poll reads the register.  The S-series cycle keeps the words until    *)
(* all its spans are read; the gateway stores the value at once, and a     *)
(* value the gateway pushes arrives the same way.                          *)
Read ==
  /\ Buffered => held = NoOffset
  /\ held' = pump
  /\ UNCHANGED <<pump, data, state, writing, call, disk, dirty, meant, touched>>

PublishUnsaved ==
  /\ held # NoOffset
  /\ data' = held
  /\ held' = IF Buffered THEN NoOffset ELSE held
  /\ state' = Followed(state, held, writing)
  /\ UNCHANGED <<pump, writing, call, disk, dirty, meant, touched>>

(* The cycle ends, or the flush after a push: the data is replaced and     *)
(* the listeners run.                                                      *)
Publish ==
  /\ held # NoOffset
  /\ data' = held
  /\ held' = IF Buffered THEN NoOffset ELSE held
  /\ state' = Followed(state, held, writing)
  /\ dirty' = (dirty \/ state' # state)
  /\ UNCHANGED <<pump, writing, call, disk, meant, touched>>

(* The cycle fails: UpdateFailed drops what this cycle read and leaves the *)
(* data; the listeners run again unless the cycle before failed too.       *)
PollFails ==
  /\ held' = IF Buffered THEN NoOffset ELSE held
  /\ state' \in {state, Followed(state, data, writing)}
  /\ dirty' = (dirty \/ state' # state)
  /\ UNCHANGED <<pump, data, writing, call, disk, meant, touched>>

(* The write of some entity is read back: S-series data takes it up at     *)
(* once, in the middle of a cycle too - for the offset's own entity what   *)
(* the pump holds - and the listeners run.  For a gateway that is a Read   *)
(* and a Publish.                                                          *)
EntityReadBack ==
  /\ Buffered
  /\ data # NoOffset
  /\ data' \in {data, pump}
  /\ state' = Followed(state, data', writing)
  /\ dirty' = (dirty \/ state' # state)
  /\ UNCHANGED <<pump, held, writing, call, disk, meant, touched>>

(* async_choose up to its first await. *)
Choose(c, m) ==
  /\ call[c].pc = "idle"
  /\ state # NoState
  /\ call' = [call EXCEPT ![c] =
                [pc |-> "write", mode |-> m, target |-> OffsetFor(m, state.normal)]]
  /\ writing' = TRUE
  /\ UNCHANGED <<pump, held, data, state, disk, dirty, meant, touched>>

(* The write reaches the pump, which clamps it to its own limits. *)
Written(c) ==
  /\ call[c].pc = "write"
  /\ pump' = Kept(call[c].target)
  /\ call' = [call EXCEPT ![c].pc = "readback"]
  /\ touched' = FALSE
  /\ UNCHANGED <<held, data, state, writing, disk, dirty, meant>>

GivesUpStillWriting(c) ==
  /\ call' = [call EXCEPT ![c] = Idle]
  /\ UNCHANGED <<pump, held, data, state, writing, disk, dirty, meant, touched>>

(* async_choose leaves with an exception: only the flag is put back. *)
GivesUp(c) ==
  /\ call' = [call EXCEPT ![c] = Idle]
  /\ writing' = FALSE
  /\ UNCHANGED <<pump, held, data, state, disk, dirty, meant, touched>>

(* The write is refused or never leaves: the pump keeps what it had. *)
Refused(c) == call[c].pc = "write" /\ GivesUp(c)

(* The pump stored the write, but its answer is lost - the client reports  *)
(* a failed write - or the call is cancelled before the read-back is in.   *)
Abandoned(c) == CallsAbandoned /\ call[c].pc = "readback" /\ GivesUp(c)

(* The read-back (the value written, if the read fails) is published, the  *)
(* listeners run, and the mode is taken up: no await in between.           *)
ReadBack(c) ==
  /\ call[c].pc = "readback"
  /\ \E stored \in {pump, call[c].target} :
       /\ data' = stored
       /\ held' = IF Buffered THEN held ELSE stored
       /\ state' = Chosen(Followed(state, stored, writing), call[c].mode, stored)
  /\ writing' = FALSE
  /\ dirty' = TRUE
  /\ call' = [call EXCEPT ![c].pc = "saving"]
  /\ UNCHANGED <<pump, disk, meant, touched>>

(* The save returns, and every listener is told of the new mode.  (A change *)
(* followed while the file was being written is put in it here; in the code *)
(* its own delayed save writes the file once more.)                        *)
Saved(c) ==
  /\ call[c].pc = "saving"
  /\ disk' = state
  /\ state' = Followed(state, data, writing)
  /\ dirty' = (state' # state)
  /\ call' = [call EXCEPT ![c] = Idle]
  /\ UNCHANGED <<pump, held, data, writing, meant, touched>>

(* The delayed save, a second after the change or at a clean stop. *)
DelayedSave ==
  /\ dirty
  /\ disk' = state
  /\ dirty' = FALSE
  /\ UNCHANGED <<pump, held, data, state, writing, call, meant, touched>>

RestartForgetting ==
  /\ CrashMidCall \/ NoCall
  /\ data' \in StartData
  /\ held' = IF Buffered THEN NoOffset ELSE data'
  /\ state' = Followed(NoState, data', FALSE)
  /\ dirty' = (state' # disk)
  /\ writing' = FALSE
  /\ call' = [c \in Choosers |-> Idle]
  /\ UNCHANGED <<pump, disk, meant, touched>>

(* Home Assistant stops, cleanly or not, and starts again: the stored      *)
(* state is taken up, then the pump is followed.                           *)
Restart ==
  /\ CrashMidCall \/ NoCall
  /\ data' \in StartData
  /\ held' = IF Buffered THEN NoOffset ELSE data'
  /\ state' = Followed(disk, data', FALSE)
  /\ dirty' = (state' # disk)
  /\ writing' = FALSE
  /\ call' = [c \in Choosers |-> Idle]
  /\ UNCHANGED <<pump, disk, meant, touched>>

Finishes(c) == Written(c) \/ Refused(c) \/ Abandoned(c) \/ ReadBack(c) \/ Saved(c)

Next ==
  \/ \E o \in HandOffsets : Hand(o)
  \/ Read
  \/ Publish
  \/ PollFails
  \/ EntityReadBack
  \/ \E c \in Choosers, m \in Asked : Choose(c, m)
  \/ \E c \in Choosers : Finishes(c)
  \/ DelayedSave
  \/ Restart

Spec == Init /\ [][Next]_vars

(* The loop runs whatever is ready: calls come to an end and the delayed   *)
(* save fires.  Polls are repeated for ever, and not every one fails.      *)
Fairness ==
  /\ WF_vars(Read)
  /\ SF_vars(Publish)
  /\ \A c \in Choosers : WF_vars(Finishes(c))
  /\ WF_vars(DelayedSave)

FairSpec == Spec /\ Fairness

----------------------------------------------------------------------------
(* Properties *)

(* Every variable stays in its type: an offset inside the register's range *)
(* or none, a whole state or none, calls at one of their awaits.           *)
TypeOK ==
  /\ pump \in PumpOffsets
  /\ held \in Offsets \union {NoOffset}
  /\ data \in Offsets \union {NoOffset}
  /\ state \in State \union {NoState}
  /\ writing \in BOOLEAN
  /\ call \in [Choosers -> Call]
  /\ disk \in State \union {NoState}
  /\ dirty \in BOOLEAN
  /\ meant \subseteq HandOffsets
  /\ touched \in BOOLEAN

(* The normal offset is one the pump had from a hand, never an offset a    *)
(* mode wrote: "an offset changed outside the select is taken as meant",   *)
(* and only such an offset (heating_mode.py's contract).                   *)
NormalIsMeant == state # NoState => state.normal \in meant

(* Whatever the file lacks, a save is still to come for: no change of the  *)
(* state is ever forgotten by the store.                                   *)
DiskCurrent == ~dirty => disk = state

(* In a mode other than normal an offset changed by hand does not touch    *)
(* the normal offset, until a mode is chosen again or Home Assistant       *)
(* restarts.                                                               *)
NormalStays ==
  [][ (/\ state # NoState /\ state' # NoState
       /\ state.mode # Normal /\ state'.mode # Normal
       /\ ~Restart)
      => state'.normal = state.normal ]_vars

(* Once nobody disturbs the pump any more, the coordinator, the controller *)
(* and the file all come to agree with it and stay so: a stale value that  *)
(* was published, followed or stored is put right by later polls.          *)
Disturbed ==
  \/ \E o \in HandOffsets : Hand(o)
  \/ \E c \in Choosers, m \in Asked : Choose(c, m)
  \/ Restart

Agreed ==
  /\ data = pump
  /\ state # NoState
  /\ state.offset = pump
  /\ state.mode = Normal => state.normal = pump
  /\ disk = state

Settles == <>[][~Disturbed]_vars => <>[]Agreed

----------------------------------------------------------------------------
(* The inductive invariant behind NormalIsMeant and KeepsPromise.          *)
(* It holds where what it speaks of cannot be disturbed: a coordinator     *)
(* that publishes no value read before a write (the gateway), one call at  *)
(* a time, every call finished.                                            *)
Undisturbed ==
  /\ ~Buffered /\ ~CallsAbandoned /\ ~CrashMidCall
  /\ \A c, d \in Choosers : c = d

ShowsNormal == state = NoState \/ state.mode = Normal

Writing(c) == call[c].pc \in {"write", "readback"}

(* The flag is up exactly while a call is between its target and its       *)
(* read-back, and the target still belongs to the normal offset.           *)
CallsTracked ==
  /\ writing <=> \E c \in Choosers : Writing(c)
  /\ \A c \in Choosers : call[c].pc # "idle" => state # NoState
  /\ \A c \in Choosers :
       Writing(c) => call[c].target = OffsetFor(call[c].mode, state.normal)

(* With no call saving the file has the mode the controller shows, and  *)
(* outside normal the whole of what the modes are computed from.           *)
FileTracked ==
  /\ state # NoState => state.normal \in meant
  /\ disk # NoState => disk.normal \in meant /\ state # NoState
  /\ (\A c \in Choosers : call[c].pc # "saving")
       => IF disk = NoState THEN ShowsNormal
          ELSE /\ disk.mode = state.mode
               /\ state.mode # Normal => disk.normal = state.normal

(* While normal is shown and nothing has been written over it, only        *)
(* offsets from a hand are anywhere in the coordinator.                    *)
NormalSeen ==
  /\ meant \subseteq HandOffsets
  /\ (ShowsNormal /\ \A c \in Choosers : call[c].pc # "readback")
       => /\ pump \in meant
          /\ held \in meant \union {NoOffset}
          /\ data \in meant \union {NoOffset}
  /\ \A c \in Choosers :
       (call[c].pc = "readback" /\ call[c].mode = Normal) => pump \in meant

IInv == TypeOK /\ CallsTracked /\ FileTracked /\ NormalSeen

(* The promise, with the controller's state as the mode it shows. *)
Promise == INSTANCE HeatingPromise WITH
  mode <- IF state = NoState THEN Normal ELSE state.mode,
  normal <- IF state = NoState THEN NoOffset ELSE state.normal,
  ModeOffset <- PumpOffsetFor,
  Unknown <- NoOffset

(* The controller, its polls, calls, saves and restarts do what the        *)
(* promise allows and nothing else.                                        *)
KeepsPromise == Promise!Spec
============================================================================
