------------------------------- MODULE Playback -------------------------------
(***************************************************************************)
(* Playback: the trace of a command, replayed on a clock over the canvas,  *)
(* while the user drives it, edits the document it is drawn on, and starts *)
(* the next command.                                                       *)
(*                                                                         *)
(* A tick is the time since the last frame times the speed, so the speed   *)
(* is not a variable.  progress is elapsed over the duration of the event  *)
(* and is left out.  A trace is of the document its command carried; what  *)
(* is edited while the answer is on its way might as well be edited after  *)
(* it, so an answer is one action.                                         *)
(***************************************************************************)
EXTENDS TopologyEditor, Sequences

CONSTANTS
  Frame,            \* frame uids
  None,
  Decided,          \* what a decision may be about: a frame or none
  Transmit, Step,   \* TRANSMIT_MS, STEP_MS
  Deltas,           \* what a tick may add
  MaxEvents         \* bounds a trace

ASSUME FrameAssumption == Decided \subseteq Frame \cup {None}
ASSUME TimeAssumption == Transmit \in Nat /\ Step \in Nat /\ Deltas \subseteq Nat \ {0}

VARIABLES
  events,    \* the trace that is loaded
  cursor,    \* how many of its events are revealed
  elapsed,   \* time spent on the last one
  playing,
  transit,   \* the crossing that is drawn: a cable and a frame, or none
  selected   \* the frame shown in the inspector, or none

trace == <<events, cursor, elapsed, playing, transit, selected>>
vars == <<document, trace>>

(* A frame crosses a cable; or a device decides, about a frame or not.     *)
Event(cables) == [cable : cables, frame : Frame] \cup [cable : {None}, frame : Decided]
Traces(cables) == UNION {[1 .. n -> Event(cables)] : n \in 0 .. MaxEvents}

Empty ==
  /\ events = <<>> /\ cursor = 0 /\ elapsed = 0 /\ playing = FALSE
  /\ transit = None /\ selected = None

Init == EditorInit /\ Empty

-------------------------------------------------------------------------------
DurationFor(event) == IF event.cable = None THEN Step ELSE Transmit

(* The event itself, where it is a crossing. *)
TransitFor(event) == IF event.cable = None THEN None ELSE event

(* Mutant: what was drawn before stays until the next crossing. *)
BeginOver(i, time) ==
  /\ cursor' = i /\ elapsed' = time
  /\ transit' = IF events[i].cable = None THEN transit ELSE events[i]
  /\ selected' = IF events[i].frame = None THEN selected ELSE events[i].frame

(* Reveal the event after the first i - 1. *)
Begin(i, time) ==
  /\ cursor' = i /\ elapsed' = time
  /\ transit' = TransitFor(events[i])
  /\ selected' = IF events[i].frame = None THEN selected ELSE events[i].frame

Rewind == cursor' = 0 /\ elapsed' = 0 /\ transit' = None

(* A command or a connection test is answered. *)
Load(new) ==
  /\ events' = new /\ playing' = (new # <<>>)
  /\ Rewind /\ selected' = None
  /\ UNCHANGED document

Play ==
  /\ ~playing /\ events # <<>>
  /\ IF cursor >= Len(events) THEN Rewind ELSE UNCHANGED <<cursor, elapsed, transit>>
  /\ playing' = TRUE
  /\ UNCHANGED <<document, events, selected>>

Pause ==
  /\ playing
  /\ playing' = FALSE
  /\ UNCHANGED <<document, events, cursor, elapsed, transit, selected>>

Restart ==
  /\ events # <<>>
  /\ Rewind /\ playing' = TRUE
  /\ UNCHANGED <<document, events, selected>>

(* The button is disabled where there is nothing left to reveal. *)
StepForward ==
  /\ cursor < Len(events)
  /\ playing' = FALSE
  /\ Begin(cursor + 1, DurationFor(events[cursor + 1]))
  /\ UNCHANGED <<document, events>>

(* The log and the inspector list what is revealed. *)
SelectFrame(i) ==
  /\ i <= cursor
  /\ selected' = events[i].frame
  /\ UNCHANGED <<document, events, cursor, elapsed, playing, transit>>

-------------------------------------------------------------------------------
Over(delta) == cursor > 0 /\ elapsed + delta >= DurationFor(events[cursor])

(* Mutant: the end of the trace is not noticed. *)
TickOn(delta) ==
  /\ playing
  /\ \/ /\ cursor = 0 \/ Over(delta)
        /\ cursor < Len(events)
        /\ Begin(cursor + 1, 0)
     \/ /\ cursor > 0 /\ ~(Over(delta) /\ cursor < Len(events))
        /\ elapsed' = IF Over(delta) THEN DurationFor(events[cursor]) ELSE elapsed + delta
        /\ UNCHANGED <<cursor, transit, selected>>
  /\ UNCHANGED <<document, events, playing>>

Tick(delta) ==
  /\ playing
  /\ \/ /\ cursor = 0 \/ Over(delta)
        /\ cursor < Len(events)
        /\ Begin(cursor + 1, 0)
        /\ UNCHANGED playing
     \/ /\ Over(delta) /\ cursor = Len(events)
        /\ playing' = FALSE /\ transit' = None /\ elapsed' = DurationFor(events[cursor])
        /\ UNCHANGED <<cursor, selected>>
     \/ /\ cursor > 0 /\ ~Over(delta)
        /\ elapsed' = elapsed + delta
        /\ UNCHANGED <<cursor, playing, transit, selected>>
  /\ UNCHANGED <<document, events>>

(* The trace does not survive the page. *)
ReloadPage(now) ==
  /\ LoadPage(now)
  /\ events' = <<>> /\ Rewind /\ playing' = FALSE /\ selected' = None

-------------------------------------------------------------------------------
Answer == \E new \in Traces(links) : Load(new)

Drive == Play \/ Pause \/ Restart \/ StepForward \/ \E i \in 1 .. Len(events) : SelectFrame(i)

Clockwork == \E delta \in Deltas : Tick(delta)

Next ==
  \/ Edit /\ UNCHANGED trace
  \/ Answer
  \/ Drive
  \/ Clockwork
  \/ \E now \in Clock : ReloadPage(now)

(* requestAnimationFrame calls back as long as the effect of the clock is  *)
(* installed, which is as long as the trace is playing.                    *)
Fairness == WF_vars(Clockwork)

Spec == Init /\ [][Next]_vars /\ Fairness

-------------------------------------------------------------------------------
(* Type invariant. *)
TypeOK ==
  /\ EditorTypeOK
  /\ events \in Seq(Event(Link))
  /\ cursor \in 0 .. Len(events) /\ elapsed \in Nat /\ playing \in BOOLEAN
  /\ transit \in [cable : Link, frame : Frame] \cup {None}
  /\ selected \in Frame \cup {None}

(* What is drawn on the canvas, what the log shows last and what the       *)
(* inspector shows belong together: a crossing that is drawn is the last   *)
(* event revealed; while the trace plays, the last event revealed is drawn *)
(* if it is a crossing; the selected frame is one of the trace that is     *)
(* loaded (begin, load, play, tick).                                       *)
AnimationInStep ==
  /\ transit # None => cursor > 0 /\ transit = events[cursor]
  /\ playing /\ cursor > 0 => transit = TransitFor(events[cursor])
  /\ selected # None => \E i \in 1 .. Len(events) : events[i].frame = selected

(* A crossing is drawn on the cable of the document that has its link id:  *)
(* however much is recabled, removed, reloaded and brought back while it   *)
(* is drawn, that is the cable the frame crossed, as long as the counter   *)
(* is ahead and no mission brought ids of its own (CableEdge, uid).        *)
DrawnWhereItCrossed ==
  ahead /\ ~foreign /\ transit # None => \A l \in links : l.id = transit.cable.id => l = transit.cable

(* A trace that is left alone comes to its end, and stops: from whatever   *)
(* mix of pauses, steps and rewinds (tick, usePlaybackClock).              *)
PlaybackEnds == <>[][Clockwork]_trace => <>[]~playing
================================================================================
