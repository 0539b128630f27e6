------------------------------ MODULE Display ------------------------------
(***************************************************************************)
(* The way of the dashboard to the screen: the renderer compares the       *)
(* picture with the one it retained and emits a full frame or the          *)
(* difference (tc2_ui_renderer.c), the pump holds an active and a pending  *)
(* frame and hands them to the terminal chunk by chunk (tc2_ui_tx_pump.c), *)
(* and the console task renders, drains, runs commands and leaves and      *)
(* resumes the dashboard (train_control.c).  Glyphs are abstract; a chunk  *)
(* is the update of one place of the screen.                               *)
(***************************************************************************)
EXTENDS Integers, FiniteSets, SequencesExt

CONSTANTS
  Cells,          \* the places of the map
  Glyphs,         \* what a place of the map may show
  Words,          \* what the status row and the command line may say
  MaxChanges,     \* bound: changes of picture, status and command line
  MaxCommands,    \* bound: commands of the operator, lines of text
  MaxFailures     \* bound: failures of the terminal or of the renderer

DisplayAssumption ==
  /\ Cells # {} /\ IsFiniteSet(Cells) /\ Glyphs # {}
  /\ {"status", "prompt", "everywhere"} \cap Cells = {}
  /\ MaxChanges \in Nat /\ MaxCommands \in Nat /\ MaxFailures \in Nat

VARIABLES
  live,      \* tc2_ui_live: the dashboard shows the dispatcher, not the simulator
  patient,   \* the caller renders only when nothing is left to send
  active,    \* tc2_ui_active
  shutdown,  \* "no", "requested", "queued": the simulator's last frame
  picture,   \* the overlay: what the map should show
  status, dirty,  \* tc2_ui_status, tc2_ui_status_dirty
  line,      \* the command line
  renderer,  \* initialized, and the picture retained from the last frame
  pump,      \* active and pending frame, full_redraw_required, output_failed
  screen,    \* what the terminal shows
  stained,   \* text was printed under a dashboard that believes in its picture
  changes, commands, failures

dashboard == <<live, patient, active, shutdown>>
wanted    == <<picture, status, dirty, line>>
bounds    == <<changes, commands, failures>>
vars      == <<dashboard, wanted, renderer, pump, screen, stained, bounds>>

Places  == Cells \cup {"status", "prompt"}
Blank   == "blank"
Text    == "text"       \* what a command printed
NoFrame == [kind |-> "none", chunks |-> <<>>]

Blanked == [p \in Places |-> Blank]
Apply(s, chunk) == IF chunk.at = "everywhere" THEN Blanked ELSE [s EXCEPT ![chunk.at] = chunk.to]

\* At each place the last chunk decides that concerns it.
Concerns(chunks, p) == {i \in DOMAIN chunks : chunks[i].at \in {p, "everywhere"}}

ApplyAll(s, chunks) ==
  [p \in Places |->
     IF Concerns(chunks, p) = {} THEN s[p]
     ELSE Apply(s, chunks[CHOOSE i \in Concerns(chunks, p) : \A j \in Concerns(chunks, p) : j <= i])[p]]

-----------------------------------------------------------------------------
\* The renderer.

Updates(cells, pic) == [i \in DOMAIN cells |-> [at |-> cells[i], to |-> pic[cells[i]]]]

\* Tc2UiRendererRender: everything after a clear, or what changed.
FullRedraw == ~renderer.initialized \/ pump.full_redraw_required
Drawn(pic) ==
  IF FullRedraw THEN <<[at |-> "everywhere", to |-> Blank]>> \o Updates(SetToSeq(Cells), pic)
  ELSE Updates(SetToSeq({c \in Cells : pic[c] # renderer.previous[c]}), pic)

\* tc2_build_prompt_restore looks at the renderer only: the pump's wish for a
\* full redraw is passed on to the renderer later, by the render call itself.
Restore ==
  (IF dirty \/ ~renderer.initialized THEN <<[at |-> "status", to |-> status]>> ELSE <<>>)
    \o <<[at |-> "prompt", to |-> line]>>

-----------------------------------------------------------------------------
\* The pump.

NewPump == [active |-> NoFrame, pending |-> NoFrame,
            full_redraw_required |-> TRUE, output_failed |-> FALSE]

Idle(p) == p.active = NoFrame

\* Tc2UiTxPumpCommitFrame.  A delta that meets two queued frames takes the
\* pending one with it.
RefusedBy(p, frame) ==
  frame.kind = "delta" /\ (p.full_redraw_required \/ (~Idle(p) /\ p.pending # NoFrame))

\* Mutant: the request for a full redraw outlives the full frame.
AcceptedStillAsking(p, frame) ==
  [p EXCEPT !.active = IF Idle(p) THEN frame ELSE p.active,
            !.pending = IF Idle(p) THEN NoFrame ELSE frame]

Accepted(p, frame) ==
  [p EXCEPT !.active = IF Idle(p) THEN frame ELSE p.active,
            !.pending = IF Idle(p) THEN NoFrame ELSE frame,
            !.full_redraw_required = @ /\ frame.kind # "full"]

\* Mutant: the newest delta replaces the pending one.
CommittedOverPending(p, frame) ==
  IF frame.kind = "delta" /\ p.full_redraw_required THEN p ELSE Accepted(p, frame)

Committed(p, frame) ==
  IF ~RefusedBy(p, frame) THEN Accepted(p, frame)
  ELSE [p EXCEPT !.pending = IF p.full_redraw_required THEN @ ELSE NoFrame,
                 !.full_redraw_required = TRUE]

\* The active frame's next chunk was taken.
Sent(p) ==
  IF Len(p.active.chunks) > 1 THEN [p EXCEPT !.active.chunks = Tail(@)]
  ELSE [p EXCEPT !.active = p.pending, !.pending = NoFrame,
                 !.output_failed = @ /\ p.active.kind # "full"]

\* discard_transmit_queue_after_failure
Discarded(p) == [NewPump EXCEPT !.output_failed = TRUE]

-----------------------------------------------------------------------------
\* The dashboard.

Init ==
  /\ live \in BOOLEAN /\ patient \in BOOLEAN
  /\ active = TRUE /\ shutdown = "no" /\ stained = FALSE
  /\ picture = [c \in Cells |-> CHOOSE g \in Glyphs : TRUE]
  /\ status = "" /\ line = "" /\ dirty = TRUE
  /\ renderer = [initialized |-> FALSE, previous |-> [c \in Cells |-> Blank]]
  /\ pump = NewPump
  /\ screen = [p \in Places |-> Text]
  /\ changes = 0 /\ commands = 0 /\ failures = 0

\* A new snapshot, a new status, a key.
Change ==
  /\ active /\ changes < MaxChanges
  /\ changes' = changes + 1
  /\ \/ /\ \E c \in Cells, g \in Glyphs : picture' = [picture EXCEPT ![c] = g]
        /\ UNCHANGED <<status, dirty, line>>
     \/ status' \in Words /\ dirty' = TRUE /\ UNCHANGED <<picture, line>>
     \/ line' \in Words /\ UNCHANGED <<picture, status, dirty>>
  /\ UNCHANGED <<dashboard, renderer, pump, screen, stained, commands, failures>>

\* Tc2LiveUiRender, Tc2OfflineControllerRender: begin, render, commit.  The
\* simulator's invalidates its renderer when the pump refused the frame; the
\* live one waits for the next call to find the pump in need of a redraw.
Render ==
  LET kind  == IF FullRedraw THEN "full" ELSE "delta"
      frame == [kind |-> kind, chunks |-> Drawn(picture) \o Restore]
  IN /\ active /\ (patient => Idle(pump))
     /\ shutdown # "queued" \/ ~Idle(pump)
     /\ pump' = Committed(pump, frame)
     /\ renderer' = [initialized |-> live \/ ~RefusedBy(pump, frame), previous |-> picture]
     /\ shutdown' = IF shutdown = "requested" /\ ~RefusedBy(pump, frame) THEN "queued" ELSE shutdown
     /\ dirty' = FALSE
     /\ stained' = (stained /\ kind = "delta")
     /\ UNCHANGED <<live, patient, active, picture, status, line, screen, bounds>>

\* The frame does not fit: it is abandoned half written.
RenderFails ==
  /\ active /\ (patient => Idle(pump)) /\ failures < MaxFailures
  /\ shutdown # "queued" \/ ~Idle(pump)
  /\ failures' = failures + 1
  /\ pump' = [pump EXCEPT !.full_redraw_required = TRUE]
  /\ renderer' = [renderer EXCEPT !.initialized = FALSE]
  /\ status' \in Words /\ dirty' = TRUE
  /\ UNCHANGED <<dashboard, picture, line, screen, stained, changes, commands>>

\* Tc2LiveUiDrain and its like: the terminal takes a chunk.  One that would
\* block changes nothing.
Drain ==
  /\ active /\ ~Idle(pump)
  /\ screen' = Apply(screen, Head(pump.active.chunks))
  /\ pump' = Sent(pump)
  /\ UNCHANGED <<dashboard, wanted, renderer, stained, bounds>>

\* It fails, and nobody knows whether it took the chunk.
DrainFails ==
  /\ active /\ ~Idle(pump) /\ failures < MaxFailures
  /\ failures' = failures + 1
  /\ screen' \in {screen, Apply(screen, Head(pump.active.chunks))}
  /\ pump' = Discarded(pump)
  /\ renderer' = [renderer EXCEPT !.initialized = FALSE]
  /\ status' \in Words /\ dirty' = TRUE
  /\ UNCHANGED <<dashboard, picture, line, stained, changes, commands>>

-----------------------------------------------------------------------------
\* Commands.

\* tc2_execute_live_dashboard_command: the queued frames are dropped, the
\* screen is cleared for what the command prints; a verbose command and uioff
\* leave the dashboard.
LiveCommand ==
  /\ active /\ live /\ commands < MaxCommands
  /\ commands' = commands + 1
  /\ pump' = NewPump
  /\ renderer' = [renderer EXCEPT !.initialized = FALSE]
  /\ screen' \in {Blanked, [p \in Places |-> Text]}
  /\ line' = ""
  /\ \/ UNCHANGED <<status, dirty>>
     \/ status' \in Words /\ dirty' = TRUE
  /\ \/ UNCHANGED <<active, live>>
     \/ active' = FALSE /\ live' \in BOOLEAN
  /\ UNCHANGED <<patient, shutdown, picture, stained, changes, failures>>

\* uioff of the simulator: one more frame, then text.
Stop ==
  /\ active /\ ~live /\ shutdown = "no" /\ commands < MaxCommands
  /\ commands' = commands + 1
  /\ shutdown' = "requested" /\ status' \in Words /\ dirty' = TRUE /\ line' = ""
  /\ UNCHANGED <<live, patient, active, picture, renderer, pump, screen, stained, changes, failures>>

Stopped ==
  /\ active /\ shutdown = "queued" /\ Idle(pump)
  /\ active' = FALSE /\ live' = FALSE /\ shutdown' = "no" /\ line' = ""
  /\ UNCHANGED <<patient, picture, status, dirty, renderer, pump, screen, stained, bounds>>

\* Text mode echoes what is typed, if only the command that ends it.  uion and
\* simgo switch the dashboard on as it was left; go starts the live one afresh
\* (Tc2LiveUiInitialize).
Resume ==
  /\ ~active /\ active' = TRUE
  /\ screen' = [p \in Places |-> Text]
  /\ status' \in Words /\ dirty' = TRUE
  /\ \/ stained' = renderer.initialized /\ UNCHANGED <<live, renderer, pump>>
     \/ /\ live' = TRUE /\ pump' = NewPump /\ stained' = FALSE
        /\ renderer' = [renderer EXCEPT !.initialized = FALSE]
  /\ UNCHANGED <<patient, shutdown, picture, line, bounds>>

Next ==
  \/ Change \/ Render \/ RenderFails \/ Drain \/ DrainFails
  \/ LiveCommand \/ Stop \/ Stopped \/ Resume

Spec == Init /\ [][Next]_vars

\* The task renders and drains in every turn, and the terminal accepts a
\* chunk again and again.
Fairness == WF_vars(Render) /\ SF_vars(Drain) /\ WF_vars(Stopped)

-----------------------------------------------------------------------------
\* What the screen will show once everything queued has been sent.
Arriving == ApplyAll(screen, pump.active.chunks \o pump.pending.chunks)

\* As long as nothing asks for a full redraw, what is queued leads from what
\* the terminal shows to the picture the renderer retained: no difference is
\* ever applied to another picture than the one it was taken from.  For a
\* caller that waits for an idle pump the status row arrives as well, unless it
\* is still marked as dirty.  Text that was printed under the simulator's
\* retained picture is excused (Resume).
QueueLeadsToPicture ==
  (active /\ renderer.initialized /\ ~pump.full_redraw_required /\ ~stained) =>
    /\ \A c \in Cells : Arriving[c] = renderer.previous[c]
    /\ patient /\ ~dirty => Arriving["status"] = status

\* The same without the excuse: whoever resumes the dashboard sees it.
ResumedDashboardIsDrawn ==
  (active /\ patient /\ renderer.initialized /\ Idle(pump) /\ ~pump.full_redraw_required) =>
    \A c \in Cells : screen[c] = renderer.previous[c]

\* After the last change and the last failure the screen of an active
\* dashboard shows the picture, the status and the command line: for good when
\* the caller waits, again and again when it keeps redrawing.
Settled ==
  /\ \A c \in Cells : screen[c] = picture[c]
  /\ screen["prompt"] = line
  /\ patient => screen["status"] = status
ScreenSettles ==
  /\ []<>(active /\ ~stained => Settled)
  /\ <>[](patient /\ active /\ ~stained => Settled)
=============================================================================
