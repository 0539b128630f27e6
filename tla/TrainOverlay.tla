----------------------------- MODULE TrainOverlay -----------------------------
(***************************************************************************)
(* What a dashboard knows of its trains (tc2_ui_overlay.c): a marker and a *)
(* colour for each, and the sensors that flash.  Like the C functions, the *)
(* operators take the overlay and give what becomes of it; an update that  *)
(* the overlay does not accept leaves it as it was, and the caller tells   *)
(* by Takes...  The source is the simulator, whose evidence is predicted.  *)
(***************************************************************************)
EXTENDS Integers, FiniteSets

CONSTANTS
  Trains,       \* their numbers
  Sensors,      \* directed sensors
  Slots,        \* TC2_UI_MAX_TRAINS = TC2_UI_COLOR_COUNT
  Reserved,     \* how many of the colours belong to named trains
  FixedColour,  \* the named trains' colours
  FlashTicks    \* TC2_UI_SENSOR_FLASH_TICKS

Colours == 0 .. Slots - 1

NoMark ==
  [active |-> FALSE, colour |-> -1, generation |-> 0, revision |-> 0, kind |-> "none",
   cell |-> -1, speed |-> 0]
NoFlash == [active |-> FALSE, train |-> -1, colour |-> -1, generation |-> 0, expires |-> 0]

NewOverlay ==
  [marks     |-> [t \in Trains |-> NoMark],
   flashes   |-> [s \in Sensors |-> NoFlash],
   sequence  |-> [s \in Sensors |-> 0],       \* survives the flash
   highWater |-> [t \in Trains |-> 0]]        \* survives the marker

Shown(ov) == {t \in Trains : ov.marks[t].active}

-----------------------------------------------------------------------------
(* Colours.                                                                *)

Taken(ov) == {ov.marks[t].colour : t \in Shown(ov)}
Free(ov)  == Colours \ Taken(ov)

Least(S) == CHOOSE n \in S : \A m \in S : n <= m

\* Trains without a colour of their own borrow one when the others are gone.
General(colours) ==
  IF \E c \in colours : c >= Reserved THEN Least({c \in colours : c >= Reserved}) ELSE Least(colours)

\* A train is recoloured together with its flashes.
Recoloured(ov, t, colour) ==
  [ov EXCEPT !.marks[t].colour = colour,
             !.flashes = [s \in Sensors |->
                IF @[s].active /\ @[s].train = t THEN [@[s] EXCEPT !.colour = colour] ELSE @[s]]]

\* Mutant: a named train takes its colour from whoever has it.
JustTaken(ov, t) == ov
\* A named train gets its colour back, and the borrower another one.
Vacated(ov, t) ==
  IF t \notin DOMAIN FixedColour \/ FixedColour[t] \in Free(ov) THEN ov
  ELSE Recoloured(ov, CHOOSE b \in Shown(ov) : ov.marks[b].colour = FixedColour[t], General(Free(ov)))

ColourFor(ov, t) == IF t \in DOMAIN FixedColour THEN FixedColour[t] ELSE General(Free(ov))

-----------------------------------------------------------------------------
(* Markers.                                                                *)

ClearFlashes(ov, t) ==
  [ov EXCEPT !.flashes = [s \in Sensors |-> IF @[s].active /\ @[s].train = t THEN NoFlash ELSE @[s]]]

TakesUpsert(ov, t, generation) ==
  /\ generation > (IF ov.marks[t].active THEN ov.marks[t].generation ELSE ov.highWater[t])
  /\ ov.marks[t].active \/ Cardinality(Shown(ov)) < Slots

UpsertAtStart(ov, t, cell, generation) ==
  LET room == IF ov.marks[t].active THEN ClearFlashes(ov, t) ELSE Vacated(ov, t)
  IN  [room EXCEPT !.highWater[t] = generation,
                   !.marks[t] = [active |-> TRUE, generation |-> generation, revision |-> 0,
                                 colour |-> IF ov.marks[t].active THEN @.colour ELSE ColourFor(room, t),
                                 kind |-> "start", cell |-> cell, speed |-> 0]]

\* An update must be of the trip that is shown, and newer than what is.
Current(ov, t, generation, revision) ==
  /\ ov.marks[t].active /\ ov.marks[t].generation = generation
  /\ revision > ov.marks[t].revision

Moved(ov, t, kind, cell, revision) ==
  [ov EXCEPT !.marks[t].kind = kind, !.marks[t].cell = cell, !.marks[t].revision = revision]

TakesSensor(ov, t, s, generation, revision, sequence) ==
  Current(ov, t, generation, revision) /\ sequence > ov.sequence[s]

UpdateAtSensor(ov, t, s, cell, revision, sequence, now) ==
  [Moved(ov, t, "sensor", cell, revision) EXCEPT
     !.sequence[s] = sequence,
     !.flashes[s] = [active |-> TRUE, train |-> t, colour |-> ov.marks[t].colour,
                     generation |-> ov.marks[t].generation, expires |-> now + FlashTicks]]

UpdateAtDestination(ov, t, cell, revision)  == Moved(ov, t, "destination", cell, revision)
UpdatePredictedCell(ov, t, cell, revision) == Moved(ov, t, "predicted", cell, revision)

SetSpeed(ov, t, speed) == [ov EXCEPT !.marks[t].speed = speed]

RemoveTrain(ov, t) == [ClearFlashes(ov, t) EXCEPT !.marks[t] = NoMark]

ExpireFlashes(ov, now) ==
  [ov EXCEPT !.flashes = [s \in Sensors |-> IF @[s].active /\ now >= @[s].expires THEN NoFlash ELSE @[s]]]
=============================================================================
