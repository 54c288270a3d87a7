----------------------------- MODULE RouteEditor -----------------------------
(***************************************************************************)
(* The waypoint editor (waypoint_drag_editor.py): one window, one thread   *)
(* of events, and the YAML file it shares with the task node.  Every       *)
(* handler of a mouse, keyboard or panel event is an action.               *)
(*                                                                         *)
(* Indices count from 1; 0 is None.  Drawing, zooming and the field        *)
(* reference are left out.  A point lies under the pointer when it is in   *)
(* the pointer's cell; a turn of the wheel or of R is a quarter turn.      *)
(***************************************************************************)
EXTENDS Route

CONSTANTS
  Documents,    \* the files an operator may have written
  ViaIds,       \* via_1, via_2, ... in order
  SegmentIds,   \* segment_1, segment_2, ... in order
  Cells,        \* where the pointer may be
  TypedIds,     \* names typed into the panel
  HistoryLimit, \* the history keeps this many entries (100 in the code)
  MaxEdits      \* bound: entries pushed on the history

(* What parses as a waypoint and as a segment; whether a route may be driven is
   for the loader to say. *)
IsSequence(s) == s \in Seq(ToSet(s))
IsWaypoint(w) ==
  /\ DOMAIN w = {"id", "task", "direction", "profile", "mode", "pos", "heading"}
  /\ w.mode \in {"none", "free", "locked"}
IsSegment(s) ==
  /\ DOMAIN s = {"id", "direction", "start_id", "through_ids", "end_id"}
  /\ IsSequence(s.through_ids)
IsRoute(wps, segs) ==
  /\ IsSequence(wps) /\ \A w \in ToSet(wps) : IsWaypoint(w)
  /\ IsSequence(segs) /\ \A s \in ToSet(segs) : IsSegment(s)

ASSUME EditorAssumption ==
  /\ HistoryLimit \in Nat \ {0} /\ MaxEdits \in Nat
  /\ \A doc \in Documents : IsRoute(doc.waypoints, doc.segments)

VARIABLES
  file,      \* the document on disk
  temp,      \* the temporary file of a save, or NoFile
  ui,        \* the editor's fields that do not hold the route
  waypoints, segments, history,
  shown,     \* the route in RViz: the last markers published
  edits      \* entries pushed so far

vars == <<file, temp, ui, waypoints, segments, history, shown, edits>>

None == 0
Nowhere == <<>>
NoFile == [calibrated |-> FALSE, waypoints |-> <<>>, segments |-> <<>>]

IdleUi ==
  [open |-> TRUE, valid |-> TRUE, selected |-> None, segment |-> 1, through |-> None,
   pick |-> "none", adding |-> FALSE, dragging |-> None, moved |-> FALSE,
   preview |-> Nowhere, panning |-> FALSE]

-----------------------------------------------------------------------------
(* What the handlers are made of. *)

Savable(wps, segs) == ValidSegments(segs, wps) /\ ValidWaypoints(Ordered(wps, segs))

(* _display_route: the order of the segments if they make a route, else the list as it is. *)
DisplayRoute(wps, segs) ==
  LET route == IF ValidSegments(segs, wps) THEN Ordered(wps, segs) ELSE wps
  IN [i \in DOMAIN route |-> <<route[i].id, route[i].pos>>]

Current == segments[ui.segment]
EndpointIds == {s.start_id : s \in ToSet(segments)} \cup {s.end_id : s \in ToSet(segments)}

(* Mistake: one entry fewer than the limit. *)
PushedShort(h) ==
  LET longer == Append(h, <<waypoints, segments>>)
  IN IF Len(longer) >= HistoryLimit THEN Tail(longer) ELSE longer

(* _push_history *)
Pushed(h) ==
  LET longer == Append(h, <<waypoints, segments>>)
  IN IF Len(longer) > HistoryLimit THEN Tail(longer) ELSE longer

Push == edits < MaxEdits /\ edits' = edits + 1 /\ history' = Pushed(history)

(* Mistake: the status stays as it was. *)
MarkChangedQuietly(newUi, wps, segs) ==
  /\ waypoints' = wps /\ segments' = segs
  /\ ui' = [newUi EXCEPT !.preview = Nowhere]

(* _mark_route_changed: the status is worked out again, the drag preview hidden. *)
MarkChanged(newUi, wps, segs) ==
  /\ waypoints' = wps /\ segments' = segs
  /\ ui' = [newUi EXCEPT !.valid = Savable(wps, segs), !.preview = Nowhere]

(* _publish_markers *)
Publish(wps, segs) == shown' = DisplayRoute(wps, segs)

(* A selection matters only while another edit may follow. *)
OnlyUi == edits < MaxEdits /\ UNCHANGED <<file, temp, waypoints, segments, history, shown, edits>>
NotSaving == temp = NoFile
Event == ui.open /\ NotSaving
Edit == Event /\ UNCHANGED <<file, temp>>

(* A click on the panel: its release has ended a drag or a pan before. *)
Click == ui.open /\ ui.dragging = None /\ ~ ui.panning

-----------------------------------------------------------------------------
(* The route panel. *)

SegmentSelected(k) ==
  /\ Event /\ OnlyUi
  /\ ui' = [ui EXCEPT !.segment = k, !.through = None, !.pick = "none", !.preview = Nowhere]

(* Turning a segment forward would also reset a reverse-only profile of its
   last point; no loaded document has one. *)
DirectionSelected(direction) ==
  /\ Edit /\ direction # Current.direction /\ Push
  /\ MarkChanged(ui, waypoints, [segments EXCEPT ![ui.segment].direction = direction])
  /\ UNCHANGED shown

SetPickTarget(target) == Event /\ OnlyUi /\ ui' = [ui EXCEPT !.pick = target]

SetEndpoint(target, id, newUi) ==
  /\ Push
  /\ MarkChanged([newUi EXCEPT !.pick = "none", !.through = None], waypoints,
       IF target = "start" THEN [segments EXCEPT ![ui.segment].start_id = id]
                           ELSE [segments EXCEPT ![ui.segment].end_id = id])
  /\ UNCHANGED shown

EndpointTyped(target, id) == Edit /\ SetEndpoint(target, id, ui)

EndpointYaw(target, heading) ==
  LET id == IF target = "start" THEN Current.start_id ELSE Current.end_id
  IN \E i \in 2 .. Len(waypoints) :
       /\ Edit /\ waypoints[i].id = id /\ HeadingLocked(waypoints[i]) /\ Push
       /\ MarkChanged([ui EXCEPT !.selected = i],
                      [waypoints EXCEPT ![i].heading = heading], segments)
       /\ Publish(waypoints', segments')

BeginAddThrough ==
  /\ Event /\ OnlyUi
  /\ ui' = [ui EXCEPT !.adding = ~ @, !.pick = IF ui.adding THEN @ ELSE "none"]

ThroughSelected(j) == Event /\ OnlyUi /\ ui' = [ui EXCEPT !.through = j]

FirstUnused(names, used) == names[Min({i \in DOMAIN names : names[i] \notin used})]

(* Before the last point.  With no point left the handler fails after its push. *)
CreateThroughAt(pos) ==
  LET id == FirstUnused(ViaIds, IdsOf(waypoints))
      point == [id |-> id, task |-> "via", direction |-> Current.direction,
                profile |-> "standard", mode |-> "none", pos |-> pos, heading |-> Open]
      place == IF ui.through = None THEN Len(Current.through_ids) + 1 ELSE ui.through + 1
  IN /\ Push
     /\ IF waypoints = <<>>
        THEN UNCHANGED <<ui, waypoints, segments, shown>>
        ELSE /\ MarkChanged([ui EXCEPT !.selected = Len(waypoints), !.through = place,
                                       !.adding = FALSE],
                  InsertAt(waypoints, Len(waypoints), point),
                  [segments EXCEPT ![ui.segment].through_ids = InsertAt(@, place, id)])
             /\ Publish(waypoints', segments')

Without(ids, id) ==
  LET kept[i \in 0 .. Len(ids)] ==
        IF i = 0 THEN <<>>
        ELSE IF ids[i] = id THEN kept[i-1] ELSE Append(kept[i-1], ids[i])
  IN kept[Len(ids)]

AddSelectedThrough ==
  LET id == waypoints[ui.selected].id
      cleared == [k \in DOMAIN segments |-> [segments[k] EXCEPT !.through_ids = Without(@, id)]]
  IN /\ Edit /\ ui.selected # None /\ id \notin EndpointIds /\ Push
     /\ MarkChanged([ui EXCEPT !.through = Len(cleared[ui.segment].through_ids) + 1], waypoints,
          [cleared EXCEPT ![ui.segment].through_ids = Append(@, id)])
     /\ UNCHANGED shown

HasThrough == ui.through \in DOMAIN Current.through_ids

RemoveSelectedThrough ==
  LET id == Current.through_ids[ui.through]
      at == {i \in DOMAIN waypoints : waypoints[i].id = id}
      selected == IF at = {} \/ ui.selected < Min(at) THEN ui.selected
                  ELSE IF ui.selected = Min(at) THEN None ELSE ui.selected - 1
  IN /\ Edit /\ HasThrough /\ id \notin EndpointIds /\ Push
     /\ MarkChanged([ui EXCEPT !.selected = selected, !.through = None],
          IF at = {} THEN waypoints ELSE RemoveAt(waypoints, Min(at)),
          [k \in DOMAIN segments |-> [segments[k] EXCEPT !.through_ids = Without(@, id)]])
     /\ Publish(waypoints', segments')

MoveSelectedThrough(offset) ==
  LET to == ui.through + offset
  IN /\ Edit /\ HasThrough /\ to \in DOMAIN Current.through_ids /\ Push
     /\ MarkChanged([ui EXCEPT !.through = to], waypoints,
          [segments EXCEPT ![ui.segment].through_ids =
             [@ EXCEPT ![ui.through] = Current.through_ids[to], ![to] = Current.through_ids[ui.through]]])
     /\ UNCHANGED shown

SplitSegment ==
  LET ids == Current.through_ids
  IN \E j \in DOMAIN ids :
       /\ Edit /\ ui.selected # None /\ waypoints[ui.selected].id = ids[j]
       /\ j = Min({k \in DOMAIN ids : ids[k] = ids[j]}) /\ Push
       /\ MarkChanged([ui EXCEPT !.segment = @ + 1, !.through = None], waypoints,
            ReplaceAt(InsertAt(segments, ui.segment + 1,
                        [Current EXCEPT !.id = FirstUnused(SegmentIds, {s.id : s \in ToSet(segments)}),
                                        !.start_id = ids[j],
                                        !.through_ids = SubSeq(ids, j + 1, Len(ids))]),
                      ui.segment,
                      [Current EXCEPT !.end_id = ids[j], !.through_ids = SubSeq(ids, 1, j - 1)]))
       /\ UNCHANGED shown

(* The segment is merged into the one before it, or else into the one after. *)
DeleteSegment ==
  LET k == ui.segment
      merges(i) == i \in DOMAIN segments /\ segments[i].direction = Current.direction
      before == [segments[k-1] EXCEPT !.end_id = Current.end_id,
                   !.through_ids = @ \o <<segments[k-1].end_id>> \o Current.through_ids]
      after == [segments[k+1] EXCEPT !.start_id = Current.start_id,
                  !.through_ids = Current.through_ids \o <<Current.end_id>> \o @]
  IN /\ Edit /\ Len(segments) > 1 /\ (merges(k-1) \/ merges(k+1)) /\ Push
     /\ MarkChanged([ui EXCEPT !.segment = IF merges(k-1) THEN k - 1 ELSE k, !.through = None],
          waypoints,
          RemoveAt(IF merges(k-1) THEN ReplaceAt(segments, k - 1, before)
                                  ELSE ReplaceAt(segments, k + 1, after), k))
     /\ UNCHANGED shown

-----------------------------------------------------------------------------
(* The pointer. *)

(* _find_waypoint: the last of the points under the pointer. *)
Under(pos) ==
  LET here == {i \in DOMAIN waypoints : waypoints[i].pos = pos}
  IN IF here = {} THEN None ELSE Max(here)

(* With nothing dragged, a pan moves only the view. *)
RightPress == Event /\ OnlyUi /\ ui.dragging # None /\ ui' = [ui EXCEPT !.panning = TRUE]

PressToAdd(pos) == ui.adding /\ Edit /\ Under(pos) = None /\ CreateThroughAt(pos)

PressToPick(pos) ==
  /\ ~ ui.adding /\ ui.pick # "none" /\ Under(pos) # None /\ Edit
  /\ SetEndpoint(ui.pick, waypoints[Under(pos)].id, [ui EXCEPT !.selected = Under(pos)])

PressToSelect(pos) ==
  LET i == Under(pos)
  IN /\ Event /\ ~ ui.adding /\ (i = None \/ ui.pick = "none") /\ OnlyUi
     /\ ui' = IF i = 1 THEN [ui EXCEPT !.selected = i]
              ELSE [ui EXCEPT !.selected = i, !.dragging = i, !.moved = FALSE]

Motion(pos) ==
  /\ Edit /\ ~ ui.panning /\ ui.dragging # None
  /\ \/ ui.moved /\ UNCHANGED <<history, edits>>
     \/ ~ ui.moved /\ waypoints[ui.dragging].pos # pos /\ Push
  /\ ui' = [ui EXCEPT !.moved = TRUE, !.preview = pos]
  /\ UNCHANGED <<waypoints, segments, shown>>

Release ==
  LET i == ui.dragging
      ended == [ui EXCEPT !.dragging = None, !.moved = FALSE]
  IN /\ Edit /\ UNCHANGED <<history, edits>>
     /\ IF ui.panning \/ i = None \/ ~ ui.moved \/ ui.preview = Nowhere
        THEN /\ ui' = IF ui.panning THEN [ui EXCEPT !.panning = FALSE]
                                    ELSE [ended EXCEPT !.preview = Nowhere]
             /\ UNCHANGED <<waypoints, segments, shown>>
        ELSE /\ MarkChanged(ended,
                  [waypoints EXCEPT ![i].pos = ui.preview,
                                    ![i].heading = IF HeadingLocked(waypoints[i]) THEN @ ELSE Open],
                  segments)
             /\ Publish(waypoints', segments')

QuarterTurn(heading, left) ==
  IF left THEN <<-heading[2], heading[1]>> ELSE <<heading[2], -heading[1]>>

Rotate(i, left, newUi) ==
  /\ i \notin {None, 1} /\ HeadingLocked(waypoints[i]) /\ Push
  /\ MarkChanged(newUi, [waypoints EXCEPT ![i].heading = QuarterTurn(@, left)], segments)
  /\ Publish(waypoints', segments')

Scroll(pos, left) ==
  LET i == Under(pos)
      chosen == [ui EXCEPT !.selected = i]
  IN \/ Edit /\ Rotate(i, left, chosen)
     \/ Event /\ i \notin {None, 1} /\ ~ HeadingLocked(waypoints[i]) /\ OnlyUi /\ ui' = chosen

-----------------------------------------------------------------------------
(* The keyboard, and saving. *)

KeyR(left) == Edit /\ Rotate(ui.selected, left, ui)

KeyEscape ==
  /\ Event /\ OnlyUi
  /\ ui' = IF ui.adding THEN [ui EXCEPT !.adding = FALSE] ELSE [ui EXCEPT !.selected = None]

Undo ==
  /\ Edit /\ history # <<>>
  /\ history' = Front(history) /\ UNCHANGED edits
  /\ MarkChanged([ui EXCEPT !.selected = None, !.dragging = None, !.through = None,
                            !.segment = Min({@, Len(Last(history)[2])})],
                 Last(history)[1], Last(history)[2])
  /\ Publish(waypoints', segments')

(* What a save writes: the route in order, headings only where they are authored. *)
Written ==
  LET route == Ordered(waypoints, segments)
  IN [calibrated |-> FALSE, segments |-> segments,
      waypoints |-> [i \in DOMAIN route |->
         IF HeadingLocked(route[i]) THEN route[i] ELSE [route[i] EXCEPT !.heading = Open]]]

(* Mistake: the file itself is opened for writing. *)
SaveWritesInPlace(doc) == temp' = doc /\ file' = [doc EXCEPT !.segments = <<>>]

SaveWrites(doc) == temp' = doc /\ UNCHANGED file

(* write_waypoints_atomic, up to the temporary file. *)
SaveBegins ==
  /\ Event /\ Savable(waypoints, segments) /\ SaveWrites(Written)
  /\ UNCHANGED <<ui, waypoints, segments, history, shown, edits>>

(* An OSError: the temporary file is unlinked, the editor goes on. *)
SaveFails ==
  /\ temp # NoFile /\ temp' = NoFile
  /\ UNCHANGED <<file, ui, waypoints, segments, history, shown, edits>>

(* os.replace, and the document read back. *)
SaveEnds ==
  /\ temp # NoFile /\ file' = temp /\ temp' = NoFile
  /\ waypoints' = file'.waypoints /\ segments' = file'.segments /\ history' = <<>>
  /\ ui' = [ui EXCEPT !.selected = None, !.dragging = None, !.through = None, !.preview = Nowhere]
  /\ Publish(waypoints', segments') /\ UNCHANGED edits

-----------------------------------------------------------------------------
(* The process: it opens a document that loads, and may die at any moment. *)

OpenEditor ==
  /\ ~ ui.open /\ Loads(file)
  /\ MarkChanged(IdleUi, file.waypoints, file.segments)
  /\ history' = <<>> /\ Publish(waypoints', segments')
  /\ UNCHANGED <<file, temp, edits>>

(* A temporary file that a crash leaves behind is never read. *)
Crash ==
  /\ ui.open /\ ui' = [IdleUi EXCEPT !.open = FALSE]
  /\ waypoints' = <<>> /\ segments' = <<>> /\ history' = <<>> /\ shown' = <<>>
  /\ temp' = NoFile /\ UNCHANGED <<file, edits>>

Init ==
  /\ file \in Documents /\ temp = NoFile /\ ui = [IdleUi EXCEPT !.open = FALSE]
  /\ waypoints = <<>> /\ segments = <<>> /\ history = <<>> /\ shown = <<>> /\ edits = 0

PanelClick ==
  \/ \E k \in DOMAIN segments : SegmentSelected(k)
  \/ \E d \in {"forward", "reverse"} : DirectionSelected(d)
  \/ \E t \in {"start", "end"} : SetPickTarget(t)
  \/ BeginAddThrough
  \/ \E j \in DOMAIN Current.through_ids : ThroughSelected(j)
  \/ AddSelectedThrough \/ RemoveSelectedThrough
  \/ \E offset \in {-1, 1} : MoveSelectedThrough(offset)
  \/ SplitSegment \/ DeleteSegment

TextSubmitted ==
  \E t \in {"start", "end"} :
       \/ \E id \in TypedIds : EndpointTyped(t, id)
       \/ EndpointYaw(t, <<0, 1>>)

PointerEvent ==
  \/ RightPress \/ Release
  \/ \E pos \in Cells :
       \/ PressToAdd(pos) \/ PressToPick(pos) \/ PressToSelect(pos) \/ Motion(pos)
       \/ \E left \in BOOLEAN : Scroll(pos, left)

KeyEvent == KeyEscape \/ Undo \/ SaveBegins \/ \E left \in BOOLEAN : KeyR(left)

Next ==
  \/ OpenEditor \/ Crash \/ SaveFails \/ SaveEnds
  \/ Click /\ PanelClick
  \/ ui.open /\ (TextSubmitted \/ PointerEvent \/ KeyEvent)

Spec == Init /\ [][Next]_vars

-----------------------------------------------------------------------------
(* Properties. *)

(* The line that says whether the route may be saved tells the truth after
   every event, an undo or an abandoned drag included (_mark_route_changed). *)
StatusIsTrue == ui.open => (ui.valid <=> Savable(waypoints, segments))

(* No edit escapes the history: up to its limit, undoing everything leads back
   to the document on disk (_push_history before each change, the drag's at
   its first motion; _undo; _save clears it). *)
EditsAreUndoable ==
  ui.open /\ edits <= HistoryLimit =>
    (IF history = <<>> THEN <<waypoints, segments>> ELSE history[1])
      = <<file.waypoints, file.segments>>

(* The file on disk only ever changes to a whole document that loads again,
   marked as not calibrated, and that drives the points, in the order and with
   the authored headings, of the route in the editor when save was pressed. *)
SaveWritesTheRoute ==
  [][file' # file =>
       /\ Loads(file') /\ ~ file'.calibrated
       /\ DisplayRoute(file'.waypoints, file'.segments) = DisplayRoute(waypoints, segments)
       /\ \A w \in ToSet(waypoints) : HeadingLocked(w) =>
            Named(file'.waypoints, w.id).heading = w.heading]_vars

Modes ==
  [direction : {"counterclockwise", "clockwise"}, end_segment : {"", "p_to_qr", "qr_to_vlm"},
   competition : BOOLEAN, prefixes : {{}, {"p_to_qr"}, {"qr_to_vlm"}}, full : BOOLEAN]

Navigated(doc, mode) ==
  NavigationSegments(Variant(doc.waypoints, mode.direction), doc.segments,
                     CHOOSE k \in PrefixLengths(doc.segments, mode.end_segment) : TRUE)

Clockwise(doc) ==
  NavigationSegments(Variant(doc.waypoints, "clockwise"), doc.segments, Len(doc.segments))

DrivenBeforeQr(doc) == IdsOf(Goals(doc.waypoints, doc.segments[1]))

(* Of a document the task node loads, in whatever mode, the mission refuses no
   segment, Nav2's goals can be built with a unit heading each, and in the
   competition no QR code makes the mission refuse the chosen variant at the
   QR point -- provided no C-zone name is driven before it. *)
LoadedRouteDrives(doc) ==
  \A mode \in Modes : TaskNodeLoads(doc, mode) =>
    LET navigation == Navigated(doc, mode)
    IN /\ \A goals \in ToSet(navigation) : MissionTakesSegment(goals) /\ GoalBuilds(goals)
       /\ mode.competition =>
            /\ MissionTakesVariants(navigation, Clockwise(doc))
            /\ \A goals \in ToSet(Clockwise(doc)) : GoalBuilds(goals)
            /\ DrivenBeforeQr(doc) \cap CZoneIds = {} =>
                 \A parity \in {"odd", "even"} :
                   LET chosen == IF DirectionForQr(parity) = "clockwise" THEN Clockwise(doc)
                                                                         ELSE navigation
                   IN MissionKeepsCompleted(navigation, chosen, 1)

Plain == [direction |-> "counterclockwise", end_segment |-> "",
          competition |-> FALSE, prefixes |-> {}, full |-> FALSE]

(* The editor checks neither the C zone nor which profiles may share a segment:
   only for one of these does the task node refuse a route the editor takes. *)
TakenRouteLoads(doc) ==
  /\ Loads(doc) /\ Savable(doc.waypoints, doc.segments) /\ HasCZone(doc.waypoints)
  /\ \A s \in ToSet(doc.segments) : Combinable(Goals(doc.waypoints, s))
  => TaskNodeLoads(doc, Plain)

(* Whatever a closed editor leaves on disk, by a save or a crash: three layers,
   the editor, the task node's loader and the mission with its goal factory,
   agree on it. *)
DiskRouteDrives == ~ ui.open => LoadedRouteDrives(file) /\ TakenRouteLoads(file)

-----------------------------------------------------------------------------
(* What makes the properties inductive, part by part. *)

EditorTyped ==
  /\ DOMAIN ui = DOMAIN IdleUi /\ ui.open \in BOOLEAN /\ edits \in Nat
  /\ IsRoute(file.waypoints, file.segments)
  /\ IsSequence(history)
  /\ \A h \in ToSet(history) : h = <<h[1], h[2]>> /\ IsRoute(h[1], h[2]) /\ h[2] # <<>>
  /\ ui.open => IsRoute(waypoints, segments) /\ segments # <<>>

(* What is selected, and what is dragged, is still there. *)
IndicesFollow ==
  ui.open =>
    /\ ui.segment \in DOMAIN segments
    /\ ui.selected \in {None} \cup DOMAIN waypoints
    /\ ui.dragging \in {None} \cup DOMAIN waypoints
    /\ ui.through \in {None} \cup DOMAIN Current.through_ids

(* A drag that has moved left an entry in the history. *)
HistoryFollows ==
  /\ Len(history) <= edits
  /\ ui.open /\ ui.dragging # None /\ ui.moved => history # <<>>

(* While a save goes on, what it writes is the route as it stands. *)
SaveFollows ==
  temp # NoFile => /\ ui.open /\ ui.valid /\ Savable(waypoints, segments)
                   /\ temp = Written

(* All of the above, the inductive invariant of the editor. *)
EditorInvariant ==
  /\ EditorTyped /\ IndicesFollow /\ HistoryFollows /\ SaveFollows
  /\ StatusIsTrue /\ EditsAreUndoable
=============================================================================
