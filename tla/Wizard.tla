------------------------------- MODULE Wizard -------------------------------
(***************************************************************************)
(* `tmctl create transformation --wizard': the goroutine of the user          *)
(* interface runs the handlers of one key after another, ProcessKeystrokes    *)
(* takes their signals from an unbuffered channel and opens popups itself,    *)
(* and the main goroutine waits for a name to save under.  The three share    *)
(* the views of the terminal without a lock.                                  *)
(***************************************************************************)
EXTENDS Transforms

CONSTANTS
    Manifest,    \* objects, see Transforms
    Registry,    \* samples of the event types that the schema registry knows
    Operations,  \* the operations of the popup that the user takes
    Values,      \* values the user enters, the empty one <<>> among them
    Eaten,       \* names made of the letters of "key: " only
    Junk,        \* the transformation view after an edit that is not YAML
    Edits,       \* transformations that the user writes there by hand
    Height,      \* how many lines of a view are visible; no line wraps
    MaxNesting,  \* levels of a sample that the processor has room for: 10
    Bounded      \* whether the bounds of Press are in force

SourceLines == Lines(Components(Manifest, "source"))
TargetLines == Lines(Components(Manifest, "target"))
Samples     == Cache(Components(Manifest, "source"), Registry)
Known       == Transformations(Manifest)

Popups == {"transformationName", "transformationOperation", "operationValue", "targetWarning"}
Views  == Popups \cup {"sources", "targets", "sourceEvent", "transformation"}
Lists  == {"sources", "targets", "sourceEvent"}
Keys   == {"Ctrl-C", "Ctrl-F", "Ctrl-T", "Ctrl-E", "Ctrl-S", "Ctrl-W", "Ctrl-R",
           "up", "down", "left", "right", "enter"}

ASSUME NestingAssumption  == MaxNesting \in Nat \ {0}
ASSUME HeightAssumption == Height \in [Lists -> Nat \ {0}]
ASSUME EditsAssumption == Edits \subseteq Seq(GroupType)
ASSUME OperationsAssumption == Operations \subseteq Ops
ASSUME RegistryAssumption == \A t \in DOMAIN Registry : IsSample(Registry[t])
ASSUME ManifestAssumption ==
    /\ Manifest \in Seq([role : STRING, name : STRING, types : SUBSET (STRING \ {""}),
                         contexts : SUBSET Seq(STRING), data : Seq(GroupType)])
    /\ \A i \in DOMAIN Manifest : IsFiniteSet(Manifest[i].types)

VARIABLES
    phase,     \* "run", or how the command ended: "quit", "error", "panic", "saved"
    popups,    \* popups that exist
    binds,     \* how many times the keys of each popup are bound
    current,   \* the current view
    at,        \* cursors of sources, targets and sourceEvent: the line they are at
    top,       \* how many lines of each are scrolled off above
    text,      \* the transformation view
    todo,      \* calls of handlers that the key pressed last still has to make
    sending,   \* the signal that a handler waits to hand over, to the processor or to main
    proc,      \* the processor: what it is doing, and the operation it works on
    nesting,   \* where in the sample it takes the cursor to be
    source,    \* the source it was last told of
    target,    \* the target it was last told of
    main,      \* the main goroutine: the name it has received, if any
    saved,     \* what Create returned
    history    \* what the user did before that matters to the properties

ui   == <<popups, binds, current, at, top>>
vars == <<phase, ui, text, todo, sending, proc, nesting, source, target, main, saved, history>>

SampleLines == IF source \in DOMAIN Samples /\ Samples[source] # NoSample
               THEN Append(Samples[source], Blank) ELSE <<Blank>>
HasSample == Head(SampleLines) \in {Open, Empty}

Signal(view, line) == [origin |-> view, line |-> line, isHotKey |-> FALSE]
Idle == [pc |-> "idle", signal |-> Signal("", ""), path |-> <<>>, value |-> <<>>]

Init ==
    /\ phase = "run"
    /\ popups = {} /\ binds = [p \in Popups |-> 0]
    /\ current = "sources"
    /\ at = [v \in Lists |-> 1] /\ top = [v \in Lists |-> 0]
    /\ text = <<>>
    /\ todo = <<>> /\ sending = <<>>
    /\ proc = Idle
    /\ nesting = [d \in 1 .. MaxNesting |-> ""] /\ source = "" /\ target = ""
    /\ main = <<>>
    /\ saved = [name |-> "", source |-> "", target |-> "", type |-> "", spec |-> <<>>]
    /\ history = {}
-----------------------------------------------------------------------------
(* The key bindings, in the order they are made: gocui runs all that match     *)
(* the key and the view, and has taken both before it runs the first.        *)
GlobalKey(k) ==
    CASE k = "Ctrl-C" -> "closeWindow"
      [] k = "Ctrl-F" -> "switchToSources"
      [] k = "Ctrl-T" -> "switchToTargets"
      [] k = "Ctrl-E" -> "switchToTransformation"
      [] k = "Ctrl-S" -> "popTransformationNameView"
      [] OTHER -> ""

ViewKey(v, k) ==
    CASE v = "sources" /\ k = "up"           -> "cursorUp"
      [] v = "sources" /\ k = "down"         -> "cursorDown"
      [] v = "sources" /\ k = "right"        -> "sourceCursorRight"
      [] v = "sourceEvent" /\ k = "Ctrl-W"   -> "wipeData"
      [] v = "sourceEvent" /\ k = "Ctrl-R"   -> "resetTransformation"
      [] v = "sourceEvent" /\ k = "left"     -> "sourceEventCursorLeft"
      [] v = "sourceEvent" /\ k = "up"       -> "cursorUpEventSample"
      [] v = "sourceEvent" /\ k = "down"     -> "cursorDownEventSample"
      [] v = "sourceEvent" /\ k = "enter"    -> "popOperationsView"
      [] v = "targets" /\ k = "up"           -> "cursorUp"
      [] v = "targets" /\ k = "down"         -> "cursorDown"
      [] OTHER -> ""

PopupKey(v, k) ==
    CASE v = "transformationOperation" /\ k = "enter" -> "selectOperation"
      [] v = "transformationName" /\ k = "enter"      -> "saveAndExit"
      [] v = "operationValue" /\ k = "enter"          -> "inputEnter"
      [] v = "operationValue" /\ k = "Ctrl-C"         -> "inputClose"
      [] v = "targetWarning" /\ k = "enter"           -> "closeWindow"
      [] OTHER -> ""

Times(h, n) == IF h = "" THEN <<>> ELSE [i \in 1 .. n |-> h]

Bound(k, v) ==
    Times(GlobalKey(k), 1) \o Times(ViewKey(v, k), 1)
        \o Times(PopupKey(v, k), IF v \in Popups THEN binds[v] ELSE 0)

Busy == proc.pc \notin {"idle", "input"} \/ main # <<>>

(* As a bound, the user adds an operation to a transformation that is empty,      *)
(* shown as the manifest has it or written by hand.                          *)
Fresh == text \in {<<>>} \cup Edits \/ (\E l \in DOMAIN Known : text = Known[l].spec)

(* What takes the wizard off its path: leaving a popup by a global key, and a    *)
(* key typed before the processor has finished with the last one.             *)
Slips(k) == (IF current \in Popups /\ GlobalKey(k) \notin {"", "closeWindow"} THEN {"left"} ELSE {})
            \cup (IF Busy THEN {"hasty"} ELSE {})

(* The user presses a key.  As a bound, one slip happens, and a hasty key is the   *)
(* last.                                                                     *)
Press(k) ==
    /\ phase = "run" /\ todo = <<>> /\ sending = <<>>
    /\ Bound(k, current) # <<>>
    /\ Bounded /\ ((k = "enter" /\ current = "transformationOperation") \/ k = "Ctrl-W")
           => Fresh
    /\ Bounded => "hasty" \notin history /\ (Slips(k) = {} \/ "left" \notin history)
    /\ todo' = [i \in DOMAIN Bound(k, current) |-> [do |-> Bound(k, current)[i], view |-> current]]
    /\ history' = history \cup Slips(k)
    /\ UNCHANGED <<phase, ui, text, sending, proc, nesting, source, target, main, saved>>

(* Keys that are not bound go to the view if it can be edited.                *)
Edit ==
    /\ phase = "run" /\ todo = <<>> /\ sending = <<>>
    /\ current = "transformation"
    /\ text' \in {Junk, <<>>} \cup Edits
    /\ UNCHANGED <<phase, ui, todo, sending, proc, nesting, source, target, main, saved, history>>
-----------------------------------------------------------------------------
Do(h) == phase = "run" /\ todo # <<>> /\ Head(todo).do = h /\ sending = <<>>
V     == Head(todo).view
Done  == todo' = Tail(todo)

(* An error of a handler ends gocui's main loop, and Create returns it.       *)
End(how) == phase' = how /\ todo' = <<>> /\ UNCHANGED <<ui, text, sending, history>>

(* Mutant: the view is deleted and its keys stay bound.                       *)
DeleteKeepsKeys(p, next) ==
    /\ popups' = popups \ {p} /\ UNCHANGED binds
    /\ current' = next

Delete(p, next) ==
    /\ popups' = popups \ {p} /\ binds' = [binds EXCEPT ![p] = 0]
    /\ current' = next

Rest == UNCHANGED <<proc, nesting, source, target, main, saved>>

(* `closeWindow': the view that gets the focus has to exist.                  *)
Under(v) ==
    CASE v \in {"transformationName", "transformationOperation"} -> "sourceEvent"
      [] v = "operationValue" -> "transformationOperation"
      [] v = "targetWarning" -> "targets"
      [] OTHER -> ""

CloseWindow ==
    LET next == Under(V)
    IN /\ Do("closeWindow")
       /\ \/ next = "" /\ End("quit")
          \/ next # "" /\ (next \in Popups \ popups \/ V \notin popups) /\ End("error")
          \/ /\ next # "" /\ ~(next \in Popups \ popups \/ V \notin popups)
             /\ Delete(V, next) /\ Done /\ UNCHANGED <<phase, at, top, text, sending>>
             /\ history' = IF V = "transformationName" THEN history \cup {"strayed"} ELSE history
       /\ Rest

(* `sendSignal': the line under the cursor of the current view, which has to    *)
(* exist.  In the popup of operations the user has moved to any of them.      *)
LinesOf(view) ==
    IF view = "sources" THEN SourceLines ELSE IF view = "targets" THEN TargetLines ELSE SampleLines

Visible(view, line) == line - top[view] \in 1 .. Height[view]

(* A list or a sample is scrolled when the cursor would leave the visible part.   *)
MoveCursors(where) ==
    /\ at' = where
    /\ top' = [v \in Lists |-> IF where[v] <= top[v] THEN where[v] - 1
                              ELSE IF where[v] > top[v] + Height[v] THEN where[v] - Height[v]
                              ELSE top[v]]

SendSignal(view, where) ==
    LET lines == LinesOf(view)
    IN IF view \notin Lists
       THEN /\ \E op \in Operations : sending' = <<Signal(view, op)>>
            /\ Done /\ UNCHANGED <<phase, popups, binds, text>> /\ current' = view /\ MoveCursors(where)
       ELSE IF where[view] \in DOMAIN lines
       THEN /\ sending' = <<Signal(view, lines[where[view]])>>
            /\ Done /\ UNCHANGED <<phase, popups, binds, text>> /\ current' = view /\ MoveCursors(where)
       ELSE phase' = "error" /\ todo' = <<>> /\ UNCHANGED <<ui, text, sending>>

SelectOperation ==
    /\ Do("selectOperation")
    /\ SendSignal(current, at)
    /\ UNCHANGED history /\ Rest

(* `switchToSources', `switchToTargets': nothing happens in the view itself.   *)
SwitchTo(h, view) ==
    /\ Do(h)
    /\ IF V = view THEN Done /\ UNCHANGED <<phase, ui, text, sending>>
       ELSE SendSignal(view, at)
    /\ UNCHANGED history /\ Rest

SwitchToTransformation ==
    /\ Do("switchToTransformation") /\ Done
    /\ current' = "transformation"
    /\ UNCHANGED <<phase, popups, binds, at, top, text, sending, history>> /\ Rest

SourceCursorRight ==
    /\ Do("sourceCursorRight")
    /\ IF HasSample
       THEN /\ SendSignal("sourceEvent", at)
            /\ history' = IF at["sourceEvent"] # 1 \/ nesting # [d \in 1 .. MaxNesting |-> ""]
                          THEN history \cup {"strayed"} ELSE history
       ELSE Done /\ UNCHANGED <<phase, ui, text, sending, history>>
    /\ Rest

(* Mutant: lines counted from zero.                                           *)
SourceEventCursorLeftZero ==
    /\ Do("sourceEventCursorLeft")
    /\ SendSignal("sources", [at EXCEPT !["sourceEvent"] = top["sourceEvent"]])
    /\ UNCHANGED history /\ Rest

(* The sample is left at its first visible line; the processor is not told so.   *)
SourceEventCursorLeft ==
    /\ Do("sourceEventCursorLeft")
    /\ SendSignal("sources", [at EXCEPT !["sourceEvent"] = top["sourceEvent"] + 1])
    /\ UNCHANGED history /\ Rest

(* The next line in the direction of `step' where the cursor may rest.           *)
MoveTo(rests, from, step) ==
    LET stops == {i \in rests : IF step > 0 THEN i > from ELSE i < from}
    IN IF stops = {} THEN from ELSE IF step > 0 THEN Min(stops) ELSE Max(stops)

(* The lists have headers, where it does not rest.                             *)
Entries(lines) == {i \in DOMAIN lines : lines[i].kind # "header"}

(* Mutant: the cursor moves and the processor is not told.                    *)
CursorListSilent(h, step) ==
    /\ Do(h) /\ Done
    /\ MoveCursors([at EXCEPT ![V] = MoveTo(Entries(LinesOf(V)), @, step)])
    /\ UNCHANGED <<phase, popups, binds, current, text, sending, history>> /\ Rest

(* A header is passed by setting the cursor to it, which is an error outside of   *)
(* the visible part.                                                         *)
HiddenHeader(view, line) ==
    /\ line \in DOMAIN LinesOf(view) /\ LinesOf(view)[line].kind = "header"
    /\ ~Visible(view, line)

CursorList(h, step) ==
    LET there == MoveTo(Entries(LinesOf(V)), at[V], step)
    IN /\ Do(h)
       /\ IF there = at[V] THEN Done /\ UNCHANGED <<phase, ui, text, sending, history>>
          ELSE IF HiddenHeader(V, at[V] + step) THEN End("error")
          ELSE SendSignal(current, [at EXCEPT ![V] = there]) /\ UNCHANGED history
       /\ Rest

(* In the sample it passes closing brackets, and rests on one without a signal   *)
(* when only the end of the sample follows.                                   *)
CursorEventSample(h, step) ==
    LET here  == at["sourceEvent"]
        inner == [i \in 1 .. Len(SampleLines) - 2 |-> SampleLines[i]]
        there == MoveTo({i \in DOMAIN inner : inner[i].key \notin Closers}, here, step)
    IN /\ Do(h)
       /\ IF here + step \notin DOMAIN inner
          THEN Done /\ UNCHANGED <<phase, ui, text, sending>>
          ELSE IF there = here
          THEN /\ MoveCursors([at EXCEPT !["sourceEvent"] = Len(inner)])
               /\ Done /\ UNCHANGED <<phase, popups, binds, current, text, sending>>
          ELSE SendSignal(current, [at EXCEPT !["sourceEvent"] = there])
       /\ history' = IF step < 0 THEN history \cup {"strayed"} ELSE history
       /\ Rest

WipeData ==
    /\ Do("wipeData") /\ Done
    /\ sending' = <<[origin |-> "transformationOperation", line |-> "delete", isHotKey |-> TRUE]>>
    /\ UNCHANGED <<phase, ui, text, history>> /\ Rest

ResetTransformation ==
    /\ Do("resetTransformation") /\ Done
    /\ text' = <<>>
    /\ UNCHANGED <<phase, ui, sending, history>> /\ Rest

(* `popOperationsView', `popTransformationNameView': a popup that exists is      *)
(* used again, and its keys are bound once more.                              *)
Pop(h, p) ==
    /\ Do(h) /\ Done
    /\ popups' = popups \cup {p} /\ binds' = [binds EXCEPT ![p] = @ + 1] /\ current' = p
    /\ UNCHANGED <<phase, at, top, text, sending, history>> /\ Rest

(* `saveAndExit' waits for main, and then deletes the popup.                    *)
SaveAndExit ==
    /\ Do("saveAndExit")
    /\ sending' = <<Signal("createAndExit", "name")>>
    /\ todo' = <<[do |-> "closeName", view |-> V]>> \o Tail(todo)
    /\ UNCHANGED <<phase, ui, text, history>> /\ Rest

CloseName ==
    /\ Do("closeName")
    /\ IF V \in popups THEN Delete(V, current) /\ Done /\ UNCHANGED <<phase, at, top, text, sending, history>>
       ELSE End("error")
    /\ Rest

(* Enter in the popup for a value: the line that shows the key is an input as    *)
(* well, without the leading letters of "key: ".  When the user has joined the  *)
(* two lines - the popup can be edited -, there is no second one to read.      *)
Trimmed(path) == IF path # <<>> /\ Head(path) \in Eaten
                 THEN IF Len(path) = 1 THEN <<>> ELSE <<"">> \o Tail(path) ELSE path

InputEnter ==
    /\ Do("inputEnter")
    /\ \/ /\ \E v \in Values : sending' = <<Signal("inputValue", v)>>
          /\ todo' = <<[do |-> "closeInput", view |-> V]>> \o Tail(todo)
          /\ UNCHANGED <<phase, history>>
       \/ /\ phase' = "error" /\ todo' = <<>> /\ history' = history \cup {"joined"}
          /\ UNCHANGED sending
    /\ UNCHANGED <<ui, text>> /\ Rest

CloseInput ==
    /\ Do("closeInput")
    /\ IF {V, "transformationOperation"} \subseteq popups
       THEN /\ popups' = popups \ {V, "transformationOperation"}
            /\ binds' = [binds EXCEPT ![V] = 0, !["transformationOperation"] = 0]
            /\ current' = "sourceEvent"
            /\ Done /\ UNCHANGED <<phase, at, top, text, sending, history>>
       ELSE End("error")
    /\ Rest

(* Ctrl-C in that popup closes the channel; the processor reads nil.  A channel   *)
(* can be closed once.                                                        *)
InputClose ==
    /\ Do("inputClose")
    /\ IF proc.pc = "input"
       THEN /\ proc' = [proc EXCEPT !.pc = "apply", !.path = <<>>, !.value = <<>>]
            /\ Done /\ UNCHANGED <<phase, ui, text, sending, history>>
       ELSE End("error") /\ UNCHANGED proc
    /\ UNCHANGED <<nesting, source, target, main, saved>>

Handlers ==
    \/ CloseWindow \/ SelectOperation
    \/ SwitchTo("switchToSources", "sources") \/ SwitchTo("switchToTargets", "targets")
    \/ SwitchToTransformation \/ SourceCursorRight \/ SourceEventCursorLeft
    \/ CursorList("cursorUp", -1) \/ CursorList("cursorDown", 1)
    \/ CursorEventSample("cursorUpEventSample", -1) \/ CursorEventSample("cursorDownEventSample", 1)
    \/ WipeData \/ ResetTransformation
    \/ Pop("popOperationsView", "transformationOperation")
    \/ Pop("popTransformationNameView", "transformationName")
    \/ SaveAndExit \/ CloseName \/ InputEnter \/ CloseInput \/ InputClose
-----------------------------------------------------------------------------
(* ProcessKeystrokes.                                                         *)
ToProcessor == sending # <<>> /\ sending[1].origin \notin {"createAndExit", "inputValue"}

(* Signals of other views are taken and nothing is done about them.            *)
Origins == {"sources", "targets", "sourceEvent", "transformationOperation"}

Receive ==
    /\ phase = "run" /\ proc.pc = "idle" /\ ToProcessor
    /\ proc' = IF sending[1].origin \in Origins THEN [proc EXCEPT !.pc = "got", !.signal = sending[1]] ELSE proc
    /\ sending' = <<>>
    /\ UNCHANGED <<phase, ui, text, todo, nesting, source, target, main, saved, history>>

Got(origin) == phase = "run" /\ proc.pc = "got" /\ proc.signal.origin = origin

Show(source_, target_, otherwise) ==
    LET t == ExistingTransformation(source_, target_, Known)
    IN text' = IF t.spec # <<>> THEN t.spec ELSE otherwise

(* A new source clears the transformation; a new target keeps it, unless there   *)
(* is one for the pair.                                                       *)
SelectSource ==
    /\ Got("sources") /\ proc' = Idle
    /\ IF source = proc.signal.line.name THEN UNCHANGED <<source, text>>
       ELSE source' = proc.signal.line.name /\ Show(source', target, <<>>)
    /\ UNCHANGED <<phase, ui, todo, sending, nesting, target, main, saved, history>>

(* Mutant: the new target is shown and not remembered.                        *)
SelectTargetForgets ==
    /\ Got("targets") /\ proc' = Idle
    /\ Show(source, proc.signal.line.name, text)
    /\ UNCHANGED <<phase, ui, todo, sending, nesting, source, target, main, saved, history>>

SelectTarget ==
    /\ Got("targets") /\ proc' = Idle
    /\ IF target = proc.signal.line.name THEN UNCHANGED <<target, text>>
       ELSE target' = proc.signal.line.name /\ Show(source, target', text)
    /\ UNCHANGED <<phase, ui, todo, sending, nesting, source, main, saved, history>>

(* Mutant: the deeper levels are kept.                                        *)
WalkSampleKeepsDeeper ==
    LET l == proc.signal.line
    IN /\ Got("sourceEvent") /\ proc' = Idle
       /\ nesting' = IF l.depth \in 1 .. MaxNesting /\ l.key \notin Closers
                     THEN [nesting EXCEPT ![l.depth] = l.key] ELSE [nesting EXCEPT ![1] = "."]
       /\ UNCHANGED <<phase, ui, text, todo, sending, source, target, main, saved, history>>

(* A key goes to its level of `nesting' and clears the deeper ones; the outer     *)
(* brackets only set the first level, a line without a key none.  Ten levels   *)
(* are all there are.                                                         *)
WalkSample ==
    LET l == proc.signal.line
    IN /\ Got("sourceEvent")
       /\ \/ /\ l \in {Open, Close}
             /\ nesting' = [nesting EXCEPT ![1] = "."] /\ proc' = Idle /\ UNCHANGED phase
          \/ /\ l \notin {Open, Close} /\ l.key \in NoKey
             /\ proc' = Idle /\ UNCHANGED <<nesting, phase>>
          \/ /\ l.key \notin NoKey /\ l.depth <= MaxNesting
             /\ nesting' = [d \in 1 .. MaxNesting |-> IF d < l.depth THEN nesting[d]
                                                      ELSE IF d = l.depth THEN l.key ELSE ""]
             /\ proc' = Idle /\ UNCHANGED phase
          \/ /\ l.key \notin NoKey /\ l.depth > MaxNesting
             /\ phase' = "panic" /\ UNCHANGED <<proc, nesting>>
       /\ UNCHANGED <<ui, text, todo, sending, source, target, main, saved, history>>

(* `readOperation': delete and parse close the popup, the others open one more    *)
(* and wait for it.                                                           *)
PathOf == Chosen(nesting, {d \in DOMAIN nesting : nesting[d] # ""})

(* Mutant: delete waits for an input as well, without the popup.               *)
ReadOperationWaits ==
    /\ Got("transformationOperation")
    /\ proc' = [proc EXCEPT !.pc = "input", !.path = PathOf]
    /\ Delete("transformationOperation", "sourceEvent")
    /\ UNCHANGED <<phase, at, top, text, todo, sending, nesting, source, target, main, saved, history>>

ReadOperation ==
    LET path == IF proc.signal.isHotKey THEN <<>> ELSE PathOf
    IN /\ Got("transformationOperation")
       /\ IF proc.signal.line \in {"delete", "parse"}
          THEN /\ Delete("transformationOperation", "sourceEvent")
               /\ proc' = [proc EXCEPT !.pc = "apply", !.path = path]
          ELSE /\ popups' = popups \cup {"operationValue"} /\ current' = "operationValue"
               /\ binds' = [binds EXCEPT !["operationValue"] = @ + 1]
               /\ proc' = [proc EXCEPT !.pc = "input", !.path = path]
       /\ UNCHANGED <<phase, at, top, text, todo, sending, nesting, source, target, main, saved, history>>

(* `in := <-inputValue'; an empty key stands for the whole event.               *)
ReceiveInput ==
    /\ phase = "run" /\ proc.pc = "input"
    /\ sending # <<>> /\ sending[1].origin = "inputValue"
    /\ proc' = [proc EXCEPT !.pc = "apply", !.value = sending[1].line,
                            !.path = IF Trimmed(@) = <<>> THEN <<".">> ELSE Trimmed(@)]
    /\ sending' = <<>>
    /\ UNCHANGED <<phase, ui, text, todo, nesting, source, target, main, saved, history>>

Updated == Rearrange(UpdateTransformations(text, proc.signal.line, proc.path, proc.value))

(* A view that is not YAML keeps its text, and so it does if nothing is left.    *)
Apply ==
    /\ phase = "run" /\ proc.pc = "apply" /\ proc' = Idle
    /\ text' = IF text = Junk \/ Updated = <<>> THEN text ELSE Updated
    /\ UNCHANGED <<phase, ui, todo, sending, nesting, source, target, main, saved, history>>

ProcessKeystrokes ==
    \/ Receive \/ SelectSource \/ SelectTarget \/ WalkSample
    \/ ReadOperation \/ ReceiveInput \/ Apply
-----------------------------------------------------------------------------
(* Create waits for a name, reads the views, and either warns or returns.       *)
ReceiveName ==
    /\ phase = "run" /\ main = <<>>
    /\ sending # <<>> /\ sending[1].origin = "createAndExit"
    /\ main' = <<sending[1].line>> /\ sending' = <<>>
    /\ UNCHANGED <<phase, ui, text, todo, proc, nesting, source, target, saved, history>>

TargetComponent == ComponentAt(TargetLines, top["targets"], at["targets"])
TargetEventType == TypeAt(TargetLines, at["targets"])
TargetChosen == TargetComponent # "" \/ TargetEventType # ""

PopTargetWarning ==
    /\ phase = "run" /\ main # <<>> /\ ~TargetChosen
    /\ popups' = popups \cup {"targetWarning"} /\ current' = "targetWarning"
    /\ binds' = [binds EXCEPT !["targetWarning"] = @ + 1]
    /\ main' = <<>>
    /\ UNCHANGED <<phase, at, top, text, todo, sending, proc, nesting, source, target, saved, history>>

Save ==
    LET from == SourceLines[at["sources"]].name
        old  == ExistingTransformation(from, TargetComponent, Known).name
    IN /\ phase = "run" /\ main # <<>> /\ TargetChosen
       /\ phase' = "saved"
       /\ saved' = [name |-> IF old # "" THEN old ELSE main[1], source |-> from,
                    target |-> TargetComponent, type |-> TargetEventType, spec |-> text]
       /\ UNCHANGED <<ui, text, todo, sending, proc, nesting, source, target, main, history>>

Next ==
    \/ \E k \in Keys : Press(k)
    \/ Edit \/ Handlers \/ ProcessKeystrokes
    \/ ReceiveName \/ PopTargetWarning \/ Save

Spec == Init /\ [][Next]_vars

-----------------------------------------------------------------------------
SampleKeys == UNION {{Registry[t][i].key : i \in DOMAIN Registry[t]} : t \in DOMAIN Registry}

TypeOK ==
    /\ phase \in {"run", "quit", "error", "panic", "saved"}
    /\ popups \subseteq Popups /\ binds \in [Popups -> Nat] /\ current \in Views
    /\ at \in [Lists -> Nat \ {0}] /\ top \in [Lists -> Nat]
    /\ \A v \in Lists : Visible(v, at[v])
    /\ proc.pc \in {"idle", "got", "input", "apply"}
    /\ nesting \in [1 .. MaxNesting -> SampleKeys \cup {"", "."}]
    /\ history \subseteq {"left", "hasty", "strayed", "joined"}

(* The interface waits for a goroutine that waits for the interface: no key      *)
(* works from then on, Ctrl-C included.                                       *)
Frozen ==
    phase = "run" /\ (\/ ToProcessor /\ proc.pc = "input"
                      \/ sending # <<>> /\ sending[1].origin = "inputValue" /\ proc.pc = "idle")

(* A user who closes each popup with its own keys and lets the wizard finish      *)
(* before the next key is never left with a terminal that does not answer.    *)
FreezesOnlyAfterSlip == Frozen => history \cap {"left", "hasty"} # {}

(* For such a user, a handler returns an error, which ends the wizard with all     *)
(* that was typed, in three cases only: the two lines of the popup for a value *)
(* were joined; a source was chosen whose sample is shorter than the line at    *)
(* which the one before was left; next to the cursor of a list there is a       *)
(* header outside the visible part.                                          *)
FailsOnlyAfterSlip ==
    phase = "error" =>
        \/ history \cap {"left", "hasty", "joined"} # {}
        \/ at["sourceEvent"] \notin DOMAIN SampleLines
        \/ \E v \in {"sources", "targets"}, step \in {-1, 1} : HiddenHeader(v, at[v] + step)

(* Walking down through a sample, an operation gets the key path of the line       *)
(* under the cursor, though the processor only knows the lines it was told of. *)
PathIsKeyPath ==
    proc.pc = "input" /\ history \cap {"strayed", "hasty"} = {} /\ Regular(SampleLines)
        => proc.path = KeyPath(SampleLines, at["sourceEvent"])

(* What is saved was made while the source it is saved for was shown: Create         *)
(* reads the cursors of the lists, the processor what it was told.             *)
SavedForItsSource ==
    phase = "saved" /\ "hasty" \notin history
        => source = saved.source \/ (source = "" /\ saved.source = "*")

(* The same for the target: of an event type, for the component may be lost, and   *)
(* else of a component.                                                      *)
SavedForItsTarget ==
    phase = "saved" /\ "hasty" \notin history
        => target = IF saved.type # "" THEN saved.type ELSE saved.target

(* A name other than the one that was typed is that of a transformation that is       *)
(* there; it is replaced only after it was shown, if a source was chosen, and for  *)
(* a target without event types.  (For an event type the two lookups differ: the *)
(* processor's uses the type and Create's the component.)                      *)
ReplacesWhatItShowed ==
    phase = "saved" /\ "hasty" \notin history /\ saved.type = ""
    /\ saved.name # main[1] /\ source # ""
        => ExistingTransformation(source, target, Known).name = saved.name

Holds(ts, op, k) == \E i \in DOMAIN ts : ts[i].operation = op /\ Index(k, ts[i].paths) # {}
Kept(ts, op, k)  == Holds(ts, op, k) \/ (op = "delete" /\ Holds(ts, op, <<>>))

Rank(op) == CASE op = "parse" -> 1 [] op = "store" -> 2 [] op = "delete" -> 3
              [] op = "add" -> 4 [] op = "shift" -> 5

Normal(ts) ==
    /\ \A i, j \in DOMAIN ts : i < j => Rank(ts[i].operation) <= Rank(ts[j].operation)
    /\ \A i \in DOMAIN ts : /\ IsInjective([n \in DOMAIN ts[i].paths |-> ts[i].paths[n].key])
                            /\ \A p \in Range(ts[i].paths) : Complete(ts[i].operation, p)

(* An operation leaves the transformation in the order in which it is run, each key       *)
(* once and all of it complete; it loses nothing complete that was there unless    *)
(* all is wiped, and is itself in it if it is complete.                         *)
KeepsOperations ==
    [][proc.pc = "apply" /\ proc'.pc = "idle" /\ text # Junk =>
        LET op == proc.signal.line
            e  == Entry(op, proc.path, proc.value)
        IN /\ text' # text => Normal(text')
           /\ \A i \in DOMAIN text : \A p \in Range(text[i].paths) :
                Complete(text[i].operation, p) => Kept(text', text[i].operation, p.key)
           /\ Complete(op, e) => Kept(text', op, e.key)]_vars
=============================================================================
