-------------------------------- MODULE Tui --------------------------------
(***************************************************************************)
(* The interactive screen of find and grab (src/cli/tui): the loop of        *)
(* mod.rs takes one key, one event of the bus or one tick at a time; app.rs  *)
(* decides which overlay a key belongs to; engine.rs runs the pipeline as a  *)
(* task that puts rows and its end on the same bus as every later run.       *)
(* The list itself (sorting, filtering, scrolling, the drill-down) is module  *)
(* Screen; the messages of the status line are left out.                     *)
(***************************************************************************)
EXTENDS SequencesExt, Integers

CONSTANTS
    MaxRunsBegun,   \* bound: runs begun, the first one by the start
    RowsPerRun,     \* bound: rows a run finds
    MaxResults,     \* MAX_RESULTS
    BusCapacity,    \* ENGINE_CHANNEL_CAPACITY
    MaxExports      \* bound: exports under way at a time

ASSUME TuiAssumption ==
    /\ MaxRunsBegun \in Nat \ {0} /\ RowsPerRun \in Nat /\ MaxResults \in Nat
    /\ BusCapacity \in Nat \ {0} /\ MaxExports \in Nat

VARIABLES
    screen,     \* "running" or "done"
    run,        \* the run whose handle the app holds, NoRun if none
    begun,      \* the number of runs begun: the newest run
    engine,     \* per run: [pc, left, paused, doomed]
    bus,        \* the events not read yet: [kind, run]
    results,    \* the run each row on the screen came from
    overflow,   \* rows beyond MaxResults
    input,      \* the purpose of the open prompt, or "none"
    confirm,    \* the pending question: "none", "cancelRun", "overwrite"
    help,       \* the help panel is open
    exports,    \* exports being written
    summary,    \* the run the shown summary is of, NoRun if none
    quit,       \* should_quit: the loop ended
    pressed,    \* history: presses of Ctrl+C in a row, counted to 2
    tuiCut      \* history: some run was cancelled

overlays == <<input, confirm, help>>
outcome == <<results, overflow, summary>>
tuiVars == <<screen, run, begun, engine, bus, overlays, outcome, exports, quit, pressed, tuiCut>>

NoRun == 0
Runs == 1..MaxRunsBegun
Finding == {"preparing", "pass1", "pass2", "failing", "ending"}

TuiInit ==
    /\ screen = "running" /\ run = 1 /\ begun = 1
    /\ engine = [r \in Runs |-> [pc |-> IF r = 1 THEN "preparing" ELSE "off",
                                 left |-> RowsPerRun, paused |-> FALSE, doomed |-> FALSE]]
    /\ bus = <<>> /\ results = <<>> /\ overflow = 0
    /\ input = "none" /\ confirm = "none" /\ help = FALSE
    /\ exports = 0 /\ summary = NoRun
    /\ quit = FALSE /\ pressed = 0 /\ tuiCut = FALSE
-----------------------------------------------------------------------------
(* engine.rs: drive, run_find, run_grab.  An aborted task is doomed: it may  *)
(* go on until its next suspension.                                          *)

AppSame == UNCHANGED <<screen, run, begun, overlays, outcome, exports, quit, pressed, tuiCut>>
EngineTo(r, pc) == engine' = [engine EXCEPT ![r].pc = pc]
Sends(kind, r) == ~quit /\ Len(bus) < BusCapacity /\ bus' = Append(bus, [kind |-> kind, run |-> r])

EngineStarts(r) ==
    /\ engine[r].pc = "preparing"
    /\ \E pc \in {"pass1", "failing"} : EngineTo(r, pc)
    /\ AppSame /\ UNCHANGED bus

EngineEmits(r) ==
    /\ engine[r].pc \in {"pass1", "pass2"} /\ engine[r].left > 0
    /\ Sends("row", r)
    /\ engine' = [engine EXCEPT ![r].left = @ - 1]
    /\ AppSame

\* A pass ends when its source does, at the limit or with the quotas filled; grab has one.
\* The validator of the second pass may fail to start, and comes with a gate of its own.
EnginePassEnds(r) ==
    /\ \/ engine[r].pc = "pass1" /\ engine' = [engine EXCEPT ![r].pc = "pass2", ![r].paused = FALSE]
       \/ engine[r].pc = "pass1" /\ EngineTo(r, "failing")
       \/ engine[r].pc \in {"pass1", "pass2"} /\ EngineTo(r, "ending")
    /\ AppSame /\ UNCHANGED bus

\* Mutant: the end of a run is dropped if the bus is full.
EngineEndsOrDrops(r) ==
    /\ \/ engine[r].pc = "ending" /\ (Sends("finished", r) \/ (Len(bus) = BusCapacity /\ UNCHANGED bus))
       \/ engine[r].pc = "failing" /\ Sends("error", r)
    /\ EngineTo(r, "over")
    /\ AppSame

EngineEnds(r) ==
    /\ \/ engine[r].pc = "ending" /\ Sends("finished", r)
       \/ engine[r].pc = "failing" /\ Sends("error", r)
    /\ EngineTo(r, "over")
    /\ AppSame

\* The abort is noticed, or the bus is gone with the loop.
EngineStops(r) ==
    /\ engine[r].pc \in Finding /\ (engine[r].doomed \/ quit)
    /\ EngineTo(r, "over")
    /\ AppSame /\ UNCHANGED bus
-----------------------------------------------------------------------------
(* app.rs: what an action does.                                              *)

\* RunHandle::drop and RunHandle::cancel abort the task of the run.
Doomed(r) == IF r = NoRun THEN engine ELSE [engine EXCEPT ![r].doomed = TRUE]

Leave == quit' = TRUE /\ run' = NoRun /\ engine' = Doomed(run) /\ UNCHANGED <<screen, tuiCut>>

CancelNow ==
    /\ run' = NoRun /\ engine' = Doomed(run)
    /\ tuiCut' = (tuiCut \/ run # NoRun)
    /\ screen' = "done"
    /\ UNCHANGED quit

\* interrupt: stop a live run, otherwise leave.
Interrupt == IF screen = "running" /\ run # NoRun THEN CancelNow ELSE Leave
NoRunChange == UNCHANGED <<screen, run, engine, tuiCut, quit>>

\* Which overlay owns the keyboard: a question, the help panel, a prompt, or none.
Owner ==
    IF confirm # "none" THEN "confirm" ELSE IF help THEN "help" ELSE IF input # "none" THEN "input" ELSE "browse"

\* Ctrl+C always resolves to Action::Interrupt; help and prompts have no use for it.
CtrlC ==
    /\ pressed' = IF pressed = 2 THEN 2 ELSE pressed + 1
    /\ IF Owner \in {"confirm", "browse"} THEN Interrupt ELSE NoRunChange
    /\ confirm' = "none"
    /\ input' = IF Owner = "browse" THEN "none" ELSE input
    /\ UNCHANGED <<begun, bus, outcome, help, exports>>

KeySame == UNCHANGED <<begun, bus, outcome>> /\ pressed' = 0

ConfirmYes ==
    /\ Owner = "confirm" /\ confirm' = "none"
    /\ \/ confirm = "cancelRun" /\ CancelNow /\ UNCHANGED exports
       \/ confirm = "overwrite" /\ exports < MaxExports /\ exports' = exports + 1 /\ NoRunChange
    /\ KeySame /\ UNCHANGED <<input, help>>

ConfirmNo ==
    /\ Owner = "confirm" /\ confirm' = "none"
    /\ KeySame /\ NoRunChange /\ UNCHANGED <<input, help, exports>>

HelpKey ==
    /\ Owner = "help" /\ help' = FALSE
    /\ KeySame /\ NoRunChange /\ UNCHANGED <<input, confirm, exports>>

\* Enter in a prompt; a path that exists is asked about, an empty one is not written.
Submits ==
    /\ Owner = "input"
    /\ \/ input = "filter" /\ input' = "none" /\ UNCHANGED <<confirm, exports>>
       \/ input = "format" /\ input' = "path" /\ UNCHANGED <<confirm, exports>>
       \/ input = "path" /\ input' = "none" /\ UNCHANGED <<confirm, exports>>
       \/ input = "path" /\ input' = "none" /\ confirm' = "overwrite" /\ UNCHANGED exports
       \/ /\ input = "path" /\ exports < MaxExports
          /\ input' = "none" /\ exports' = exports + 1 /\ UNCHANGED confirm
    /\ KeySame /\ NoRunChange /\ UNCHANGED <<help>>

CancelsPrompt ==
    /\ Owner = "input" /\ input' = "none"
    /\ KeySame /\ NoRunChange /\ UNCHANGED <<confirm, help, exports>>

OpensOverlay ==
    /\ Owner = "browse"
    /\ \/ help' = TRUE /\ UNCHANGED <<input, confirm>>
       \/ input' \in {"filter", "format"} /\ UNCHANGED <<help, confirm>>
       \/ screen = "running" /\ run # NoRun /\ confirm' = "cancelRun" /\ UNCHANGED <<help, input>>
    /\ KeySame /\ NoRunChange /\ UNCHANGED exports

\* esc or q leaves the screen of a run that is over.
Back ==
    /\ Owner = "browse"
    /\ screen = "done" /\ Leave
    /\ KeySame /\ UNCHANGED <<overlays, exports>>

\* The gate exists once the validator is up.
PauseToggle ==
    /\ Owner = "browse" /\ screen = "running" /\ run # NoRun
    /\ engine[run].pc \in {"pass1", "pass2"}
    /\ engine' = [engine EXCEPT ![run].paused = ~@]
    /\ KeySame /\ UNCHANGED <<screen, run, tuiCut, quit, overlays, exports>>

\* Mutant: begin_run leaves the rows of the last run in place.
RerunKeepingRows ==
    /\ Owner = "browse" /\ screen = "done" /\ begun < MaxRunsBegun
    /\ begun' = begun + 1 /\ run' = begun + 1 /\ screen' = "running"
    /\ engine' = [Doomed(run) EXCEPT ![begun + 1].pc = "preparing"]
    /\ summary' = NoRun /\ UNCHANGED <<results, overflow>>
    /\ confirm' = "none" /\ pressed' = 0
    /\ UNCHANGED <<bus, input, help, exports, quit, tuiCut>>

\* begin_run, from the screen of a run that is over.
Rerun ==
    /\ Owner = "browse" /\ screen = "done" /\ begun < MaxRunsBegun
    /\ begun' = begun + 1 /\ run' = begun + 1 /\ screen' = "running"
    /\ engine' = [Doomed(run) EXCEPT ![begun + 1].pc = "preparing"]
    /\ results' = <<>> /\ overflow' = 0 /\ summary' = NoRun
    /\ confirm' = "none" /\ pressed' = 0
    /\ UNCHANGED <<bus, input, help, exports, quit, tuiCut>>

\* SIGTERM, or the terminal is gone.
Terminated ==
    /\ Leave /\ KeySame /\ UNCHANGED <<overlays, exports>>

Key ==
    \/ CtrlC \/ ConfirmYes \/ ConfirmNo \/ HelpKey \/ Submits \/ CancelsPrompt
    \/ OpensOverlay \/ Back \/ PauseToggle \/ Rerun

\* Mutant: the handle of a run that is over is kept for the next one to overwrite.
TakesEndKeepingHandle(event) ==
    /\ event.kind \in {"finished", "error"}
    /\ summary' = IF event.kind = "finished" THEN event.run ELSE summary
    /\ run' = NoRun /\ screen' = "done"
    /\ UNCHANGED <<engine, results, overflow>>

\* Finished and Error end the run whose handle is held, whichever run they come from.
TakesEnd(event) ==
    /\ event.kind \in {"finished", "error"}
    /\ summary' = IF event.kind = "finished" THEN event.run ELSE summary
    /\ run' = NoRun /\ engine' = Doomed(run) /\ screen' = "done"
    /\ UNCHANGED <<results, overflow>>

TakesRow(event) ==
    /\ event.kind = "row"
    /\ IF Len(results) < MaxResults
       THEN results' = Append(results, event.run) /\ UNCHANGED overflow
       ELSE overflow' = overflow + 1 /\ UNCHANGED results
    /\ UNCHANGED <<run, engine, screen, summary>>

\* on_engine_event takes the oldest event, whatever is open.
Receives ==
    /\ ~quit /\ bus # <<>> /\ bus' = Tail(bus)
    /\ LET event == Head(bus)
       IN  \/ TakesRow(event)
           \/ TakesEnd(event)
           \/ event.kind = "exported" /\ UNCHANGED <<outcome, run, engine, screen>>
    /\ UNCHANGED <<begun, overlays, exports, quit, pressed, tuiCut>>

\* The thread of an export reports on the bus.
ExportEnds ==
    /\ exports > 0 /\ exports' = exports - 1
    /\ Sends("exported", NoRun)
    /\ UNCHANGED <<screen, run, begun, engine, overlays, outcome, quit, pressed, tuiCut>>

EngineStep(r) ==
    EngineStarts(r) \/ EngineEmits(r) \/ EnginePassEnds(r) \/ EngineEnds(r) \/ EngineStops(r)

TuiNext ==
    \/ ~quit /\ (Key \/ Terminated)
    \/ Receives
    \/ ExportEnds
    \/ \E r \in Runs : EngineStep(r)

TuiSpec == TuiInit /\ [][TuiNext]_tuiVars

\* A run that is not paused goes on: the waiters for room on the bus are served in order,
\* exports or not, and the loop takes every event in the end.
Unpaused(r) == ~engine[r].paused /\ EngineStep(r)
-----------------------------------------------------------------------------
Events == [kind : {"row", "finished", "error"}, run : Runs] \cup [kind : {"exported"}, run : {NoRun}]

TuiTypeOK ==
    /\ screen \in {"running", "done"} /\ run \in Runs \cup {NoRun} /\ begun \in Runs
    /\ engine \in [Runs -> [pc : Finding \cup {"off", "over"}, left : 0..RowsPerRun,
                            paused : BOOLEAN, doomed : BOOLEAN]]
    /\ bus \in Seq(Events) /\ Len(bus) <= BusCapacity
    /\ results \in Seq(Runs) /\ overflow \in Nat /\ summary \in Runs \cup {NoRun}
    /\ quit \in BOOLEAN /\ tuiCut \in BOOLEAN /\ pressed \in 0..2 /\ exports \in 0..MaxExports
    /\ input \in {"none", "filter", "format", "path"} /\ confirm \in {"none", "cancelRun", "overwrite"}
    /\ help \in BOOLEAN

\* Rows, their overflow and the summary on the screen are of the newest run, unless some run
\* was cancelled with events on the bus: those are taken for events of the next one, and a stale
\* end among them aborts it, whose rows then stand on the bus in turn (app.rs:653).
ForeignOnlyAfterCancel ==
    ~tuiCut => /\ \A i \in DOMAIN results : results[i] = begun
                    /\ Len(results) + overflow <= RowsPerRun
                    /\ summary \in {NoRun, begun}

\* No run goes on unattended: whatever happens to its handle, a run the app does not hold has
\* been aborted or is over (engine.rs:149).
UnheldRunsAreAborted ==
    \A r \in Runs : engine[r].pc \in Finding \ {"off"} => r = run \/ engine[r].doomed

\* The end of a run reaches the screen behind any prompt or question, unless the run is paused
\* or the user leaves.
RunReachesDone ==
    (screen = "running") ~> (screen = "done" \/ quit \/ \E r \in Runs : engine[r].paused)

\* "A second press therefore quits" (app.rs:429).
SecondCtrlCQuits == pressed = 2 => quit
=============================================================================
