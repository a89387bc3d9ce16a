---------------------------- MODULE InterfaceProofs ---------------------------
(***************************************************************************)
(* The safety of what a user gets to see.  Of the interactive screen, for  *)
(* any number of runs, rows, proxies, sources and lines of the terminal:   *)
(* the runs the app starts and lets go of (module Tui), and what is drawn  *)
(* of the view of the rows (module Screen).  Of the commands, for every    *)
(* list of rows, limit, order and format: the document they leave behind   *)
(* (module Output).                                                        *)
(***************************************************************************)
EXTENDS Tui, Screen, Output,
        SequenceTheorems, FiniteSetTheorems, WellFoundedInduction, TLAPS

(***************************************************************************)
(* The runs of the app (module Tui).  What is inductive says besides which *)
(* events can still be on the bus: those of the newest run, in its order,  *)
(* as long as no run was ever cancelled.                                   *)
(***************************************************************************)
\* The app holds the newest run or none, and one as long as the screen says so.
HeldInv ==
    /\ run \in {NoRun, begun}
    /\ screen = "done" => run = NoRun
    /\ ~quit /\ screen = "running" => run = begun
    /\ \A r \in Runs : r > begun => engine[r].pc = "off" /\ engine[r].left = RowsPerRun

\* The events of a run, as opposed to the reports of an export.
OfRun(event) == event.kind # "exported"
EndOfRun(event) == event.kind \in {"finished", "error"}
RowsOn(events) == Cardinality({i \in 1..Len(events) : events[i].kind = "row"})

\* Until a run is cancelled only the newest run has rows or an end on the bus, its end is the last
\* of them, and none of its rows is lost or counted twice.
CleanInv ==
    ~tuiCut =>
        /\ \A r \in Runs : r < begun => engine[r].pc = "over"
        /\ \A i \in 1..Len(bus) : OfRun(bus[i]) => bus[i].run = begun
        /\ \A i \in 1..Len(bus) : EndOfRun(bus[i]) =>
               engine[begun].pc = "over" /\ \A j \in 1..Len(bus) : j > i => ~OfRun(bus[j])
        /\ screen = "done" => engine[begun].pc = "over" /\ \A i \in 1..Len(bus) : ~OfRun(bus[i])
        /\ Len(results) + overflow + RowsOn(bus) + engine[begun].left = RowsPerRun
        /\ \A i \in 1..Len(results) : results[i] = begun
        /\ summary \in {NoRun, begun}

\* The inductive invariant.
TuiInv == TuiTypeOK /\ HeldInv /\ UnheldRunsAreAborted /\ CleanInv
-----------------------------------------------------------------------------
(* The rows on the bus.                                                      *)

\* The rows among the events are counted by a number.
LEMMA RowsOnType ==
    ASSUME NEW q \in Seq(Events)
    PROVE  /\ IsFiniteSet({i \in 1..Len(q) : q[i].kind = "row"})
           /\ RowsOn(q) \in Nat
<1>1. Len(q) \in Nat
  BY LenProperties
<1>2. IsFiniteSet(1..Len(q))
  BY <1>1, FS_Interval
<1>3. IsFiniteSet({i \in 1..Len(q) : q[i].kind = "row"})
  BY <1>2, FS_Subset
<1> QED
  BY <1>3, FS_CardinalityType DEF RowsOn

\* Appending an event counts one more row if it is one.
LEMMA RowsOnAppend ==
    ASSUME NEW q \in Seq(Events), NEW e \in Events
    PROVE  RowsOn(Append(q, e)) = RowsOn(q) + (IF e.kind = "row" THEN 1 ELSE 0)
<1> DEFINE A == {i \in 1..Len(q) : q[i].kind = "row"}
           B == {i \in 1..(Len(q) + 1) : Append(q, e)[i].kind = "row"}
<1>1. /\ Len(q) \in Nat /\ Len(Append(q, e)) = Len(q) + 1 /\ Append(q, e)[Len(q) + 1] = e
      /\ \A i \in 1..Len(q) : Append(q, e)[i] = q[i]
  BY AppendProperties, LenProperties
<1>2. \A i \in 1..(Len(q) + 1) : i \in 1..Len(q) \/ i = Len(q) + 1
  BY <1>1
<1>3. \A i \in 1..Len(q) : i \in 1..(Len(q) + 1)
  BY <1>1
<1>4. IsFiniteSet(A) /\ RowsOn(q) = Cardinality(A) /\ RowsOn(Append(q, e)) = Cardinality(B)
      /\ Cardinality(A) \in Nat
  BY <1>1, RowsOnType DEF RowsOn
<1>5. CASE e.kind = "row"
  <2>1. B = A \cup {Len(q) + 1} /\ Len(q) + 1 \notin A
    BY <1>1, <1>2, <1>3, <1>5
  <2> HIDE DEF A, B
  <2> QED
    BY <1>4, <1>5, <2>1, FS_AddElement
<1>6. CASE e.kind # "row"
  <2>1. B = A
    BY <1>1, <1>2, <1>3, <1>6
  <2> HIDE DEF A, B
  <2> QED
    BY <1>4, <1>6, <2>1
<1> QED
  BY <1>5, <1>6

\* Taking the oldest event leaves the others.
LEMMA RowsOnTail ==
    ASSUME NEW q \in Seq(Events), q # <<>>
    PROVE  RowsOn(q) = RowsOn(Tail(q)) + (IF Head(q).kind = "row" THEN 1 ELSE 0)
<1> DEFINE A == {i \in 1..(Len(q) - 1) : q[i + 1].kind = "row"}
           B == {i \in 2..Len(q) : q[i].kind = "row"}
           C == {i \in 1..Len(q) : q[i].kind = "row"}
<1>1. /\ Len(q) \in Nat \ {0} /\ Head(q) = q[1] /\ Len(Tail(q)) = Len(q) - 1 /\ Tail(q) \in Seq(Events)
      /\ \A i \in 1..(Len(q) - 1) : Tail(q)[i] = q[i + 1]
  BY HeadTailProperties, LenProperties, EmptySeq
<1>2. RowsOn(q) = Cardinality(C) /\ IsFiniteSet(C) /\ Cardinality(C) \in Nat
  BY RowsOnType DEF RowsOn
<1>3. RowsOn(Tail(q)) = Cardinality(A) /\ IsFiniteSet(A)
  <2>1. {i \in 1..Len(Tail(q)) : Tail(q)[i].kind = "row"} = A
    BY <1>1
  <2> QED
    BY <1>1, <2>1, RowsOnType DEF RowsOn
<1>4. Cardinality(A) = Cardinality(B) /\ IsFiniteSet(B)
  <2> DEFINE f == [i \in A |-> i + 1]
  <2>1. \A i \in A : i + 1 \in B /\ i \in Int
    BY <1>1
  <2>2. \A j \in B : j - 1 \in A /\ j = (j - 1) + 1
    BY <1>1
  <2> HIDE DEF A, B
  <2>3. f \in [A -> B] /\ (\A i, j \in A : f[i] = f[j] => i = j) /\ \A j \in B : \E i \in A : f[i] = j
    BY <2>1, <2>2
  <2>4. f \in Bijection(A, B)
    BY <2>3, Zenon DEF Bijection, Injection, Surjection, IsInjective
  <2>5. ExistsBijection(A, B)
    BY <2>4 DEF ExistsBijection
  <2> QED
    BY <1>3, <2>5, FS_Bijection
<1>5. CASE q[1].kind = "row"
  <2>1. C = B \cup {1} /\ 1 \notin B
    BY <1>1, <1>5
  <2> HIDE DEF A, B, C
  <2> QED
    BY <1>1, <1>2, <1>3, <1>4, <1>5, <2>1, FS_AddElement, FS_CardinalityType
<1>6. CASE q[1].kind # "row"
  <2>1. C = B
    BY <1>1, <1>6
  <2> HIDE DEF A, B, C
  <2> QED
    BY <1>1, <1>2, <1>3, <1>4, <1>6, <2>1
<1> QED
  BY <1>5, <1>6

\* No row, no count.
LEMMA NoRowsOn ==
    ASSUME NEW q \in Seq(Events), \A i \in 1..Len(q) : q[i].kind # "row"
    PROVE  RowsOn(q) = 0
<1>1. {i \in 1..Len(q) : q[i].kind = "row"} = {}
  OBVIOUS
<1> QED
  BY <1>1, FS_EmptySet DEF RowsOn
-----------------------------------------------------------------------------
(* The steps of the app.                                                     *)

\* The types of what a key changes, apart from the runs.
AppTyped ==
    /\ input \in {"none", "filter", "format", "path"} /\ confirm \in {"none", "cancelRun", "overwrite"}
    /\ help \in BOOLEAN /\ pressed \in 0..2 /\ exports \in 0..MaxExports

\* A key that changes no run keeps the invariant.
LEMMA KeysKeep ==
    ASSUME TuiInv, AppTyped', UNCHANGED <<screen, run, begun, engine, bus, outcome, quit, tuiCut>>
    PROVE  TuiInv'
<1>1. TuiTypeOK'
  BY DEF TuiInv, TuiTypeOK, AppTyped, outcome
<1>2. HeldInv' /\ UnheldRunsAreAborted'
  BY DEF TuiInv, HeldInv, UnheldRunsAreAborted
<1>3. CleanInv'
  BY DEF TuiInv, CleanInv, outcome
<1> QED
  BY <1>1, <1>2, <1>3 DEF TuiInv

\* The stages of the engines after the app let go of its run.
LEMMA DoomedFacts ==
    ASSUME TuiInv
    PROVE  /\ Doomed(run) \in [Runs -> [pc : Finding \cup {"off", "over"}, left : 0..RowsPerRun,
                                        paused : BOOLEAN, doomed : BOOLEAN]]
           /\ \A r \in Runs : /\ Doomed(run)[r].pc = engine[r].pc /\ Doomed(run)[r].left = engine[r].left
                              /\ engine[r].pc \in Finding => Doomed(run)[r].doomed
<1>1. /\ engine \in [Runs -> [pc : Finding \cup {"off", "over"}, left : 0..RowsPerRun,
                             paused : BOOLEAN, doomed : BOOLEAN]]
      /\ run \in Runs \cup {NoRun} /\ NoRun \notin Runs
      /\ \A r \in Runs : engine[r].pc \in Finding => r = run \/ engine[r].doomed
  BY DEF TuiInv, TuiTypeOK, UnheldRunsAreAborted, NoRun, Runs, Finding
<1>2. CASE run = NoRun
  BY <1>1, <1>2 DEF Doomed
<1>3. CASE run # NoRun
  <2>1. Doomed(run) = [engine EXCEPT ![run] = [engine[run] EXCEPT !.doomed = TRUE]] /\ run \in Runs
    BY <1>1, <1>3 DEF Doomed
  <2>2. /\ Doomed(run)[run] = [engine[run] EXCEPT !.doomed = TRUE]
        /\ \A r \in Runs : r # run => Doomed(run)[r] = engine[r]
    BY <1>1, <2>1
  <2>3. [engine[run] EXCEPT !.doomed = TRUE] \in [pc : Finding \cup {"off", "over"}, left : 0..RowsPerRun,
                                                 paused : BOOLEAN, doomed : BOOLEAN]
        /\ [engine[run] EXCEPT !.doomed = TRUE].pc = engine[run].pc
        /\ [engine[run] EXCEPT !.doomed = TRUE].left = engine[run].left
        /\ [engine[run] EXCEPT !.doomed = TRUE].doomed = TRUE
    BY <1>1, <2>1
  <2>4. Doomed(run) \in [Runs -> [pc : Finding \cup {"off", "over"}, left : 0..RowsPerRun,
                                  paused : BOOLEAN, doomed : BOOLEAN]]
    BY <1>1, <2>1, <2>3
  <2> QED
    BY <1>1, <2>1, <2>2, <2>3, <2>4
<1> QED
  BY <1>2, <1>3

\* Letting go of the run, with or without leaving, aborts it.
LEMMA LettingGo ==
    ASSUME TuiInv, run' = NoRun, engine' = Doomed(run), UNCHANGED <<begun, bus, outcome>>, AppTyped',
           quit' \in BOOLEAN, tuiCut' \in BOOLEAN, quit => quit', tuiCut => tuiCut',
           screen' \in {"running", "done"},
           quit' \/ screen' = "done",
           screen' = "done" => screen = "done" \/ tuiCut'
    PROVE  TuiInv'
<1>1. TuiTypeOK'
  BY DoomedFacts DEF TuiInv, TuiTypeOK, AppTyped, outcome
<1>2. HeldInv' /\ UnheldRunsAreAborted'
  BY DoomedFacts DEF TuiInv, HeldInv, UnheldRunsAreAborted, NoRun, Finding
<1>3. CleanInv'
  <2>1. begun \in Runs
    BY DEF TuiInv, TuiTypeOK
  <2>2. engine'[begun].pc = engine[begun].pc /\ engine'[begun].left = engine[begun].left
        /\ \A r \in Runs : engine'[r].pc = engine[r].pc
    BY <2>1, DoomedFacts
  <2> QED
    BY <2>1, <2>2 DEF TuiInv, CleanInv, outcome
<1> QED
  BY <1>1, <1>2, <1>3 DEF TuiInv

\* What the user may press next is of its types.
LEMMA AppStateTyped == TuiInv => AppTyped
BY DEF TuiInv, TuiTypeOK, AppTyped

\* Ctrl+C stops the run or leaves.
LEMMA CtrlCKeeps ==
    ASSUME TuiInv, ~quit, CtrlC
    PROVE  TuiInv'
<1>1. AppTyped /\ tuiCut \in BOOLEAN /\ quit \in BOOLEAN /\ screen \in {"running", "done"}
  BY AppStateTyped DEF TuiInv, TuiTypeOK
<1>2. AppTyped' /\ UNCHANGED <<begun, bus, outcome>>
  BY <1>1 DEF CtrlC, AppTyped
<1>3. Interrupt \/ NoRunChange
  BY DEF CtrlC
<1>4. CASE NoRunChange
  BY <1>2, <1>4, KeysKeep DEF NoRunChange
<1>5. CASE Interrupt
  <2>1. CASE CancelNow /\ run # NoRun
    <3>1. run' = NoRun /\ engine' = Doomed(run) /\ tuiCut' = TRUE /\ screen' = "done" /\ quit' = quit
      BY <1>1, <2>1 DEF CancelNow
    <3> QED
      BY <1>1, <1>2, <3>1, LettingGo
  <2>2. CASE Leave
    <3>1. run' = NoRun /\ engine' = Doomed(run) /\ tuiCut' = tuiCut /\ screen' = screen /\ quit' = TRUE
      BY <2>2 DEF Leave
    <3> QED
      BY <1>1, <1>2, <3>1, LettingGo
  <2> QED
    BY <1>5, <2>1, <2>2 DEF Interrupt
<1> QED
  BY <1>3, <1>4, <1>5

\* Answers, prompts, the help panel and the end of an export.
LEMMA OverlaysKeep ==
    ASSUME TuiInv, ~quit, ConfirmYes \/ ConfirmNo \/ HelpKey \/ Submits \/ CancelsPrompt \/ OpensOverlay
    PROVE  TuiInv'
<1>1. AppTyped /\ tuiCut \in BOOLEAN /\ quit \in BOOLEAN /\ screen \in {"running", "done"} /\ MaxExports \in Nat
  BY AppStateTyped, TuiAssumption DEF TuiInv, TuiTypeOK
<1>2. CASE ConfirmYes
  <2>1. AppTyped' /\ UNCHANGED <<begun, bus, outcome>>
    BY <1>1, <1>2 DEF ConfirmYes, KeySame, AppTyped
  <2>2. CASE NoRunChange
    BY <2>1, <2>2, KeysKeep DEF NoRunChange
  <2>3. CASE CancelNow
    <3>1. /\ run' = NoRun /\ engine' = Doomed(run) /\ tuiCut' = (tuiCut \/ run # NoRun)
          /\ screen' = "done" /\ quit' = quit
      BY <2>3 DEF CancelNow
    <3>2. screen = "done" \/ run # NoRun
      BY <1>1 DEF TuiInv, HeldInv, TuiTypeOK, NoRun, Runs
    <3> QED
      BY <1>1, <2>1, <3>1, <3>2, LettingGo
  <2> QED
    BY <1>2, <2>2, <2>3 DEF ConfirmYes
<1>3. CASE ConfirmNo \/ HelpKey \/ CancelsPrompt
  <2>1. AppTyped'
    <3>1. CASE ConfirmNo
      BY <1>1, <3>1 DEF ConfirmNo, KeySame, AppTyped
    <3>2. CASE HelpKey
      <4>1. help' = FALSE /\ pressed' = 0 /\ UNCHANGED <<input, confirm, exports>>
        BY <3>2 DEF HelpKey, KeySame
      <4>2. help' \in BOOLEAN
        BY <4>1, Zenon
      <4> QED
        BY <1>1, <4>1, <4>2 DEF AppTyped
    <3>3. CASE CancelsPrompt
      BY <1>1, <3>3 DEF CancelsPrompt, KeySame, AppTyped
    <3> QED
      BY <1>3, <3>1, <3>2, <3>3
  <2>2. UNCHANGED <<screen, run, begun, engine, bus, outcome, quit, tuiCut>>
    BY <1>3 DEF ConfirmNo, HelpKey, CancelsPrompt, KeySame, NoRunChange
  <2> QED
    BY <2>1, <2>2, KeysKeep
<1>4. CASE Submits
  <2>1. AppTyped'
    BY <1>1, <1>4 DEF Submits, KeySame, AppTyped
  <2> QED
    BY <1>4, <2>1, KeysKeep DEF Submits, KeySame, NoRunChange
<1>5. CASE OpensOverlay
  <2>1. AppTyped'
    <3>1. pressed' = 0 /\ exports' = exports
      BY <1>5 DEF OpensOverlay, KeySame
    <3>2. /\ input' \in {"none", "filter", "format", "path"}
          /\ confirm' \in {"none", "cancelRun", "overwrite"}
          /\ help' \in BOOLEAN
      BY <1>1, <1>5, Zenon DEF OpensOverlay, AppTyped
    <3> QED
      BY <1>1, <3>1, <3>2 DEF AppTyped
  <2>2. UNCHANGED <<screen, run, begun, engine, bus, outcome, quit, tuiCut>>
    BY <1>5 DEF OpensOverlay, KeySame, NoRunChange
  <2> QED
    BY <2>1, <2>2, KeysKeep
<1> QED
  BY <1>2, <1>3, <1>4, <1>5

\* Leaving, by a key or by a signal.
LEMMA LeavingKeeps ==
    ASSUME TuiInv, ~quit, Back \/ Terminated
    PROVE  TuiInv'
<1>1. AppTyped /\ tuiCut \in BOOLEAN /\ screen \in {"running", "done"}
  BY AppStateTyped DEF TuiInv, TuiTypeOK
<1>2. Leave /\ UNCHANGED <<begun, bus, outcome>> /\ pressed' = 0 /\ UNCHANGED <<overlays, exports>>
  BY DEF Back, Terminated, KeySame
<1>3. AppTyped'
  BY <1>1, <1>2 DEF AppTyped, overlays
<1>4. run' = NoRun /\ engine' = Doomed(run) /\ tuiCut' = tuiCut /\ screen' = screen /\ quit' = TRUE
  BY <1>2 DEF Leave
<1> QED
  BY <1>1, <1>2, <1>3, <1>4, LettingGo

\* The states of the task of one run.
EngineStates ==
    [pc : Finding \cup {"off", "over"}, left : 0..RowsPerRun, paused : BOOLEAN, doomed : BOOLEAN]

\* Pausing changes nothing else.
LEMMA PausingKeeps ==
    ASSUME TuiInv, ~quit, PauseToggle
    PROVE  TuiInv'
<1>1. /\ engine \in [Runs -> EngineStates] /\ run \in Runs
      /\ engine' = [engine EXCEPT ![run] = [engine[run] EXCEPT !.paused = ~engine[run].paused]]
      /\ UNCHANGED <<begun, bus, outcome, screen, run, tuiCut, quit, overlays, exports>> /\ pressed' = 0
  BY DEF PauseToggle, KeySame, TuiInv, TuiTypeOK, NoRun, EngineStates
<1> DEFINE e == [engine[run] EXCEPT !.paused = ~engine[run].paused]
<1>2. e \in EngineStates /\ e.pc = engine[run].pc /\ e.left = engine[run].left /\ e.doomed = engine[run].doomed
  BY <1>1 DEF EngineStates
<1> HIDE DEF e
<1>3. engine' = [engine EXCEPT ![run] = e]
  BY <1>1 DEF e
<1>4. /\ engine' \in [Runs -> EngineStates]
      /\ \A r \in Runs : /\ engine'[r].pc = engine[r].pc /\ engine'[r].left = engine[r].left
                         /\ engine'[r].doomed = engine[r].doomed
  BY <1>1, <1>2, <1>3
<1>5. TuiTypeOK'
  BY <1>1, <1>4 DEF TuiInv, TuiTypeOK, EngineStates, outcome, overlays
<1>6. HeldInv' /\ UnheldRunsAreAborted'
  BY <1>1, <1>4 DEF TuiInv, HeldInv, UnheldRunsAreAborted
<1>7. CleanInv'
  <2>1. begun \in Runs
    BY DEF TuiInv, TuiTypeOK
  <2> QED
    BY <1>1, <1>4, <2>1 DEF TuiInv, CleanInv, outcome
<1> QED
  BY <1>5, <1>6, <1>7 DEF TuiInv

\* The next run starts with an empty screen, when nothing of the last one is on the bus.
LEMMA RerunKeeps ==
    ASSUME TuiInv, ~quit, Rerun
    PROVE  TuiInv'
<1>1. /\ screen = "done" /\ begun < MaxRunsBegun
      /\ begun' = begun + 1 /\ run' = begun + 1 /\ screen' = "running"
      /\ engine' = [Doomed(run) EXCEPT ![begun + 1] = [Doomed(run)[begun + 1] EXCEPT !.pc = "preparing"]]
      /\ results' = <<>> /\ overflow' = 0 /\ summary' = NoRun
      /\ confirm' = "none" /\ pressed' = 0
      /\ UNCHANGED <<bus, input, help, exports, quit, tuiCut>>
  BY DEF Rerun
<1>2. /\ run = NoRun /\ begun \in Runs /\ engine \in [Runs -> EngineStates] /\ Doomed(run) = engine
      /\ \A r \in Runs : r > begun => engine[r].pc = "off" /\ engine[r].left = RowsPerRun
  BY <1>1 DEF TuiInv, TuiTypeOK, HeldInv, Doomed, EngineStates
<1>3. begun + 1 \in Runs /\ \A r \in Runs : r \in Nat
  BY <1>1, <1>2, TuiAssumption DEF Runs
<1> DEFINE e == [engine[begun + 1] EXCEPT !.pc = "preparing"]
<1>4. e \in EngineStates /\ e.pc = "preparing" /\ e.left = engine[begun + 1].left
  BY <1>2, <1>3 DEF EngineStates, Finding
<1>5. engine' = [engine EXCEPT ![begun + 1] = e]
  BY <1>1, <1>2
<1> HIDE DEF e
<1>6. /\ engine' \in [Runs -> EngineStates] /\ engine'[begun + 1] = e
      /\ \A r \in Runs : r # begun + 1 => engine'[r] = engine[r]
  BY <1>2, <1>3, <1>4, <1>5
<1>7. TuiTypeOK'
  BY <1>1, <1>3, <1>6, EmptySeq DEF TuiInv, TuiTypeOK, EngineStates
<1>8. HeldInv'
  BY <1>1, <1>2, <1>3, <1>6 DEF HeldInv
<1>9. UnheldRunsAreAborted'
  BY <1>1, <1>2, <1>6 DEF TuiInv, UnheldRunsAreAborted, NoRun, Runs
<1>10. CleanInv'
  <2>1. SUFFICES ASSUME ~tuiCut
                 PROVE  CleanInv'
    BY <1>1 DEF CleanInv
  <2>2. /\ \A r \in Runs : r < begun => engine[r].pc = "over"
        /\ engine[begun].pc = "over" /\ \A i \in 1..Len(bus) : ~OfRun(bus[i])
    BY <1>1, <2>1 DEF TuiInv, CleanInv
  <2>3. \A r \in Runs : r < begun + 1 => engine'[r].pc = "over"
    BY <1>2, <1>3, <1>6, <2>2
  <2>4. \A i \in 1..Len(bus) : bus[i].kind # "row" /\ ~EndOfRun(bus[i])
    BY <2>2 DEF OfRun, EndOfRun
  <2>5. RowsOn(bus) = 0
    BY <2>4, NoRowsOn DEF TuiInv, TuiTypeOK
  <2>6. Len(results') = 0 /\ RowsPerRun \in Nat /\ engine'[begun + 1].left = RowsPerRun
    BY <1>1, <1>2, <1>3, <1>4, <1>6, EmptySeq, TuiAssumption
  <2>7. Len(results') + overflow' + RowsOn(bus') + engine'[begun'].left = RowsPerRun
    BY <1>1, <2>5, <2>6
  <2> QED
    BY <1>1, <2>2, <2>3, <2>4, <2>6, <2>7 DEF CleanInv
<1> QED
  BY <1>7, <1>8, <1>9, <1>10 DEF TuiInv
-----------------------------------------------------------------------------
(* The engines.                                                              *)

\* A run that is at work is the newest one, if none was cancelled, and its end is not out.
LEMMA OnlyTheNewestRuns ==
    ASSUME TuiInv, ~tuiCut, NEW r \in Runs, engine[r].pc \in Finding
    PROVE  /\ r = begun /\ screen # "done"
           /\ \A i \in 1..Len(bus) : ~EndOfRun(bus[i])
<1>1. begun \in Runs /\ \A n \in Runs : n \in Nat
  BY DEF TuiInv, TuiTypeOK, Runs
<1>2. r = begun
  BY <1>1 DEF TuiInv, HeldInv, CleanInv, Finding
<1> QED
  BY <1>2 DEF TuiInv, CleanInv, Finding

\* The state of one engine changes.
LEMMA EngineTyped ==
    ASSUME TuiInv, NEW r \in Runs, NEW e \in EngineStates, engine' = [engine EXCEPT ![r] = e],
           engine[r].pc \in Finding, e.pc \in Finding \cup {"over"}, e.doomed = engine[r].doomed,
           AppSame, bus' \in Seq(Events), Len(bus') <= BusCapacity
    PROVE  /\ TuiTypeOK' /\ HeldInv' /\ UnheldRunsAreAborted'
           /\ engine'[r] = e /\ \A n \in Runs : n # r => engine'[n] = engine[n]
<1>1. engine \in [Runs -> EngineStates]
  BY DEF TuiInv, TuiTypeOK, EngineStates
<1>2. engine' \in [Runs -> EngineStates] /\ engine'[r] = e /\ \A n \in Runs : n # r => engine'[n] = engine[n]
  BY <1>1
<1>3. TuiTypeOK'
  BY <1>2 DEF TuiInv, TuiTypeOK, EngineStates, AppSame, overlays, outcome
<1>4. HeldInv'
  BY <1>2 DEF TuiInv, HeldInv, AppSame, Finding
<1>5. UnheldRunsAreAborted'
  BY <1>2 DEF TuiInv, UnheldRunsAreAborted, AppSame, Finding
<1> QED
  BY <1>2, <1>3, <1>4, <1>5

\* An engine goes on, or ends, without a word.
LEMMA SilentKeeps ==
    ASSUME TuiInv, NEW r \in Runs, NEW e \in EngineStates, engine' = [engine EXCEPT ![r] = e],
           engine[r].pc \in Finding, e.pc \in Finding \cup {"over"}, e.doomed = engine[r].doomed,
           e.left = engine[r].left, AppSame, UNCHANGED bus
    PROVE  TuiInv'
<1>1. bus' \in Seq(Events) /\ Len(bus') <= BusCapacity
  BY DEF TuiInv, TuiTypeOK
<1>2. /\ TuiTypeOK' /\ HeldInv' /\ UnheldRunsAreAborted'
      /\ engine'[r] = e /\ \A n \in Runs : n # r => engine'[n] = engine[n]
  BY <1>1, EngineTyped
<1>3. CleanInv'
  <2>1. SUFFICES ASSUME ~tuiCut
                 PROVE  CleanInv'
    BY DEF CleanInv, AppSame
  <2>2. r = begun /\ screen # "done" /\ (\A i \in 1..Len(bus) : ~EndOfRun(bus[i])) /\ begun \in Runs
    BY <2>1, OnlyTheNewestRuns
  <2>3. \A n \in Runs : n < begun => engine'[n] = engine[n]
    BY <1>2, <2>2 DEF Runs
  <2> QED
    BY <1>2, <2>1, <2>2, <2>3 DEF TuiInv, CleanInv, AppSame, outcome
<1> QED
  BY <1>2, <1>3 DEF TuiInv

\* A run emits a row, or its end, after all its rows.
LEMMA SpeakingKeeps ==
    ASSUME TuiInv, NEW r \in Runs, NEW e \in EngineStates, engine' = [engine EXCEPT ![r] = e],
           engine[r].pc \in Finding, e.doomed = engine[r].doomed, AppSame,
           NEW kind \in {"row", "finished", "error"}, Sends(kind, r),
           IF kind = "row" THEN e.pc = engine[r].pc /\ engine[r].left = e.left + 1
           ELSE e.pc = "over" /\ e.left = engine[r].left
    PROVE  TuiInv'
<1> DEFINE event == [kind |-> kind, run |-> r]
<1>1. event \in Events /\ event.kind = kind /\ event.run = r
  BY DEF Events
<1> HIDE DEF event
<1>2. bus \in Seq(Events) /\ Len(bus) < BusCapacity /\ bus' = Append(bus, event) /\ BusCapacity \in Nat
  BY TuiAssumption DEF TuiInv, TuiTypeOK, Sends, event
<1>3. /\ bus' \in Seq(Events) /\ Len(bus) \in Nat /\ Len(bus') = Len(bus) + 1 /\ bus'[Len(bus) + 1] = event
      /\ \A i \in 1..Len(bus) : bus'[i] = bus[i]
  BY <1>1, <1>2, AppendProperties, LenProperties
<1>4. /\ TuiTypeOK' /\ HeldInv' /\ UnheldRunsAreAborted'
      /\ engine'[r] = e /\ \A n \in Runs : n # r => engine'[n] = engine[n]
  <2>1. e.pc \in Finding \cup {"over"} /\ Len(bus') <= BusCapacity
    BY <1>2, <1>3
  <2> QED
    BY <1>3, <2>1, EngineTyped
<1>5. CleanInv'
  <2>1. SUFFICES ASSUME ~tuiCut
                 PROVE  CleanInv'
    BY DEF CleanInv, AppSame
  <2>2. r = begun /\ screen # "done" /\ (\A i \in 1..Len(bus) : ~EndOfRun(bus[i])) /\ begun \in Runs
    BY <2>1, OnlyTheNewestRuns
  <2>3. \A n \in Runs : n < begun => engine'[n] = engine[n]
    BY <1>4, <2>2 DEF Runs
  <2>4. \A i \in 1..Len(bus') : i \in 1..Len(bus) \/ i = Len(bus) + 1
    BY <1>3
  <2>5. \A i \in 1..Len(bus') : OfRun(bus'[i]) => bus'[i].run = begun
    BY <1>1, <1>3, <2>1, <2>2, <2>4 DEF TuiInv, CleanInv
  <2>6. \A i \in 1..Len(bus') : EndOfRun(bus'[i]) => i = Len(bus) + 1 /\ kind # "row"
    BY <1>1, <1>3, <2>2, <2>4 DEF EndOfRun
  <2>7. \A i \in 1..Len(bus') : EndOfRun(bus'[i]) =>
            engine'[begun].pc = "over" /\ \A j \in 1..Len(bus') : j > i => ~OfRun(bus'[j])
    BY <1>3, <1>4, <2>2, <2>4, <2>6
  <2>8. Len(results) + overflow + RowsOn(bus') + engine'[begun].left = RowsPerRun
    <3>1. RowsOn(bus') = RowsOn(bus) + (IF kind = "row" THEN 1 ELSE 0) /\ RowsOn(bus) \in Nat
      BY <1>1, <1>2, RowsOnAppend, RowsOnType
    <3>2. Len(results) + overflow + RowsOn(bus) + engine[begun].left = RowsPerRun
      BY <2>1 DEF TuiInv, CleanInv
    <3>3. Len(results) \in Nat /\ overflow \in Nat /\ e.left \in Nat /\ engine[begun].left \in Nat
      BY <2>2, LenProperties, TuiAssumption DEF TuiInv, TuiTypeOK, EngineStates
    <3> QED
      BY <1>4, <2>2, <3>1, <3>2, <3>3
  <2> QED
    BY <1>4, <2>1, <2>2, <2>3, <2>5, <2>7, <2>8 DEF TuiInv, CleanInv, AppSame, outcome
<1> QED
  BY <1>4, <1>5 DEF TuiInv

\* Every step of an engine.
LEMMA EngineKeeps ==
    ASSUME TuiInv, NEW r \in Runs, EngineStep(r)
    PROVE  TuiInv'
<1>1. engine \in [Runs -> EngineStates] /\ engine[r] \in EngineStates
  BY DEF TuiInv, TuiTypeOK, EngineStates
<1>2. ASSUME NEW pc \in Finding \cup {"over"}
      PROVE  /\ [engine[r] EXCEPT !.pc = pc] \in EngineStates
             /\ [engine[r] EXCEPT !.pc = pc].pc = pc
             /\ [engine[r] EXCEPT !.pc = pc].left = engine[r].left
             /\ [engine[r] EXCEPT !.pc = pc].doomed = engine[r].doomed
  BY <1>1 DEF EngineStates
<1>3. ASSUME NEW pc \in Finding \cup {"over"}, EngineTo(r, pc), engine[r].pc \in Finding, AppSame, UNCHANGED bus
      PROVE  TuiInv'
  <2> DEFINE e == [engine[r] EXCEPT !.pc = pc]
  <2>1. engine' = [engine EXCEPT ![r] = e]
    BY <1>3 DEF EngineTo
  <2>2. e \in EngineStates /\ e.pc = pc /\ e.left = engine[r].left /\ e.doomed = engine[r].doomed
    BY <1>2
  <2> HIDE DEF e
  <2> QED
    BY <1>3, <2>1, <2>2, SilentKeeps
<1>4. CASE EngineStarts(r) \/ EngineStops(r)
  BY <1>3, <1>4 DEF EngineStarts, EngineStops, Finding
<1>5. CASE EnginePassEnds(r)
  <2>1. CASE engine' = [engine EXCEPT ![r] = [engine[r] EXCEPT !.pc = "pass2", !.paused = FALSE]]
    <3> DEFINE e == [engine[r] EXCEPT !.pc = "pass2", !.paused = FALSE]
    <3>1. e \in EngineStates /\ e.pc = "pass2" /\ e.left = engine[r].left /\ e.doomed = engine[r].doomed
      BY <1>1 DEF EngineStates, Finding
    <3>2. engine[r].pc \in Finding /\ "pass2" \in Finding /\ AppSame /\ UNCHANGED bus
      BY <1>5 DEF EnginePassEnds, Finding
    <3> HIDE DEF e
    <3> QED
      BY <2>1, <3>1, <3>2, SilentKeeps DEF e
  <2>2. CASE EngineTo(r, "failing") \/ EngineTo(r, "ending")
    BY <1>3, <1>5, <2>2 DEF EnginePassEnds, Finding
  <2> QED
    BY <1>5, <2>1, <2>2 DEF EnginePassEnds
<1>6. CASE EngineEmits(r)
  <2> DEFINE e == [engine[r] EXCEPT !.left = engine[r].left - 1]
  <2>1. engine[r].left \in 0..RowsPerRun /\ engine[r].left > 0 /\ RowsPerRun \in Nat
    BY <1>1, <1>6, TuiAssumption DEF EngineStates, EngineEmits
  <2>2. engine[r].left - 1 \in 0..RowsPerRun /\ engine[r].left = (engine[r].left - 1) + 1
    BY <2>1
  <2>3. /\ e \in EngineStates /\ e.pc = engine[r].pc /\ engine[r].left = e.left + 1
        /\ e.doomed = engine[r].doomed
    BY <1>1, <2>2 DEF EngineStates
  <2>4. engine' = [engine EXCEPT ![r] = e] /\ engine[r].pc \in Finding /\ AppSame /\ Sends("row", r)
    BY <1>6 DEF EngineEmits, Finding
  <2> HIDE DEF e
  <2> QED
    BY <2>3, <2>4, SpeakingKeeps
<1>7. CASE EngineEnds(r)
  <2> DEFINE e == [engine[r] EXCEPT !.pc = "over"]
  <2>1. e \in EngineStates /\ e.pc = "over" /\ e.left = engine[r].left /\ e.doomed = engine[r].doomed
    BY <1>2
  <2>2. /\ engine' = [engine EXCEPT ![r] = e] /\ engine[r].pc \in Finding /\ AppSame
        /\ Sends("finished", r) \/ Sends("error", r)
    BY <1>7 DEF EngineEnds, EngineTo, Finding
  <2> HIDE DEF e
  <2> QED
    BY <2>1, <2>2, SpeakingKeeps
<1> QED
  BY <1>4, <1>5, <1>6, <1>7 DEF EngineStep
-----------------------------------------------------------------------------
(* The bus.                                                                  *)

\* The loop takes the oldest event.
LEMMA ReceivesKeeps ==
    ASSUME TuiInv, Receives
    PROVE  TuiInv'
<1> DEFINE event == Head(bus)
           rest == Tail(bus)
<1>1. ~quit /\ bus # <<>> /\ bus' = rest /\ UNCHANGED <<begun, overlays, exports, quit, pressed, tuiCut>>
      /\ \/ TakesRow(event) \/ TakesEnd(event)
         \/ event.kind = "exported" /\ UNCHANGED <<outcome, run, engine, screen>>
  BY DEF Receives
<1>2. /\ bus \in Seq(Events) /\ Len(bus) \in Nat \ {0} /\ event = bus[1] /\ event \in Events
      /\ rest \in Seq(Events) /\ Len(rest) = Len(bus) - 1
      /\ \A i \in 1..Len(rest) : rest[i] = bus[i + 1] /\ i + 1 \in 1..Len(bus) /\ i + 1 > 1 /\ 1 \in 1..Len(bus)
      /\ RowsOn(bus) = RowsOn(rest) + (IF event.kind = "row" THEN 1 ELSE 0)
      /\ RowsOn(rest) \in Nat
  <2>1. bus \in Seq(Events) /\ bus # <<>>
    BY <1>1 DEF TuiInv, TuiTypeOK
  <2>2. /\ Len(bus) \in Nat \ {0} /\ event = bus[1] /\ event \in Events
        /\ rest \in Seq(Events) /\ Len(rest) = Len(bus) - 1
        /\ \A i \in 1..Len(rest) : rest[i] = bus[i + 1]
    BY <2>1, HeadTailProperties, LenProperties, EmptySeq
  <2>3. RowsOn(bus) = RowsOn(rest) + (IF event.kind = "row" THEN 1 ELSE 0) /\ RowsOn(rest) \in Nat
    BY <2>1, <2>2, RowsOnTail, RowsOnType
  <2> QED
    BY <2>1, <2>2, <2>3
<1>3. /\ begun \in Runs /\ engine \in [Runs -> EngineStates] /\ engine[begun].left \in Nat
      /\ results \in Seq(Runs) /\ Len(results) \in Nat /\ overflow \in Nat /\ BusCapacity \in Nat
      /\ Len(bus) <= BusCapacity
  BY LenProperties, TuiAssumption DEF TuiInv, TuiTypeOK, EngineStates
<1> HIDE DEF event, rest
\* What is said of the events left on the bus.
<1>4. ASSUME ~tuiCut
      PROVE  /\ \A i \in 1..Len(rest) : OfRun(rest[i]) => rest[i].run = begun
             /\ \A i \in 1..Len(rest) : EndOfRun(rest[i]) =>
                    engine[begun].pc = "over" /\ \A j \in 1..Len(rest) : j > i => ~OfRun(rest[j])
             /\ OfRun(event) => event.run = begun
             /\ EndOfRun(event) => engine[begun].pc = "over" /\ \A j \in 1..Len(rest) : ~OfRun(rest[j])
             /\ screen = "done" => ~OfRun(event) /\ \A j \in 1..Len(rest) : ~OfRun(rest[j])
  <2>1. /\ \A i \in 1..Len(bus) : OfRun(bus[i]) => bus[i].run = begun
        /\ \A i \in 1..Len(bus) : EndOfRun(bus[i]) =>
               engine[begun].pc = "over" /\ \A j \in 1..Len(bus) : j > i => ~OfRun(bus[j])
        /\ screen = "done" => \A i \in 1..Len(bus) : ~OfRun(bus[i])
    BY <1>4 DEF TuiInv, CleanInv
  <2>2. \A i, j \in 1..Len(rest) : j > i => j + 1 > i + 1
    OBVIOUS
  <2>3. 1 \in 1..Len(bus)
    BY <1>2
  <2> QED
    BY <1>2, <2>1, <2>2, <2>3
<1>5. CASE TakesEnd(event)
  <2>1. /\ EndOfRun(event) /\ run' = NoRun /\ engine' = Doomed(run) /\ screen' = "done"
        /\ summary' = (IF event.kind = "finished" THEN event.run ELSE summary)
        /\ UNCHANGED <<results, overflow>>
    BY <1>5 DEF TakesEnd, EndOfRun
  <2>2. /\ engine' \in [Runs -> EngineStates]
        /\ \A r \in Runs : engine'[r].pc = engine[r].pc /\ engine'[r].left = engine[r].left
    BY <2>1, DoomedFacts DEF EngineStates
  <2>3. TuiTypeOK'
    BY <1>1, <1>2, <1>3, <2>1, <2>2 DEF TuiInv, TuiTypeOK, EngineStates, overlays, Events
  <2>4. HeldInv' /\ UnheldRunsAreAborted'
    BY <1>1, <2>1, <2>2, DoomedFacts DEF TuiInv, HeldInv, UnheldRunsAreAborted, NoRun, Finding
  <2>5. CleanInv'
    <3>1. SUFFICES ASSUME ~tuiCut
                   PROVE  CleanInv'
      BY <1>1 DEF CleanInv
    <3>2. event.kind # "row" /\ OfRun(event)
      BY <2>1 DEF EndOfRun, OfRun
    <3>3. RowsOn(rest) = RowsOn(bus)
      BY <1>2, <3>2
    <3> QED
      BY <1>1, <1>3, <1>4, <2>1, <2>2, <3>1, <3>2, <3>3 DEF TuiInv, CleanInv
  <2> QED
    BY <2>3, <2>4, <2>5 DEF TuiInv
<1>6. CASE TakesRow(event)
  <2>1. /\ event.kind = "row" /\ UNCHANGED <<run, engine, screen, summary>>
        /\ \/ results' = Append(results, event.run) /\ overflow' = overflow
           \/ overflow' = overflow + 1 /\ results' = results
    BY <1>6 DEF TakesRow
  <2>2. OfRun(event)
    BY <2>1 DEF OfRun
  <2>3. ~quit /\ HeldInv' /\ UnheldRunsAreAborted'
    BY <1>1, <2>1 DEF TuiInv, HeldInv, UnheldRunsAreAborted
  <2>4. ASSUME event.run \in Runs
        PROVE  /\ results' \in Seq(Runs) /\ overflow' \in Nat
               /\ Len(results') + overflow' = Len(results) + overflow + 1
               /\ \A i \in 1..Len(results') : results'[i] = event.run \/ (i \in 1..Len(results) /\ results'[i] = results[i])
    <3>1. CASE results' = Append(results, event.run) /\ overflow' = overflow
      <4> DEFINE x == event.run
      <4> HIDE DEF x
      <4>1. /\ Append(results, x) \in Seq(Runs) /\ Len(Append(results, x)) = Len(results) + 1
            /\ Append(results, x)[Len(results) + 1] = x
            /\ \A i \in 1..Len(results) : Append(results, x)[i] = results[i]
        BY <1>3, <2>4, AppendProperties DEF x
      <4>2. \A i \in 1..(Len(results) + 1) : i \in 1..Len(results) \/ i = Len(results) + 1
        BY <1>3
      <4> QED
        BY <1>3, <3>1, <4>1, <4>2 DEF x
    <3>2. CASE overflow' = overflow + 1 /\ results' = results
      BY <1>3, <3>2
    <3> QED
      BY <2>1, <3>1, <3>2
  <2>5. event.run \in Runs
    BY <1>2, <2>1 DEF Events
  <2>6. TuiTypeOK'
    BY <1>1, <1>2, <1>3, <2>1, <2>4, <2>5 DEF TuiInv, TuiTypeOK, overlays
  <2>7. CleanInv'
    <3>1. SUFFICES ASSUME ~tuiCut
                   PROVE  CleanInv'
      BY <1>1 DEF CleanInv
    <3>2. screen # "done" /\ event.run = begun
      BY <1>4, <2>2, <3>1
    <3>3. Len(results') + overflow' + RowsOn(rest) + engine[begun].left = RowsPerRun
      <4>1. Len(results) + overflow + RowsOn(bus) + engine[begun].left = RowsPerRun
        BY <3>1 DEF TuiInv, CleanInv
      <4>2. Len(results') \in Nat /\ overflow' \in Nat
        BY <2>4, <2>5, LenProperties
      <4> QED
        BY <1>2, <1>3, <2>1, <2>4, <2>5, <4>1, <4>2
    <3> QED
      BY <1>1, <1>4, <2>1, <2>4, <2>5, <3>1, <3>2, <3>3 DEF TuiInv, CleanInv
  <2> QED
    BY <2>3, <2>6, <2>7 DEF TuiInv
<1>7. CASE event.kind = "exported" /\ UNCHANGED <<outcome, run, engine, screen>>
  <2>1. TuiTypeOK'
    BY <1>1, <1>2, <1>3, <1>7 DEF TuiInv, TuiTypeOK, overlays, outcome
  <2>2. HeldInv' /\ UnheldRunsAreAborted'
    BY <1>1, <1>7 DEF TuiInv, HeldInv, UnheldRunsAreAborted
  <2>3. CleanInv'
    <3>1. SUFFICES ASSUME ~tuiCut
                   PROVE  CleanInv'
      BY <1>1 DEF CleanInv
    <3>2. RowsOn(rest) = RowsOn(bus)
      BY <1>2, <1>7
    <3> QED
      BY <1>1, <1>4, <1>7, <3>1, <3>2 DEF TuiInv, CleanInv, outcome
  <2> QED
    BY <2>1, <2>2, <2>3 DEF TuiInv
<1> QED
  BY <1>1, <1>5, <1>6, <1>7

\* The report of an export goes on the bus like any event.
LEMMA ExportEndsKeeps ==
    ASSUME TuiInv, ExportEnds
    PROVE  TuiInv'
<1> DEFINE event == [kind |-> "exported", run |-> NoRun]
<1>1. event \in Events /\ event.kind = "exported"
  BY DEF Events
<1>2. /\ exports > 0 /\ exports' = exports - 1 /\ bus' = Append(bus, event) /\ Len(bus) < BusCapacity
      /\ UNCHANGED <<screen, run, begun, engine, overlays, outcome, quit, pressed, tuiCut>>
  BY DEF ExportEnds, Sends
<1> HIDE DEF event
<1>3. bus \in Seq(Events) /\ exports \in 0..MaxExports /\ MaxExports \in Nat /\ BusCapacity \in Nat
  BY TuiAssumption DEF TuiInv, TuiTypeOK
<1>4. /\ bus' \in Seq(Events) /\ Len(bus) \in Nat /\ Len(bus') = Len(bus) + 1 /\ bus'[Len(bus) + 1] = event
      /\ \A i \in 1..Len(bus) : bus'[i] = bus[i]
      /\ RowsOn(bus') = RowsOn(bus)
  <2>1. RowsOn(bus') = RowsOn(bus) + 0 /\ RowsOn(bus) \in Nat
    BY <1>1, <1>2, <1>3, RowsOnAppend, RowsOnType
  <2> QED
    BY <1>1, <1>2, <1>3, <2>1, AppendProperties, LenProperties
<1>5. \A i \in 1..Len(bus') : i \in 1..Len(bus) \/ i = Len(bus) + 1
  BY <1>4
<1>6. TuiTypeOK'
  <2>1. exports' \in 0..MaxExports /\ Len(bus') <= BusCapacity
    BY <1>2, <1>3, <1>4
  <2> QED
    BY <1>2, <1>4, <2>1 DEF TuiInv, TuiTypeOK, overlays, outcome
<1>7. HeldInv' /\ UnheldRunsAreAborted'
  BY <1>2 DEF TuiInv, HeldInv, UnheldRunsAreAborted
<1>8. CleanInv'
  <2>1. SUFFICES ASSUME ~tuiCut
                 PROVE  CleanInv'
    BY <1>2 DEF CleanInv
  <2>2. \A i \in 1..Len(bus') : OfRun(bus'[i]) => i \in 1..Len(bus) /\ bus'[i] = bus[i]
    BY <1>1, <1>4, <1>5 DEF OfRun
  <2>3. \A i \in 1..Len(bus') : EndOfRun(bus'[i]) => OfRun(bus'[i])
    BY DEF OfRun, EndOfRun
  <2>4. /\ \A i \in 1..Len(bus) : OfRun(bus[i]) => bus[i].run = begun
        /\ \A i \in 1..Len(bus) : EndOfRun(bus[i]) =>
               engine[begun].pc = "over" /\ \A j \in 1..Len(bus) : j > i => ~OfRun(bus[j])
        /\ screen = "done" => engine[begun].pc = "over" /\ \A i \in 1..Len(bus) : ~OfRun(bus[i])
    BY <2>1 DEF TuiInv, CleanInv
  <2>5. /\ \A i \in 1..Len(bus') : OfRun(bus'[i]) => bus'[i].run = begun
        /\ \A i \in 1..Len(bus') : EndOfRun(bus'[i]) =>
               engine[begun].pc = "over" /\ \A j \in 1..Len(bus') : j > i => ~OfRun(bus'[j])
        /\ screen = "done" => engine[begun].pc = "over" /\ \A i \in 1..Len(bus') : ~OfRun(bus'[i])
    BY <2>2, <2>3, <2>4
  <2> QED
    BY <1>2, <1>4, <2>1, <2>5 DEF TuiInv, CleanInv, outcome
<1> QED
  BY <1>6, <1>7, <1>8 DEF TuiInv
-----------------------------------------------------------------------------
(* The theorems.                                                             *)

\* The screen starts with the first run, which has everything to find.
LEMMA TuiInitially == TuiInit => TuiInv
<1> SUFFICES ASSUME TuiInit
             PROVE  TuiInv
  OBVIOUS
<1>1. /\ screen = "running" /\ run = 1 /\ begun = 1
      /\ bus = <<>> /\ results = <<>> /\ overflow = 0
      /\ input = "none" /\ confirm = "none" /\ help = FALSE
      /\ exports = 0 /\ summary = NoRun /\ quit = FALSE /\ pressed = 0 /\ tuiCut = FALSE
      /\ engine = [r \in Runs |-> [pc |-> IF r = 1 THEN "preparing" ELSE "off",
                                   left |-> RowsPerRun, paused |-> FALSE, doomed |-> FALSE]]
  BY DEF TuiInit
<1>2. 1 \in Runs /\ (\A r \in Runs : r \in Nat \ {0}) /\ RowsPerRun \in Nat /\ MaxExports \in Nat /\ BusCapacity \in Nat
  BY TuiAssumption DEF Runs
<1>3. /\ engine \in [Runs -> EngineStates] /\ engine[1].pc = "preparing"
      /\ \A r \in Runs : engine[r].left = RowsPerRun /\ (r # 1 => engine[r].pc = "off")
  BY <1>1, <1>2 DEF EngineStates, Finding
<1>4. <<>> \in Seq(Events) /\ <<>> \in Seq(Runs) /\ Len(<<>>) = 0
  BY EmptySeq
<1>5. TuiTypeOK
  <2>1. bus \in Seq(Events) /\ Len(bus) <= BusCapacity /\ results \in Seq(Runs)
    BY <1>1, <1>2, <1>4
  <2>2. AppTyped
    <3>1. help \in BOOLEAN
      BY <1>1, Zenon
    <3>2. pressed \in 0..2 /\ exports \in 0..MaxExports
      BY <1>1, <1>2
    <3> QED
      BY <1>1, <3>1, <3>2 DEF AppTyped
  <2> QED
    BY <1>1, <1>2, <1>3, <2>1, <2>2 DEF TuiTypeOK, EngineStates, AppTyped
<1>6. HeldInv /\ UnheldRunsAreAborted
  BY <1>1, <1>2, <1>3 DEF HeldInv, UnheldRunsAreAborted, Finding
<1>7. CleanInv
  <2>1. RowsOn(bus) = 0 /\ Len(bus) = 0 /\ Len(results) = 0
    <3>1. bus \in Seq(Events) /\ Len(bus) = 0 /\ Len(results) = 0
      BY <1>1, <1>4
    <3>2. \A i \in 1..Len(bus) : bus[i].kind # "row"
      BY <3>1
    <3> QED
      BY <3>1, <3>2, NoRowsOn
  <2> QED
    BY <1>1, <1>2, <1>3, <2>1 DEF CleanInv
<1> QED
  BY <1>5, <1>6, <1>7 DEF TuiInv

\* Every step keeps the invariant.
LEMMA TuiStepKeeps == TuiInv /\ [TuiNext]_tuiVars => TuiInv'
<1> SUFFICES ASSUME TuiInv, [TuiNext]_tuiVars
             PROVE  TuiInv'
  OBVIOUS
<1>1. CASE ~quit /\ Key
  BY <1>1, CtrlCKeeps, OverlaysKeep, LeavingKeeps, PausingKeeps, RerunKeeps DEF Key
<1>2. CASE ~quit /\ Terminated
  BY <1>2, LeavingKeeps
<1>3. CASE Receives
  BY <1>3, ReceivesKeeps
<1>4. CASE ExportEnds
  BY <1>4, ExportEndsKeeps
<1>5. ASSUME NEW r \in Runs, EngineStep(r)
      PROVE  TuiInv'
  BY <1>5, EngineKeeps
<1>6. CASE UNCHANGED tuiVars
  <2>1. AppTyped' /\ UNCHANGED <<screen, run, begun, engine, bus, outcome, quit, tuiCut>>
    BY <1>6, AppStateTyped DEF tuiVars, overlays, AppTyped
  <2> QED
    BY <2>1, KeysKeep
<1> QED
  BY <1>1, <1>2, <1>3, <1>4, <1>5, <1>6 DEF TuiNext

\* The invariant of the screen: the run it holds, and the events of the newest run alone.
THEOREM TuiInvariant == TuiSpec => []TuiInv
BY TuiInitially, TuiStepKeeps, PTL DEF TuiSpec

\* The state of the screen has its types, the bus within its capacity.
THEOREM TuiTypes == TuiSpec => []TuiTypeOK
<1>1. TuiInv => TuiTypeOK
  BY DEF TuiInv
<1> QED
  BY <1>1, TuiInvariant, PTL

\* No run goes on that the app neither holds nor has aborted.
THEOREM NoRunUnattended == TuiSpec => []UnheldRunsAreAborted
<1>1. TuiInv => UnheldRunsAreAborted
  BY DEF TuiInv
<1> QED
  BY <1>1, TuiInvariant, PTL

\* Without a cancelled run, the screen shows the newest run only, and no row of it twice.
THEOREM ScreenIsOfTheNewestRun == TuiSpec => []ForeignOnlyAfterCancel
<1>1. TuiInv => ForeignOnlyAfterCancel
  <2> SUFFICES ASSUME TuiInv, ~tuiCut
               PROVE  /\ \A i \in DOMAIN results : results[i] = begun
                      /\ Len(results) + overflow <= RowsPerRun
                      /\ summary \in {NoRun, begun}
    BY DEF ForeignOnlyAfterCancel
  <2>1. /\ Len(results) + overflow + RowsOn(bus) + engine[begun].left = RowsPerRun
        /\ \A i \in 1..Len(results) : results[i] = begun
        /\ summary \in {NoRun, begun}
    BY DEF TuiInv, CleanInv
  <2>2. /\ results \in Seq(Runs) /\ Len(results) \in Nat /\ overflow \in Nat /\ RowsPerRun \in Nat
        /\ RowsOn(bus) \in Nat /\ engine[begun].left \in Nat /\ DOMAIN results = 1..Len(results)
    <3>1. results \in Seq(Runs) /\ overflow \in Nat /\ bus \in Seq(Events) /\ RowsPerRun \in Nat
      BY TuiAssumption DEF TuiInv, TuiTypeOK
    <3>2. begun \in Runs /\ engine \in [Runs -> EngineStates]
      BY DEF TuiInv, TuiTypeOK, EngineStates
    <3>3. engine[begun].left \in Nat
      BY <3>1, <3>2 DEF EngineStates
    <3> QED
      BY <3>1, <3>3, LenProperties, RowsOnType
  <2> QED
    BY <2>1, <2>2
<1> QED
  BY <1>1, TuiInvariant, PTL
-----------------------------------------------------------------------------
(***************************************************************************)
(* What is drawn (module Screen).                                          *)
(***************************************************************************)
\* While a filter is typed, it is still the one the prompt was opened with, or the first row is
\* selected and nothing moves the selection.
PromptInv == \A original \in prompt : view.filter = original \/ (selected = 0 /\ follow = FALSE)

\* The inductive invariant: the prompt remembers a filter only while the selection waits on it.
ScreenInv == ScreenTypeOK /\ FrameMatchesView /\ PromptInv

\* Only the rows of the key map for a prompt have a meaning while one is open.
LEMMA PromptActions ==
    ASSUME NEW i \in DOMAIN Keymap, Keymap[i].scope = "input"
    PROVE  Keymap[i].action # "Rerun"
BY SMTT(90) DEF Keymap, Binding

\* A key that starts the next run has no prompt above it.
LEMMA RerunFromTheList == Does("Rerun") => prompt = {}
<1> DEFINE context(running, prompted, once, counting) ==
                [screen |-> IF running THEN "running" ELSE "done", help |-> FALSE, confirm |-> FALSE,
                 purpose |-> IF prompted THEN {"filter"} ELSE {},
                 pending |-> once, count |-> IF counting THEN {0} ELSE {}]
           actions(c) == UNION {ActionFor(key, context(c[1], c[2], c[3], c[4])) : key \in Keyboard}
<1>1. ASSUME NEW key, NEW r, NEW o, NEW n
      PROVE  "Rerun" \notin ActionFor(key, context(r, TRUE, o, n))
  <2> DEFINE c == context(r, TRUE, o, n)
  <2>1. c.help = FALSE /\ c.confirm = FALSE /\ c.purpose = {"filter"}
    OBVIOUS
  <2> HIDE DEF c
  <2>2. \A i \in DOMAIN Keymap : Applies(Keymap[i].scope, c) => Keymap[i].action # "Rerun"
    BY <2>1, PromptActions DEF Applies
  <2>3. "Rerun" \notin Bound(key, c)
    BY <2>2 DEF Bound, BindingFor
  <2>4. "Rerun" \notin ActionFor(key, c)
    BY <2>1, <2>3 DEF ActionFor
  <2> QED
    BY <2>4 DEF c
<1>2. ASSUME NEW c \in BOOLEAN \X BOOLEAN \X BOOLEAN \X BOOLEAN, "Rerun" \in actions(c)
      PROVE  c[2] = FALSE
  <2>1. PICK key \in Keyboard : "Rerun" \in ActionFor(key, context(c[1], c[2], c[3], c[4]))
    BY <1>2
  <2>2. c[2] \in BOOLEAN
    BY <1>2
  <2>3. CASE c[2] = TRUE
    BY <1>1, <2>1, <2>3
  <2> QED
    BY <2>2, <2>3
<1> HIDE DEF actions
<1>3. SUFFICES ASSUME Does("Rerun"), prompt # {}
               PROVE  FALSE
  OBVIOUS
<1>4. <<<<live, TRUE, pending, count # {}>>, "Rerun">> \in
         UNION {{c} \X actions(c) : c \in BOOLEAN \X BOOLEAN \X BOOLEAN \X BOOLEAN}
  BY <1>3 DEF Does, Meanings, actions
<1>5. PICK c \in BOOLEAN \X BOOLEAN \X BOOLEAN \X BOOLEAN :
          <<<<live, TRUE, pending, count # {}>>, "Rerun">> \in {c} \X actions(c)
  BY <1>4
<1>6. <<live, TRUE, pending, count # {}>> = c /\ "Rerun" \in actions(c)
  BY <1>5
<1>7. c[2] = TRUE
  BY <1>6
<1> QED
  BY <1>2, <1>6, <1>7

\* How many rows are shown, and that more of them have arrived never makes it fewer.
LEMMA ShownRows ==
    ASSUME NEW n \in 0..Len(Arrivals), NEW v
    PROVE  /\ Len(Visible(RowsOf(n), v)) = Cardinality(Passing(RowsOf(n), v.filter))
           /\ Len(Visible(RowsOf(n), v)) \in Nat
           /\ Passing(RowsOf(n), v.filter) \subseteq 1..n /\ IsFiniteSet(Passing(RowsOf(n), v.filter))
           /\ \A i \in 1..n : RowsOf(n)[i] = Arrivals[i]
           /\ DOMAIN RowsOf(n) = 1..n
<1>1. Len(Arrivals) \in Nat /\ \A i \in 1..Len(Arrivals) : Arrivals[i] \in ToSet(Arrivals)
  BY ScreenAssumption, LenProperties, ElementOfSeq
<1>2. n \in Nat /\ \A i \in 1..n : Arrivals[i] \in ToSet(Arrivals)
  BY <1>1
<1> DEFINE r == SubSeq(Arrivals, 1, n)
<1>3. /\ r \in Seq(ToSet(Arrivals)) /\ Len(r) = (IF 1 <= n THEN n - 1 + 1 ELSE 0)
      /\ \A i \in 1..(n - 1 + 1) : r[i] = Arrivals[1 + i - 1]
  <2>1. 1 \in Int /\ n \in Int
    BY <1>2
  <2> QED
    BY <1>2, <2>1, SubSeqProperties
<1> HIDE DEF r
<1>4. DOMAIN r = 1..n /\ \A i \in 1..n : r[i] = Arrivals[i]
  <2>1. Len(r) = n /\ DOMAIN r = 1..Len(r)
    BY <1>2, <1>3, LenProperties
  <2>2. ASSUME NEW i \in 1..n
        PROVE  r[i] = Arrivals[i]
    <3>1. i \in 1..(n - 1 + 1) /\ 1 + i - 1 = i
      BY <1>2
    <3> QED
      BY <1>3, <3>1
  <2> QED
    BY <2>1, <2>2
<1> DEFINE passing == Passing(r, v.filter)
<1>5. passing \subseteq 1..n
  BY <1>4 DEF Passing
<1>6. IsFiniteSet(1..n)
  BY <1>2, FS_Interval
<1>7. IsFiniteSet(passing) /\ Cardinality(passing) \in Nat
  BY <1>5, <1>6, FS_Subset, FS_CardinalityType
<1>8. Len(Visible(r, v)) = Cardinality(passing)
  <2> DEFINE size == Cardinality(passing)
             place(k) == CHOOSE i \in passing : Cardinality({m \in passing : Precedes(v, r, m, i)}) = k - 1
             list == [k \in 1..size |-> place(k)]
             S == {place(k) : k \in 1..size}
  <2>1. Visible(r, v) = list
    BY DEF Visible
  <2>2. size \in Nat
    BY <1>7
  <2> HIDE DEF size, place
  <2>3. list \in [1..size -> S] /\ DOMAIN list = 1..size
    OBVIOUS
  <2> HIDE DEF list, S
  <2>4. list \in Seq(S)
    BY <2>2, <2>3, SeqDef
  <2>5. 1..Len(list) = 1..size /\ Len(list) \in Nat
    BY <2>3, <2>4, LenProperties
  <2>6. Len(list) = size
    BY <2>2, <2>5
  <2> QED
    BY <2>1, <2>6 DEF size
<1> QED
  BY <1>4, <1>5, <1>7, <1>8 DEF RowsOf, r

\* More rows are never fewer on the screen.
LEMMA ShownRowsGrow ==
    ASSUME NEW m \in 0..Len(Arrivals), NEW n \in m..Len(Arrivals), NEW v
    PROVE  Len(Visible(RowsOf(m), v)) <= Len(Visible(RowsOf(n), v))
<1>1. Len(Arrivals) \in Nat
  BY ScreenAssumption, LenProperties
<1>2. n \in 0..Len(Arrivals) /\ m \in Nat /\ n \in Nat /\ m <= n
  BY <1>1
<1>3. Passing(RowsOf(m), v.filter) \subseteq Passing(RowsOf(n), v.filter)
  <2>1. SUFFICES ASSUME NEW i \in Passing(RowsOf(m), v.filter)
                 PROVE  i \in Passing(RowsOf(n), v.filter)
    OBVIOUS
  <2>2. i \in 1..m /\ RowsOf(m)[i] = Arrivals[i]
    BY ShownRows
  <2>3. i \in 1..n
    BY <1>2, <2>2
  <2>4. RowsOf(n)[i] = RowsOf(m)[i] /\ i \in DOMAIN RowsOf(n)
    BY <1>2, <2>2, <2>3, ShownRows
  <2> QED
    BY <2>4 DEF Passing
<1>4. Cardinality(Passing(RowsOf(m), v.filter)) <= Cardinality(Passing(RowsOf(n), v.filter))
  BY <1>2, <1>3, ShownRows, FS_Subset
<1> QED
  BY <1>2, <1>4, ShownRows

\* A list of no rows is the empty one.
LEMMA NoRows ==
    ASSUME NEW n \in 0..Len(Arrivals), NEW v, Len(Visible(RowsOf(n), v)) = 0
    PROVE  Visible(RowsOf(n), v) = <<>>
<1> DEFINE passing == Passing(RowsOf(n), v.filter)
           list == Visible(RowsOf(n), v)
           place(k) == CHOOSE i \in passing : Cardinality({m \in passing : Precedes(v, RowsOf(n), m, i)}) = k - 1
<1>1. Cardinality(passing) = 0
  BY ShownRows
<1>2. list = [k \in 1..0 |-> place(k)]
  BY <1>1 DEF Visible
<1>3. 1..0 = {}
  OBVIOUS
<1> HIDE DEF place
<1>4. list \in [1..0 -> {}] /\ Len(list) = 0
  BY <1>2, <1>3
<1> HIDE DEF list
<1>5. list \in Seq({})
  BY <1>4, SeqDef
<1>6. list = <<>>
  BY <1>4, <1>5, EmptySeq
<1> QED
  BY <1>6 DEF list

\* An empty run shows nothing.
LEMMA NothingShown ==
    ASSUME NEW v
    PROVE  Visible(RowsOf(0), v) = <<>> /\ 0 \in 0..Len(Arrivals)
<1>1. Len(Arrivals) \in Nat
  BY ScreenAssumption, LenProperties
<1>2. 0 \in 0..Len(Arrivals)
  BY <1>1
<1>3. Passing(RowsOf(0), v.filter) = {}
  <2>1. Passing(RowsOf(0), v.filter) \subseteq 1..0
    BY <1>2, ShownRows
  <2>2. 1..0 = {}
    OBVIOUS
  <2> QED
    BY <2>1, <2>2
<1>4. Len(Visible(RowsOf(0), v)) = 0
  <2>1. Len(Visible(RowsOf(0), v)) = Cardinality(Passing(RowsOf(0), v.filter))
    BY <1>2, ShownRows
  <2>2. Cardinality({}) = 0
    BY FS_EmptySet
  <2> QED
    BY <1>3, <2>1, <2>2
<1> QED
  BY <1>2, <1>4, NoRows

\* A place is within the list, or is the first.
Within(place, rows) == place \in Nat /\ place <= rows /\ (place = rows => place = 0)

\* clamp_selection keeps a place within the list.
LEMMA ClampWithin ==
    ASSUME NEW s \in Nat, NEW len \in Nat
    PROVE  Within(ClampSelection(s, len), len) /\ (s = 0 => ClampSelection(s, len) = 0)
BY DEF Within, ClampSelection

\* What the invariant says of the list.
LEMMA ScreenFacts ==
    ASSUME ScreenInv
    PROVE  /\ Len(listed) \in Nat /\ Within(selected, Len(listed)) /\ Len(Arrivals) \in Nat
           /\ arrived \in 0..Len(Arrivals)
           /\ \E n \in 0..arrived : listed = Visible(RowsOf(n), view)
           /\ Len(Visible(RowsOf(arrived), view)) \in Nat
           /\ Len(listed) <= Len(Visible(RowsOf(arrived), view))
<1>1. Len(Arrivals) \in Nat
  BY ScreenAssumption, LenProperties
<1>2. arrived \in 0..Len(Arrivals) /\ selected \in Nat
  BY DEF ScreenInv, ScreenTypeOK
<1>3. PICK n \in 0..arrived : listed = Visible(RowsOf(n), view)
  BY DEF ScreenInv, FrameMatchesView
<1>4. n \in 0..Len(Arrivals) /\ arrived \in n..Len(Arrivals)
  BY <1>1, <1>2
<1>5. Len(listed) \in Nat /\ Len(Visible(RowsOf(arrived), view)) \in Nat
  BY <1>2, <1>3, <1>4, ShownRows
<1>6. Len(listed) <= Len(Visible(RowsOf(arrived), view))
  BY <1>3, <1>4, ShownRowsGrow
<1> QED
  BY <1>1, <1>2, <1>3, <1>5, <1>6 DEF ScreenInv, FrameMatchesView, Within

\* The list is made anew, or stays while rows arrive.
LEMMA ListKeeps ==
    ASSUME ScreenInv, ScreenTypeOK', PromptInv', Within(selected', Len(listed')),
           \/ listed' = Visible(RowsOf(arrived'), view')
           \/ UNCHANGED <<listed, view>> /\ arrived <= arrived'
    PROVE  ScreenInv'
<1>1. arrived \in 0..Len(Arrivals) /\ arrived' \in 0..Len(Arrivals) /\ Len(Arrivals) \in Nat
  BY ScreenFacts DEF ScreenTypeOK
<1>2. \E n \in 0..arrived' : listed' = Visible(RowsOf(n), view')
  <2>1. CASE listed' = Visible(RowsOf(arrived'), view')
    <3>1. arrived' \in 0..arrived'
      BY <1>1
    <3> QED
      BY <2>1, <3>1
  <2>2. CASE UNCHANGED <<listed, view>> /\ arrived <= arrived'
    <3>1. PICK n \in 0..arrived : listed = Visible(RowsOf(n), view)
      BY ScreenFacts
    <3>2. n \in 0..arrived'
      BY <1>1, <2>2
    <3> QED
      BY <2>2, <3>1, <3>2
  <2> QED
    BY <2>1, <2>2
<1>3. FrameMatchesView'
  BY <1>2 DEF FrameMatchesView, Within, RowsOf
<1> QED
  BY <1>3 DEF ScreenInv

\* The keys forget what was typed before them.
LEMMA ForgetsTyped == Forgets => pending' \in BOOLEAN /\ count' \subseteq 0..MaxCount
BY DEF Forgets

\* Rows arrive, the run ends, time passes.
LEMMA EventsKeep ==
    ASSUME ScreenInv, RowArrives \/ RunOver \/ Ticks
    PROVE  ScreenInv'
<1>1. UNCHANGED <<view, prompt, follow, typing, detail>>
  BY DEF RowArrives, RunOver, Ticks
<1>2. CASE RowArrives
  <2>1. arrived' = arrived + 1 /\ arrived < Len(Arrivals) /\ UNCHANGED <<listed, selected, live>>
    BY <1>2 DEF RowArrives
  <2>2. arrived' \in 0..Len(Arrivals) /\ arrived <= arrived'
    BY <2>1, ScreenFacts
  <2>3. ScreenTypeOK' /\ PromptInv'
    BY <1>1, <2>1, <2>2 DEF ScreenInv, ScreenTypeOK, PromptInv, typing
  <2> QED
    BY <1>1, <2>1, <2>2, <2>3, ScreenFacts, ListKeeps
<1>3. CASE RunOver
  <2>1. live' = FALSE /\ UNCHANGED <<arrived, listed, selected>>
    BY <1>3 DEF RunOver
  <2>2. live' \in BOOLEAN
    BY <2>1
  <2>3. ScreenTypeOK' /\ PromptInv'
    BY <1>1, <2>1, <2>2 DEF ScreenInv, ScreenTypeOK, PromptInv, typing
  <2>4. arrived <= arrived'
    BY <2>1, ScreenFacts
  <2> QED
    BY <1>1, <2>1, <2>3, <2>4, ScreenFacts, ListKeeps
<1>4. CASE Ticks
  <2>1. /\ listed' = Visible(RowsOf(arrived), view) /\ UNCHANGED <<arrived, live>>
        /\ selected' = IF follow /\ live /\ listed' # <<>> THEN Len(listed') - 1
                       ELSE ClampSelection(selected, Len(listed'))
    BY <1>4 DEF Ticks
  <2>2. Len(listed') \in Nat /\ (listed' # <<>> => Len(listed') # 0) /\ selected \in Nat
    <3>1. Len(listed') \in Nat /\ (Len(listed') = 0 => listed' = <<>>)
      BY <2>1, ScreenFacts, ShownRows, NoRows
    <3> QED
      BY <3>1 DEF ScreenInv, ScreenTypeOK
  <2>3. Within(selected', Len(listed'))
    <3>1. CASE follow /\ live /\ listed' # <<>>
      BY <2>1, <2>2, <3>1 DEF Within
    <3>2. CASE ~(follow /\ live /\ listed' # <<>>)
      BY <2>1, <2>2, <3>2, ClampWithin
    <3> QED
      BY <3>1, <3>2
  <2>4. follow = FALSE /\ selected = 0 => selected' = 0
    BY <2>1, <2>2, ClampWithin
  <2>5. ScreenTypeOK'
    BY <1>1, <2>1, <2>3 DEF ScreenInv, ScreenTypeOK, Within, typing
  <2>6. PromptInv'
    BY <1>1, <2>4 DEF ScreenInv, PromptInv
  <2> QED
    BY <1>1, <2>1, <2>3, <2>5, <2>6, ListKeeps
<1> QED
  BY <1>2, <1>3, <1>4

\* The list is made anew and the first row selected.
LEMMA TopKeeps ==
    ASSUME ScreenInv, ScreenTypeOK', FromTheTop, Refreshed, arrived' = arrived
    PROVE  ScreenInv'
<1>1. selected' = 0 /\ follow' = FALSE /\ listed' = Visible(RowsOf(arrived'), view')
  BY DEF FromTheTop, Refreshed
<1>2. Len(listed') \in Nat
  BY <1>1, ScreenFacts, ShownRows
<1>3. Within(selected', Len(listed')) /\ PromptInv'
  BY <1>1, <1>2 DEF Within, PromptInv
<1> QED
  BY <1>1, <1>3, ListKeeps

\* The list and the view stay, the selection too.
LEMMA StaysKeeps ==
    ASSUME ScreenInv, ScreenTypeOK', Stays, UNCHANGED <<arrived, view>>, prompt' \in {prompt, {view.filter}}
    PROVE  ScreenInv'
<1>1. selected' = ClampSelection(selected, Len(listed)) /\ UNCHANGED <<listed, follow>>
  BY DEF Stays
<1>2. Within(selected', Len(listed')) /\ (selected = 0 => selected' = 0) /\ arrived <= arrived'
  <2>1. Len(listed) \in Nat /\ selected \in Nat /\ arrived <= arrived
    BY ScreenFacts DEF Within
  <2> QED
    BY <1>1, <2>1, ClampWithin
<1>3. PromptInv'
  BY <1>1, <1>2 DEF ScreenInv, PromptInv
<1> QED
  BY <1>1, <1>2, <1>3, ListKeeps

\* The order and the filter change.
LEMMA OrderKeeps ==
    ASSUME ScreenInv, ChangesOrder \/ ClearsFilter
    PROVE  ScreenInv'
<1>1. Forgets /\ FromTheTop /\ Refreshed /\ UNCHANGED <<arrived, prompt, detail, live>>
  BY DEF ChangesOrder, ClearsFilter
<1>2. /\ view \in [filter : Seq(Typed), sort : ToSet(SortKeys), order : {"asc", "desc"}]
      /\ arrived \in 0..Len(Arrivals) /\ prompt \subseteq Seq(Typed) /\ detail \in BOOLEAN /\ live \in BOOLEAN
  BY DEF ScreenInv, ScreenTypeOK
<1>3. view' \in [filter : Seq(Typed), sort : ToSet(SortKeys), order : {"asc", "desc"}]
  <2>1. <<>> \in Seq(Typed)
    BY EmptySeq
  <2>2. CycleSort(view.sort) \in ToSet(SortKeys)
    <3> DEFINE i == CHOOSE i \in DOMAIN SortKeys : SortKeys[i] = view.sort
    <3>1. \E k \in DOMAIN SortKeys : SortKeys[k] = view.sort
      BY <1>2 DEF ToSet
    <3>2. i \in DOMAIN SortKeys
      BY <3>1
    <3> HIDE DEF i
    <3>3. i \in 1..5 /\ DOMAIN SortKeys = 1..5
      BY <3>2 DEF SortKeys
    <3>4. (i % 5) + 1 \in 1..5
      BY <3>3
    <3>5. SortKeys[(i % 5) + 1] \in ToSet(SortKeys)
      BY <3>3, <3>4 DEF ToSet
    <3> QED
      BY <3>5 DEF CycleSort, i
  <2>3. CASE view' = [view EXCEPT !.sort = CycleSort(@)]
    BY <1>2, <2>2, <2>3
  <2>4. CASE view' = [view EXCEPT !.order = IF @ = "asc" THEN "desc" ELSE "asc"]
    BY <1>2, <2>4
  <2>5. CASE view' = [view EXCEPT !.filter = <<>>]
    BY <1>2, <2>1, <2>5
  <2> QED
    BY <2>3, <2>4, <2>5 DEF ChangesOrder, ClearsFilter
<1>4. selected' = 0 /\ follow' \in BOOLEAN
  BY <1>1 DEF FromTheTop
<1>5. ScreenTypeOK'
  BY <1>1, <1>2, <1>3, <1>4, ForgetsTyped DEF ScreenTypeOK
<1> QED
  BY <1>1, <1>5, TopKeeps

\* The selection moves, or a click sets it.
LEMMA MovesKeep ==
    ASSUME ScreenInv, MovesSelection \/ Clicks
    PROVE  ScreenInv'
<1>1. prompt = {} /\ prompt' = prompt /\ UNCHANGED <<arrived, view, listed, detail, live>>
  BY DEF MovesSelection, Clicks
<1>2. Len(listed) \in Nat /\ selected \in Nat /\ PageRows \in Nat /\ count \subseteq Int /\ count \subseteq 0..MaxCount
      /\ pending \in BOOLEAN
  BY ScreenFacts, ScreenAssumption DEF ScreenInv, ScreenTypeOK, Within
<1>3. CASE MovesSelection
  <2> DEFINE rows == Len(listed)
             goes(to, on) == selected' = ClampSelection(IF to < 0 THEN 0 ELSE to, rows) /\ follow' = on
  <2>1. ASSUME NEW to \in Int, NEW on \in BOOLEAN, goes(to, on)
        PROVE  Within(selected', rows) /\ follow' \in BOOLEAN
    <3>1. (IF to < 0 THEN 0 ELSE to) \in Nat /\ follow' = on
      BY <2>1
    <3>2. Within(selected', rows)
      BY <1>2, <2>1, <3>1, ClampWithin
    <3>3. follow' \in BOOLEAN
      BY <2>1, <3>1, Zenon
    <3> QED
      BY <3>2, <3>3
  <2> HIDE DEF rows
  <2>2. /\ selected - 1 \in Int /\ selected - PageRows \in Int /\ selected + 1 \in Int /\ selected + PageRows \in Int
        /\ rows \in Int /\ rows - 1 \in Int /\ 0 \in Int /\ \A n \in count : n - 1 \in Int
    BY <1>2 DEF rows
  <2>3. \E to \in Int, on \in BOOLEAN : goes(to, on)
    <3>1. CASE goes(selected - 1, FALSE)
      BY <2>2, <3>1, Zenon
    <3>2. CASE goes(selected - PageRows, FALSE)
      BY <2>2, <3>2, Zenon
    <3>3. CASE goes(selected + 1, rows > 0 /\ selected + 1 + 1 >= rows)
      <4>1. (rows > 0 /\ selected + 1 + 1 >= rows) \in BOOLEAN
        OBVIOUS
      <4> QED
        BY <2>2, <3>3, <4>1, Zenon
    <3>4. CASE goes(selected + PageRows, rows > 0 /\ selected + PageRows + 1 >= rows)
      <4>1. (rows > 0 /\ selected + PageRows + 1 >= rows) \in BOOLEAN
        OBVIOUS
      <4> QED
        BY <2>2, <3>4, <4>1, Zenon
    <3>5. CASE goes(0, FALSE)
      BY <2>2, <3>5, Zenon
    <3>6. CASE goes(rows - 1, TRUE)
      BY <2>2, <3>6, Zenon
    <3>7. ASSUME NEW n \in count, goes(n - 1, FALSE)
          PROVE  \E to \in Int, on \in BOOLEAN : goes(to, on)
      BY <2>2, <3>7, Zenon
    <3>8. \/ goes(selected - 1, FALSE) \/ goes(selected - PageRows, FALSE)
          \/ goes(selected + 1, rows > 0 /\ selected + 1 + 1 >= rows)
          \/ goes(selected + PageRows, rows > 0 /\ selected + PageRows + 1 >= rows)
          \/ goes(0, FALSE) \/ goes(rows - 1, TRUE)
          \/ \E n \in count : goes(n - 1, FALSE)
      BY <1>3 DEF MovesSelection, rows
    <3> HIDE DEF goes
    <3> QED
      BY <3>1, <3>2, <3>3, <3>4, <3>5, <3>6, <3>7, <3>8
  <2>4. Within(selected', rows) /\ follow' \in BOOLEAN
    BY <2>1, <2>3
  <2>5. Forgets
    BY <1>3 DEF MovesSelection
  <2>6. ScreenTypeOK' /\ PromptInv' /\ arrived <= arrived'
    BY <1>1, <2>4, <2>5, ForgetsTyped, ScreenFacts DEF ScreenInv, ScreenTypeOK, PromptInv, Within
  <2> QED
    BY <1>1, <2>4, <2>6, ListKeeps DEF rows
<1>4. CASE Clicks
  <2>1. PICK line \in 0..(ScreenHeight - 1) : \E i \in RowAt(line, ScreenHeight, selected, Len(listed)) : selected' = i
    BY <1>4 DEF Clicks
  <2>2. ScreenHeight \in Nat /\ ScreenHeight >= 12
    BY ScreenAssumption DEF MinHeight
  <2> DEFINE from == Window(selected, TableHeight(ScreenHeight), Len(listed)).from
  <2>3. from \in Nat
    <3> DEFINE chosen == ClampSelection(selected, Len(listed))
               height == TableHeight(ScreenHeight)
               first == IF chosen >= height THEN chosen + 1 - height ELSE 0
    <3>1. chosen \in Nat
      BY <1>2, ClampWithin DEF Within
    <3>2. height \in Nat
      BY <2>2 DEF TableHeight
    <3> HIDE DEF chosen, height
    <3>3. first \in Nat
      BY <3>1, <3>2
    <3>4. from \in {0, first}
      BY DEF Window, chosen, height
    <3> QED
      BY <3>3, <3>4
  <2> HIDE DEF from
  <2>4. selected' \in {i \in {from + n - 4 : n \in {line} \cap (4..(ScreenHeight - 2))} : i < Len(listed)}
    BY <2>1 DEF RowAt, from
  <2>5. PICK n \in 4..(ScreenHeight - 2) : selected' = from + n - 4 /\ selected' < Len(listed)
    BY <2>4
  <2>6. Within(selected', Len(listed))
    BY <1>2, <2>2, <2>3, <2>5 DEF Within
  <2>7. follow' \in BOOLEAN /\ UNCHANGED typing
    BY <1>4 DEF Clicks
  <2>8. ScreenTypeOK' /\ PromptInv' /\ arrived <= arrived'
    BY <1>1, <1>2, <2>6, <2>7, ScreenFacts DEF ScreenInv, ScreenTypeOK, PromptInv, Within, typing
  <2> QED
    BY <1>1, <2>6, <2>8, ListKeeps
<1> QED
  BY <1>3, <1>4

\* What is typed and toggled leaves the list alone.
LEMMA TogglesKeep ==
    ASSUME ScreenInv, TypesDigit \/ TypesG \/ TogglesDetail \/ OpensFilter
    PROVE  ScreenInv'
<1>1. Stays /\ UNCHANGED <<arrived, view, live>>
  BY DEF TypesDigit, TypesG, TogglesDetail, OpensFilter
<1>2. /\ view.filter \in Seq(Typed) /\ prompt \subseteq Seq(Typed) /\ MaxCount \in Nat
      /\ count \subseteq 0..MaxCount /\ detail \in BOOLEAN
  BY ScreenAssumption DEF ScreenInv, ScreenTypeOK
<1>3. prompt' \in {prompt, {view.filter}} /\ prompt' \subseteq Seq(Typed)
  BY <1>2 DEF TypesDigit, TypesG, TogglesDetail, OpensFilter
<1>4. detail' \in BOOLEAN
  <2>1. CASE detail' = TRUE \/ detail' = FALSE
    BY <2>1
  <2>2. CASE detail' = ~detail
    BY <2>2
  <2>3. CASE detail' = detail
    BY <1>2, <2>3
  <2> QED
    BY <2>1, <2>2, <2>3 DEF TypesDigit, TypesG, TogglesDetail, OpensFilter
<1>5. pending' \in BOOLEAN /\ count' \subseteq 0..MaxCount
  <2>1. CASE TypesDigit
    <3>1. PICK d \in 0..9 : LET n == d + 10 * (IF count = {} THEN 0 ELSE CHOOSE m \in count : TRUE)
                            IN  n <= MaxCount /\ count' = {n}
      BY <2>1 DEF TypesDigit
    <3> DEFINE k == IF count = {} THEN 0 ELSE CHOOSE m \in count : TRUE
    <3>2. k \in Nat
      <4>1. CASE count = {}
        BY <4>1
      <4>2. CASE count # {}
        <5>1. (CHOOSE m \in count : TRUE) \in count
          BY <4>2
        <5>2. \A m \in count : m \in Nat
          BY <1>2
        <5>3. k = CHOOSE m \in count : TRUE
          BY <4>2
        <5> HIDE DEF k
        <5> QED
          BY <5>1, <5>2, <5>3
      <4> QED
        BY <4>1, <4>2
    <3> HIDE DEF k
    <3>3. d + 10 * k \in 0..MaxCount
      BY <1>2, <3>1, <3>2 DEF k
    <3>4. count' = {d + 10 * k}
      BY <3>1 DEF k
    <3>5. pending' = FALSE
      BY <2>1 DEF TypesDigit
    <3> QED
      BY <3>3, <3>4, <3>5
  <2>2. CASE TypesG
    BY <2>2 DEF TypesG
  <2>3. CASE Forgets
    BY <2>3, ForgetsTyped
  <2> QED
    BY <2>1, <2>2, <2>3 DEF TogglesDetail, OpensFilter
<1>6. selected' \in Nat /\ UNCHANGED follow
  BY <1>1, ScreenFacts, ClampWithin DEF Stays, Within
<1>7. ScreenTypeOK'
  BY <1>1, <1>3, <1>4, <1>5, <1>6 DEF ScreenInv, ScreenTypeOK
<1> QED
  BY <1>1, <1>3, <1>7, StaysKeeps

\* Some numbers have a least one.
LEMMA LeastOne ==
    ASSUME NEW S \in SUBSET Nat, S # {}
    PROVE  \E x \in S : \A y \in S : x <= y
<1> DEFINE R == {pair \in Nat \X Nat : pair[1] < pair[2]}
<1>1. \A x, y \in Nat : <<y, x>> \in R <=> y < x
  OBVIOUS
<1>2. IsWellFoundedOn(R, Nat)
  BY NatLessThanWellFounded DEF OpToRel
<1> HIDE DEF R
<1>3. PICK x \in S : \A y \in S : ~(<<y, x>> \in R)
  BY <1>2, WFMin
<1>4. ASSUME NEW y \in S
      PROVE  x <= y
  <2>1. x \in Nat /\ y \in Nat /\ ~(<<y, x>> \in R)
    BY <1>3
  <2> QED
    BY <1>1, <2>1
<1> QED
  BY <1>4

\* The least and the greatest of some positions are positions.
LEMMA PositionBounds ==
    ASSUME NEW n \in Nat, NEW remaining \in SUBSET (1..n), remaining # {}
    PROVE  Min(remaining) \in remaining /\ Max(remaining) \in remaining
<1>1. Min(remaining) \in remaining
  <2>1. remaining \in SUBSET Nat
    OBVIOUS
  <2>2. \E x \in remaining : \A y \in remaining : x <= y
    BY <2>1, LeastOne
  <2> QED
    BY <2>2 DEF Min
<1>2. Max(remaining) \in remaining
  <2> DEFINE up == {n - k : k \in remaining}
  <2>1. up \in SUBSET Nat /\ up # {}
    <3>1. \A k \in remaining : n - k \in Nat
      OBVIOUS
    <3> QED
      BY <3>1
  <2> HIDE DEF up
  <2>3. PICK x \in up : \A y \in up : x <= y
    BY <2>1, LeastOne
  <2>4. PICK m \in remaining : x = n - m
    BY DEF up
  <2>5. ASSUME NEW k \in remaining
        PROVE  k <= m
    <3>1. n - k \in up /\ k \in 1..n /\ m \in 1..n
      BY DEF up
    <3>2. x <= n - k
      BY <2>3, <3>1
    <3> QED
      BY <2>4, <3>1, <3>2
  <2>6. \E k \in remaining : \A y \in remaining : k >= y
    <3>1. \A y \in remaining : m >= y
      BY <2>5
    <3> QED
      BY <3>1
  <2> QED
    BY <2>6 DEF Max
<1> QED
  BY <1>1, <1>2

\* What is left of a filter is a filter.
LEMMA TrimmedType ==
    ASSUME NEW text \in Seq(Typed)
    PROVE  Trimmed(text) \in Seq(Typed)
<1> DEFINE remaining == {i \in DOMAIN text : text[i][1] # " "}
<1>1. Len(text) \in Nat /\ remaining \subseteq 1..Len(text)
  BY LenProperties
<1>2. CASE remaining = {}
  BY <1>2, EmptySeq DEF Trimmed
<1>3. CASE remaining # {}
  <2>1. Min(remaining) \in 1..Len(text) /\ Max(remaining) \in 1..Len(text)
    BY <1>1, <1>3, PositionBounds
  <2> DEFINE a == Min(remaining)
             b == Max(remaining)
  <2>5. a \in 1..Len(text) /\ b \in 1..Len(text)
    BY <2>1
  <2>3. Trimmed(text) = SubSeq(text, a, b)
    BY <1>3 DEF Trimmed
  <2> HIDE DEF a, b, remaining
  <2>2. a \in Int /\ b \in Int /\ \A i \in a..b : i \in 1..Len(text)
    BY <1>1, <2>5
  <2>4. \A i \in a..b : text[i] \in Typed
    BY <2>2, ElementOfSeq
  <2> QED
    BY <2>2, <2>3, <2>4, SubSeqProperties
<1> QED
  BY <1>2, <1>3

\* The filter is typed, submitted or left.
LEMMA FilterKeeps ==
    ASSUME ScreenInv, TypesFilter \/ SubmitsFilter \/ LeavesFilter
    PROVE  ScreenInv'
<1>1. /\ view \in [filter : Seq(Typed), sort : ToSet(SortKeys), order : {"asc", "desc"}]
      /\ arrived \in 0..Len(Arrivals) /\ prompt \subseteq Seq(Typed) /\ detail \in BOOLEAN /\ live \in BOOLEAN
      /\ follow \in BOOLEAN /\ selected \in Nat
  BY DEF ScreenInv, ScreenTypeOK
<1>2. Forgets /\ Refreshed /\ UNCHANGED <<arrived, detail, live>> /\ prompt' \in {prompt, {}}
  BY DEF TypesFilter, SubmitsFilter, LeavesFilter
<1>3. ASSUME NEW f \in Seq(Typed), view' = [view EXCEPT !.filter = f], selected' \in Nat, follow' \in BOOLEAN
      PROVE  ScreenTypeOK'
  <2>1. view' \in [filter : Seq(Typed), sort : ToSet(SortKeys), order : {"asc", "desc"}]
    BY <1>1, <1>3
  <2> QED
    BY <1>1, <1>2, <1>3, <2>1, ForgetsTyped DEF ScreenTypeOK
<1>4. CASE TypesFilter \/ SubmitsFilter
  <2>1. FromTheTop /\ selected' = 0 /\ follow' \in BOOLEAN
    BY <1>4 DEF TypesFilter, SubmitsFilter, FromTheTop
  <2>2. \E f \in Seq(Typed) : view' = [view EXCEPT !.filter = f]
    <3>1. CASE \E c \in Typed : view' = [view EXCEPT !.filter = Append(@, c)]
      <4>1. PICK c \in Typed : view' = [view EXCEPT !.filter = Append(view.filter, c)]
        BY <3>1
      <4>2. Append(view.filter, c) \in Seq(Typed)
        BY <1>1, AppendProperties
      <4> QED
        BY <4>1, <4>2
    <3>2. CASE view' = [view EXCEPT !.filter = IF @ = <<>> THEN @ ELSE Front(@)]
      <4> DEFINE f == IF view.filter = <<>> THEN view.filter ELSE Front(view.filter)
      <4>1. f \in Seq(Typed)
        <5>1. CASE view.filter = <<>>
          BY <1>1, <5>1
        <5>2. CASE view.filter # <<>>
          <6>1. Len(view.filter) \in Nat \ {0}
            BY <1>1, <5>2, EmptySeq
          <6>2. \A i \in 1..(Len(view.filter) - 1) : view.filter[i] \in Typed
            BY <1>1, <6>1, ElementOfSeq
          <6>3. 1 \in Int /\ Len(view.filter) - 1 \in Int
            BY <6>1
          <6>4. Front(view.filter) \in Seq(Typed)
            BY <6>2, <6>3, SubSeqProperties DEF Front
          <6> QED
            BY <5>2, <6>4
        <5> QED
          BY <5>1, <5>2
      <4>2. view' = [view EXCEPT !.filter = f]
        BY <3>2
      <4> QED
        BY <4>1, <4>2
    <3>3. CASE view' = [view EXCEPT !.filter = Trimmed(@)]
      <4>1. Trimmed(view.filter) \in Seq(Typed)
        BY <1>1, TrimmedType
      <4>2. view' = [view EXCEPT !.filter = Trimmed(view.filter)]
        BY <3>3
      <4> QED
        BY <4>1, <4>2
    <3> QED
      BY <1>4, <3>1, <3>2, <3>3 DEF TypesFilter, SubmitsFilter
  <2>3. ScreenTypeOK'
    BY <1>3, <2>1, <2>2
  <2> QED
    BY <1>2, <2>1, <2>3, TopKeeps
<1>5. CASE LeavesFilter
  <2>1. PICK f \in prompt : view' = [view EXCEPT !.filter = f]
    BY <1>5 DEF LeavesFilter
  <2>2. prompt' = {} /\ UNCHANGED <<selected, follow>> /\ listed' = Visible(RowsOf(arrived), view')
    BY <1>5 DEF LeavesFilter, Refreshed
  <2>3. ScreenTypeOK'
    BY <1>1, <1>3, <2>1, <2>2
  <2>4. PromptInv'
    BY <2>2 DEF PromptInv
  <2>5. Within(selected, Len(listed'))
    <3>1. Len(listed') \in Nat
      BY <2>2, ScreenFacts, ShownRows
    <3>2. CASE view.filter = f
      <4>1. view' = view
        BY <1>1, <2>1, <3>2
      <4>2. Len(listed) \in Nat /\ Len(listed) <= Len(listed') /\ Within(selected, Len(listed))
        BY <2>2, <4>1, ScreenFacts
      <4> QED
        BY <1>1, <3>1, <4>2 DEF Within
    <3>3. CASE selected = 0
      BY <3>1, <3>3 DEF Within
    <3> QED
      BY <2>1, <3>2, <3>3 DEF ScreenInv, PromptInv
  <2> QED
    BY <1>2, <2>2, <2>3, <2>4, <2>5, ListKeeps
<1> QED
  BY <1>4, <1>5

\* The next run starts with an empty list.
LEMMA StartsAgainKeeps ==
    ASSUME ScreenInv, StartsAgain
    PROVE  ScreenInv'
<1>1. /\ arrived' = 0 /\ listed' = <<>> /\ selected' = 0 /\ follow' = TRUE /\ live' = TRUE
      /\ Forgets /\ UNCHANGED <<view, prompt, detail>> /\ Does("Rerun")
  BY DEF StartsAgain
<1>2. listed' = Visible(RowsOf(arrived'), view') /\ arrived' \in 0..Len(Arrivals)
  BY <1>1, NothingShown
<1>3. follow' \in BOOLEAN /\ live' \in BOOLEAN
  BY <1>1
<1>4. ScreenTypeOK'
  BY <1>1, <1>2, <1>3, ForgetsTyped DEF ScreenInv, ScreenTypeOK
<1>5. PromptInv'
  BY <1>1, RerunFromTheList DEF PromptInv
<1>6. Within(selected', Len(listed'))
  BY <1>1, EmptySeq DEF Within
<1> QED
  BY <1>2, <1>4, <1>5, <1>6, ListKeeps

\* No rows yet.
LEMMA ScreenInitially == ScreenInit => ScreenInv
<1> SUFFICES ASSUME ScreenInit
             PROVE  ScreenInv
  OBVIOUS
<1>1. /\ arrived = 0 /\ listed = <<>> /\ selected = 0 /\ prompt = {} /\ count = {}
      /\ view = [filter |-> <<>>, sort |-> "none", order |-> "asc"]
      /\ follow \in BOOLEAN /\ detail \in BOOLEAN /\ pending \in BOOLEAN /\ live \in BOOLEAN
  BY DEF ScreenInit
<1>2. Visible(RowsOf(0), view) = <<>> /\ 0 \in 0..Len(Arrivals) /\ Len(<<>>) = 0
  BY NothingShown, EmptySeq
<1>3. "none" \in ToSet(SortKeys)
  <2>1. SortKeys[1] = "none" /\ 1 \in DOMAIN SortKeys
    BY DEF SortKeys
  <2> QED
    BY <2>1 DEF ToSet
<1>4. view \in [filter : Seq(Typed), sort : ToSet(SortKeys), order : {"asc", "desc"}]
  <2>1. <<>> \in Seq(Typed)
    BY EmptySeq
  <2> QED
    BY <1>1, <1>3, <2>1
<1>5. ScreenTypeOK
  BY <1>1, <1>2, <1>4 DEF ScreenTypeOK
<1>6. FrameMatchesView /\ PromptInv
  <2>1. 0 \in 0..arrived /\ listed = Visible(RowsOf(0), view)
    BY <1>1, <1>2
  <2>2. selected <= Len(listed) /\ (selected = Len(listed) => selected = 0)
    BY <1>1, <1>2
  <2> QED
    BY <1>1, <2>1, <2>2 DEF FrameMatchesView, PromptInv
<1> QED
  BY <1>5, <1>6 DEF ScreenInv

\* Every step keeps the invariant.
LEMMA ScreenStepKeeps == ScreenInv /\ [ScreenNext]_screenVars => ScreenInv'
<1> SUFFICES ASSUME ScreenInv, [ScreenNext]_screenVars
             PROVE  ScreenInv'
  OBVIOUS
<1>1. CASE RowArrives \/ RunOver \/ Ticks
  BY <1>1, EventsKeep
<1>2. CASE ChangesOrder \/ ClearsFilter
  BY <1>2, OrderKeeps
<1>3. CASE MovesSelection \/ Clicks
  BY <1>3, MovesKeep
<1>4. CASE TypesDigit \/ TypesG \/ TogglesDetail \/ OpensFilter
  BY <1>4, TogglesKeep
<1>5. CASE TypesFilter \/ SubmitsFilter \/ LeavesFilter
  BY <1>5, FilterKeeps
<1>6. CASE StartsAgain
  BY <1>6, StartsAgainKeeps
<1>7. CASE UNCHANGED screenVars
  BY <1>7 DEF screenVars, typing, ScreenInv, ScreenTypeOK, FrameMatchesView, PromptInv, RowsOf
<1> QED
  BY <1>1, <1>2, <1>3, <1>4, <1>5, <1>6, <1>7 DEF ScreenNext

\* The invariant of the list: its rows, its selection and its prompt.
THEOREM ScreenInvariant == ScreenSpec => []ScreenInv
BY ScreenInitially, ScreenStepKeeps, PTL DEF ScreenSpec

\* The state of the list has its types.
THEOREM ScreenTypes == ScreenSpec => []ScreenTypeOK
<1>1. ScreenInv => ScreenTypeOK
  BY DEF ScreenInv
<1> QED
  BY <1>1, ScreenInvariant, PTL

\* What is drawn is the list of one moment under the view of now, and the selection is a row of it,
\* whatever keys are pressed while rows arrive.
THEOREM FrameIsOfTheView == ScreenSpec => []FrameMatchesView
<1>1. ScreenInv => FrameMatchesView
  BY DEF ScreenInv
<1> QED
  BY <1>1, ScreenInvariant, PTL

(***************************************************************************)
(* The document that is left (module Output).  Inductive is, besides what  *)
(* DocumentAsPromised says of the end, what arrived and what waits at each *)
(* place of process_result: the document of the rows handed on so far; and *)
(* that these are a front of what order, limit and filters choose.         *)
(***************************************************************************)
\* What an order of a set is: total, and no two places stand at the same point.
Orders(order, places) ==
    /\ \A i \in places : <<i, i>> \in order
    /\ \A i, j \in places : <<i, j>> \in order \/ <<j, i>> \in order
    /\ \A i, j \in places : <<i, j>> \in order /\ <<j, i>> \in order => i = j
    /\ \A i, j, k \in places : <<i, j>> \in order /\ <<j, k>> \in order => <<i, k>> \in order

UpTo(i, places, order) == {j \in places : <<j, i>> \in order}

\* Each place comes up once, at its number, and the places stand in the order.
LEMMA RankedFacts ==
    ASSUME NEW places, IsFiniteSet(places), NEW order, Orders(order, places)
    PROVE  /\ Cardinality(places) \in Nat
           /\ Ranked(places, order) \in [1..Cardinality(places) -> places]
           /\ \A i \in places : /\ Cardinality(UpTo(i, places, order)) \in 1..Cardinality(places)
                                /\ Ranked(places, order)[Cardinality(UpTo(i, places, order))] = i
           /\ \A k \in 1..Cardinality(places) :
                  Cardinality(UpTo(Ranked(places, order)[k], places, order)) = k
           /\ \A k, m \in 1..Cardinality(places) :
                  k < m => <<Ranked(places, order)[k], Ranked(places, order)[m]>> \in order
<1> DEFINE n == Cardinality(places)
           number == [i \in places |-> Cardinality(UpTo(i, places, order))]
<1>1. n \in Nat
  BY FS_CardinalityType
<1>2. \A i \in places : /\ IsFiniteSet(UpTo(i, places, order)) /\ UpTo(i, places, order) \subseteq places
                        /\ Cardinality(UpTo(i, places, order)) \in Nat /\ Cardinality(UpTo(i, places, order)) <= n
  BY FS_Subset, FS_CardinalityType DEF UpTo
<1>3. ASSUME NEW i \in places
      PROVE  number[i] \in 1..n
  <2>1. i \in UpTo(i, places, order)
    BY DEF UpTo, Orders
  <2>2. Cardinality(UpTo(i, places, order)) # 0
    BY <1>2, <2>1, FS_EmptySet
  <2> QED
    BY <1>1, <1>2, <2>2
<1>4. ASSUME NEW i \in places, NEW j \in places, i # j, <<i, j>> \in order
      PROVE  number[i] < number[j]
  <2>1. UpTo(i, places, order) \subseteq UpTo(j, places, order)
    BY <1>4 DEF UpTo, Orders
  <2>2. j \in UpTo(j, places, order) /\ j \notin UpTo(i, places, order)
    BY <1>4 DEF UpTo, Orders
  <2>3. Cardinality(UpTo(i, places, order)) <= Cardinality(UpTo(j, places, order))
    BY <1>2, <2>1, FS_Subset
  <2>4. Cardinality(UpTo(i, places, order)) # Cardinality(UpTo(j, places, order))
    BY <1>2, <2>1, <2>2, FS_Subset
  <2>5. Cardinality(UpTo(i, places, order)) \in Nat /\ Cardinality(UpTo(j, places, order)) \in Nat
    BY <1>2
  <2> QED
    BY <2>3, <2>4, <2>5
<1>5. \A i, j \in places : number[i] = number[j] => i = j
  <2>1. \A i \in places : number[i] \in Nat
    BY <1>1, <1>3
  <2>2. SUFFICES ASSUME NEW i \in places, NEW j \in places, i # j
                 PROVE  number[i] < number[j] \/ number[j] < number[i]
    BY <2>1
  <2>3. <<i, j>> \in order \/ <<j, i>> \in order
    BY DEF Orders
  <2> HIDE DEF number
  <2> QED
    BY <1>4, <2>2, <2>3
<1>6. number \in [places -> 1..n]
  BY <1>3
<1>7. IsFiniteSet(1..n) /\ Cardinality(1..n) = n
  BY <1>1, FS_Interval
<1> HIDE DEF number
<1>8. \A k \in 1..n : \E i \in places : number[i] = k
  <2>1. number \in Injection(places, 1..n)
    BY <1>5, <1>6 DEF Injection, IsInjective
  <2>2. Cardinality(places) = Cardinality(1..n)
    BY <1>7
  <2>3. number \in Surjection(places, 1..n)
    BY <1>7, <2>1, <2>2, FS_Injection
  <2> QED
    BY <2>3 DEF Surjection
<1> DEFINE at0(k) == CHOOSE i \in places : number[i] = k
           r == [k \in 1..n |-> at0(k)]
<1>9. \A k \in 1..n : at0(k) \in places /\ number[at0(k)] = k
  BY <1>8
<1>10. Ranked(places, order) = r
  <2>1. \A k : (CHOOSE i \in places : Cardinality({j \in places : <<j, i>> \in order}) = k) = at0(k)
    BY DEF number, UpTo
  <2>2. Ranked(places, order) =
            [k \in 1..n |-> CHOOSE i \in places : Cardinality({j \in places : <<j, i>> \in order}) = k]
    BY DEF Ranked
  <2> HIDE DEF at0, n
  <2> QED
    BY <2>1, <2>2
<1> HIDE DEF at0
<1>11. r \in [1..n -> places] /\ \A k \in 1..n : r[k] \in places /\ number[r[k]] = k
  BY <1>9
<1> HIDE DEF r
<1>12. \A i \in places : number[i] \in 1..n /\ r[number[i]] = i
  BY <1>3, <1>5, <1>11
<1>13. \A i \in places : number[i] = Cardinality(UpTo(i, places, order))
  BY DEF number
<1>14. ASSUME NEW k \in 1..n, NEW m \in 1..n, k < m
       PROVE  <<r[k], r[m]>> \in order
  <2>1. r[k] \in places /\ r[m] \in places /\ number[r[k]] = k /\ number[r[m]] = m
    BY <1>11
  <2>2. CASE <<r[k], r[m]>> \in order
    BY <2>2
  <2>3. CASE <<r[m], r[k]>> \in order
    <3>1. r[m] # r[k]
      BY <1>14, <2>1
    <3>2. m < k
      BY <1>4, <2>1, <2>3, <3>1
    <3> QED
      BY <1>1, <1>14, <3>2
  <2> QED
    BY <2>1, <2>2, <2>3 DEF Orders
<1> QED
  BY <1>1, <1>10, <1>11, <1>12, <1>13, <1>14

\* The rows of a list, by their places.
LEMMA RowsOfList ==
    ASSUME NEW s \in Seq(Row)
    PROVE  /\ Len(s) \in Nat /\ DOMAIN s = 1..Len(s)
           /\ \A i \in 1..Len(s) : s[i] \in Row /\ s[i].wanted \in BOOLEAN /\ s[i].rank \in Nat
           /\ IsFiniteSet(1..Len(s)) /\ Cardinality(1..Len(s)) = Len(s)
<1>1. Len(s) \in Nat /\ DOMAIN s = 1..Len(s)
  BY LenProperties
<1>2. \A i \in 1..Len(s) : s[i] \in Row
  BY ElementOfSeq
<1>3. IsFiniteSet(1..Len(s)) /\ Cardinality(1..Len(s)) = Len(s)
  BY <1>1, FS_Interval
<1> QED
  BY <1>1, <1>2, <1>3 DEF Row

\* sort_proxies returns the rows it was given, one of a smaller rank or of the same rank and an
\* earlier place before the other.
THEOREM SortIsStable ==
    ASSUME NEW s \in Seq(Row)
    PROVE  /\ InOrder(s) \in Seq(Row) /\ Len(InOrder(s)) = Len(s)
           /\ \E places \in [1..Len(s) -> 1..Len(s)] :
                 /\ \A i \in 1..Len(s) : \E k \in 1..Len(s) : places[k] = i
                 /\ \A k \in 1..Len(s) : InOrder(s)[k] = s[places[k]]
                 /\ \A k, m \in 1..Len(s) : k < m =>
                       \/ InOrder(s)[k].rank < InOrder(s)[m].rank
                       \/ InOrder(s)[k].rank = InOrder(s)[m].rank /\ places[k] < places[m]
<1> DEFINE n == Len(s)
           order == ByRank(s)
           places == Ranked(1..n, order)
<1>1. /\ n \in Nat /\ DOMAIN s = 1..n /\ \A i \in 1..n : s[i] \in Row /\ s[i].rank \in Nat
      /\ IsFiniteSet(1..n) /\ Cardinality(1..n) = n
  BY RowsOfList
<1>2. \A i, j \in 1..n : <<i, j>> \in order <=> s[i].rank < s[j].rank \/ (s[i].rank = s[j].rank /\ i <= j)
  BY <1>1 DEF ByRank
<1>3. Orders(order, 1..n)
  <2> HIDE DEF order, n
  <2> QED
    BY <1>1, <1>2, SMTT(30) DEF Orders
<1> HIDE DEF order
<1>4. /\ places \in [1..n -> 1..n]
      /\ \A i \in 1..n : \E k \in 1..n : places[k] = i
      /\ \A k, m \in 1..n : k < m => <<places[k], places[m]>> \in order
      /\ \A k \in 1..n : Cardinality(UpTo(places[k], 1..n, order)) = k
  <2> DEFINE c == Cardinality(1..n)
  <2>1. /\ places \in [1..c -> 1..n]
        /\ \A i \in 1..n : /\ Cardinality(UpTo(i, 1..n, order)) \in 1..c
                           /\ places[Cardinality(UpTo(i, 1..n, order))] = i
        /\ \A k \in 1..c : Cardinality(UpTo(places[k], 1..n, order)) = k
        /\ \A k, m \in 1..c : k < m => <<places[k], places[m]>> \in order
    BY <1>1, <1>3, RankedFacts
  <2>2. c = n
    BY <1>1
  <2> HIDE DEF c, places, n
  <2> QED
    BY <2>1, <2>2
<1>5. InOrder(s) = [k \in 1..n |-> s[places[k]]]
  BY <1>1, <1>4 DEF InOrder, order
<1> HIDE DEF places, n
<1>6. InOrder(s) \in [1..n -> Row]
  BY <1>1, <1>4, <1>5
<1>7. InOrder(s) \in Seq(Row) /\ Len(InOrder(s)) = n
  BY <1>1, <1>6, SeqDef, LenProperties
<1>8. \A k \in 1..n : InOrder(s)[k] = s[places[k]]
  BY <1>5
<1>9. ASSUME NEW k \in 1..n, NEW m \in 1..n, k < m
      PROVE  \/ InOrder(s)[k].rank < InOrder(s)[m].rank
             \/ InOrder(s)[k].rank = InOrder(s)[m].rank /\ places[k] < places[m]
  <2>1. places[k] \in 1..n /\ places[m] \in 1..n /\ places[k] # places[m]
    <3>1. places[k] \in 1..n /\ places[m] \in 1..n
      BY <1>4
    <3>2. places[k] = places[m] => k = m
      BY <1>4
    <3>3. k # m
      BY <1>1, <1>9
    <3> QED
      BY <3>1, <3>2, <3>3
  <2>2. s[places[k]].rank < s[places[m]].rank \/ (s[places[k]].rank = s[places[m]].rank /\ places[k] <= places[m])
    BY <1>2, <1>4, <1>9, <2>1
  <2> QED
    BY <1>1, <1>8, <2>1, <2>2
<1> QED
  BY <1>4, <1>7, <1>8, <1>9 DEF n

\* The places of the wanted rows.
LEMMA WantedOrder ==
    ASSUME NEW s \in Seq(Row)
    PROVE  /\ WantedIn(s) \subseteq 1..Len(s) /\ IsFiniteSet(WantedIn(s)) /\ Cardinality(WantedIn(s)) \in Nat
           /\ Orders(AsTheyCame(s), WantedIn(s))
           /\ \A i, j \in 1..Len(s) : <<i, j>> \in AsTheyCame(s) <=> i <= j
<1>1. Len(s) \in Nat /\ DOMAIN s = 1..Len(s) /\ IsFiniteSet(1..Len(s))
  BY RowsOfList
<1>2. WantedIn(s) \subseteq 1..Len(s)
  BY <1>1 DEF WantedIn
<1>3. \A i, j \in 1..Len(s) : <<i, j>> \in AsTheyCame(s) <=> i <= j
  BY <1>1 DEF AsTheyCame
<1>4. Orders(AsTheyCame(s), WantedIn(s))
  BY <1>1, <1>2, <1>3 DEF Orders
<1> QED
  BY <1>1, <1>2, <1>3, <1>4, FS_Subset, FS_CardinalityType

\* What Matching is made of.
LEMMA MatchingFacts ==
    ASSUME NEW s \in Seq(Row)
    PROVE  LET places == Ranked(WantedIn(s), AsTheyCame(s)) IN
           /\ Matching(s) \in Seq(Row) /\ Len(Matching(s)) = Cardinality(WantedIn(s))
           /\ places \in [1..Len(Matching(s)) -> WantedIn(s)]
           /\ \A k \in 1..Len(Matching(s)) : Matching(s)[k] = s[places[k]]
<1> DEFINE c == Cardinality(WantedIn(s))
           places == Ranked(WantedIn(s), AsTheyCame(s))
<1>1. \A i \in 1..Len(s) : s[i] \in Row
  BY RowsOfList
<1>2. c \in Nat /\ WantedIn(s) \subseteq 1..Len(s)
  BY WantedOrder
<1>3. places \in [1..c -> WantedIn(s)]
  BY WantedOrder, RankedFacts
<1>4. Matching(s) = [k \in 1..c |-> s[places[k]]]
  BY <1>3 DEF Matching
<1> HIDE DEF c, places
<1>5. Matching(s) \in [1..c -> Row]
  BY <1>1, <1>2, <1>3, <1>4
<1>6. Matching(s) \in Seq(Row) /\ Len(Matching(s)) = c
  BY <1>2, <1>5, SeqDef, LenProperties
<1> QED
  BY <1>3, <1>4, <1>6 DEF c, places

\* Rows that are taken while they arrive are those a whole list would give (filter.matches in
\* process_result): what is wanted of the front part of a list is the front part of what is wanted of the list.
THEOREM FilterIsIncremental ==
    ASSUME NEW t \in Seq(Row), NEW s \in Seq(Row), Len(s) <= Len(t), \A i \in 1..Len(s) : s[i] = t[i]
    PROVE  /\ Len(Matching(s)) <= Len(Matching(t))
           /\ \A k \in 1..Len(Matching(s)) : Matching(t)[k] = Matching(s)[k]
<1> DEFINE ws == WantedIn(s)  wt == WantedIn(t)
           os == AsTheyCame(s)  ot == AsTheyCame(t)
           rs == Ranked(ws, os)  rt == Ranked(wt, ot)
<1>1. Len(s) \in Nat /\ Len(t) \in Nat /\ DOMAIN s = 1..Len(s) /\ DOMAIN t = 1..Len(t)
  BY RowsOfList
<1>2. ws = {i \in wt : i <= Len(s)}
  BY <1>1 DEF WantedIn
<1>3. /\ ws \subseteq 1..Len(s) /\ wt \subseteq 1..Len(t) /\ ws \subseteq wt
      /\ IsFiniteSet(ws) /\ IsFiniteSet(wt) /\ Cardinality(ws) \in Nat /\ Cardinality(wt) \in Nat
      /\ Orders(os, ws) /\ Orders(ot, wt)
  BY <1>2, WantedOrder
<1>4. Cardinality(ws) <= Cardinality(wt)
  BY <1>3, FS_Subset
<1>5. \A i \in ws : UpTo(i, ws, os) = UpTo(i, wt, ot)
  <2>1. SUFFICES ASSUME NEW i \in ws, NEW j
                 PROVE  j \in UpTo(i, ws, os) <=> j \in UpTo(i, wt, ot)
    OBVIOUS
  <2>2. i \in 1..Len(s) /\ i \in 1..Len(t) /\ i \in wt
    BY <1>3
  <2>3. j \in wt => j \in 1..Len(t) /\ (<<j, i>> \in ot <=> j <= i)
    BY <1>3, <2>2, WantedOrder
  <2>4. j \in ws => j \in 1..Len(s) /\ (<<j, i>> \in os <=> j <= i)
    BY <1>3, <2>2, WantedOrder
  <2>5. j \in wt /\ j <= i => j \in ws
    BY <1>1, <1>2, <2>2, <2>3
  <2> HIDE DEF ws, wt, os, ot
  <2> QED
    BY <1>3, <2>3, <2>4, <2>5 DEF UpTo
<1>6. /\ Matching(s) \in Seq(Row) /\ Len(Matching(s)) = Cardinality(ws)
      /\ rs \in [1..Len(Matching(s)) -> ws]
      /\ \A k \in 1..Len(Matching(s)) : Matching(s)[k] = s[rs[k]]
      /\ Len(Matching(t)) = Cardinality(wt)
      /\ rt \in [1..Len(Matching(t)) -> wt]
      /\ \A k \in 1..Len(Matching(t)) : Matching(t)[k] = t[rt[k]]
  BY MatchingFacts
<1>7. \A i \in ws : rt[Cardinality(UpTo(i, wt, ot))] = i
  BY <1>3, RankedFacts
<1>8. \A k \in 1..Cardinality(ws) : rs[k] \in ws /\ Cardinality(UpTo(rs[k], ws, os)) = k
  BY <1>3, RankedFacts
<1> HIDE DEF ws, wt, os, ot, rs, rt
<1>9. \A k \in 1..Cardinality(ws) : rt[k] = rs[k]
  BY <1>5, <1>7, <1>8
<1>10. ASSUME NEW k \in 1..Len(Matching(s))
       PROVE  Matching(t)[k] = Matching(s)[k]
  <2>1. k \in 1..Cardinality(ws) /\ k \in 1..Cardinality(wt)
    BY <1>3, <1>4, <1>6
  <2>2. rt[k] = rs[k] /\ rs[k] \in 1..Len(s)
    BY <1>3, <1>8, <1>9, <2>1
  <2>3. Matching(s)[k] = s[rs[k]] /\ Matching(t)[k] = t[rt[k]]
    BY <1>6, <2>1
  <2> QED
    BY <2>2, <2>3
<1> QED
  BY <1>4, <1>6, <1>10

\* One row more.
LEMMA MatchingOfOneMore ==
    ASSUME NEW s \in Seq(Row), NEW x \in Row
    PROVE  Matching(Append(s, x)) = IF x.wanted THEN Append(Matching(s), x) ELSE Matching(s)
<1> DEFINE t == Append(s, x)
           n == Len(s)
<1>1. /\ t \in Seq(Row) /\ Len(t) = n + 1 /\ n \in Nat
      /\ t[n + 1] = x /\ \A i \in 1..n : t[i] = s[i]
      /\ DOMAIN t = 1..(n + 1) /\ DOMAIN s = 1..n
  BY AppendProperties, RowsOfList
<1> HIDE DEF t
<1>2. /\ Len(Matching(s)) <= Len(Matching(t))
      /\ \A k \in 1..Len(Matching(s)) : Matching(t)[k] = Matching(s)[k]
  BY <1>1, FilterIsIncremental
<1>3. /\ Matching(s) \in Seq(Row) /\ Len(Matching(s)) = Cardinality(WantedIn(s))
      /\ Matching(t) \in Seq(Row) /\ Len(Matching(t)) = Cardinality(WantedIn(t))
      /\ \A k \in 1..Len(Matching(t)) : Matching(t)[k] = t[Ranked(WantedIn(t), AsTheyCame(t))[k]]
  BY <1>1, MatchingFacts
<1>4. /\ WantedIn(s) \subseteq 1..n /\ IsFiniteSet(WantedIn(s)) /\ Cardinality(WantedIn(s)) \in Nat
      /\ Orders(AsTheyCame(t), WantedIn(t)) /\ IsFiniteSet(WantedIn(t)) /\ WantedIn(t) \subseteq 1..(n + 1)
  BY <1>1, WantedOrder
<1>5. CASE ~x.wanted
  <2>1. WantedIn(t) = WantedIn(s)
    BY <1>1, <1>5 DEF WantedIn
  <2>2. Len(Matching(t)) = Len(Matching(s))
    BY <1>3, <2>1
  <2>3. Matching(t) = Matching(s)
    BY <1>2, <1>3, <2>2, SeqEqual
  <2> QED
    BY <1>5, <2>3 DEF t
<1>6. CASE x.wanted
  <2> DEFINE c == Cardinality(WantedIn(s))
  <2>1. WantedIn(t) = WantedIn(s) \cup {n + 1} /\ n + 1 \notin WantedIn(s)
    BY <1>1, <1>4, <1>6 DEF WantedIn
  <2>2. Cardinality(WantedIn(t)) = c + 1 /\ c \in Nat
    BY <1>4, <2>1, FS_AddElement
  <2>3. UpTo(n + 1, WantedIn(t), AsTheyCame(t)) = WantedIn(t)
    <3>1. \A j \in WantedIn(t) : <<j, n + 1>> \in AsTheyCame(t)
      BY <1>1, <1>4, WantedOrder
    <3> QED
      BY <3>1 DEF UpTo
  <2>4. Ranked(WantedIn(t), AsTheyCame(t))[c + 1] = n + 1
    <3>1. Ranked(WantedIn(t), AsTheyCame(t))[Cardinality(UpTo(n + 1, WantedIn(t), AsTheyCame(t)))] = n + 1
      BY <1>4, <2>1, RankedFacts
    <3>2. Cardinality(UpTo(n + 1, WantedIn(t), AsTheyCame(t))) = c + 1
      BY <2>2, <2>3
    <3> HIDE DEF c, n
    <3> QED
      BY <3>1, <3>2
  <2>5. Matching(t)[c + 1] = x
    BY <1>1, <1>3, <2>2, <2>4
  <2> HIDE DEF c
  <2>6. /\ Append(Matching(s), x) \in Seq(Row) /\ Len(Append(Matching(s), x)) = c + 1
        /\ Append(Matching(s), x)[c + 1] = x
        /\ \A k \in 1..c : Append(Matching(s), x)[k] = Matching(s)[k]
    BY <1>3, AppendProperties DEF c
  <2>7. Len(Matching(t)) = c + 1 /\ Len(Matching(s)) = c
    BY <1>3, <2>2 DEF c
  <2>8. \A k \in 1..(c + 1) : Matching(t)[k] = Append(Matching(s), x)[k]
    BY <1>2, <2>2, <2>5, <2>6, <2>7
  <2>9. Matching(t) = Append(Matching(s), x)
    BY <1>3, <2>6, <2>7, <2>8, SeqEqual
  <2> QED
    BY <1>6, <2>9 DEF t
<1> QED
  BY <1>5, <1>6

\* An empty list has no wanted row.
LEMMA MatchingOfNone == Matching(<<>>) = <<>>
<1>1. <<>> \in Seq(Row) /\ Len(<<>>) = 0
  BY EmptySeq
<1>2. WantedIn(<<>>) \subseteq 1..0
  BY <1>1, WantedOrder
<1>3. WantedIn(<<>>) = {}
  BY <1>2
<1>4. Matching(<<>>) \in Seq(Row) /\ Len(Matching(<<>>)) = 0
  BY <1>1, <1>3, MatchingFacts, FS_EmptySet
<1> QED
  BY <1>4, EmptySeq

\* A source that is read from the front.
LEMMA ReadOn ==
    ASSUME NEW src \in Seq(Row), NEW n \in 0..Len(src)
    PROVE  LET rest == SubSeq(src, n + 1, Len(src)) IN
           /\ rest = <<>> <=> n = Len(src)
           /\ SubSeq(src, 1, n) \in Seq(Row) /\ Len(SubSeq(src, 1, n)) = n
           /\ rest # <<>> =>
                /\ n + 1 \in 0..Len(src)
                /\ Head(rest) = src[n + 1] /\ Head(rest) \in Row
                /\ Tail(rest) = SubSeq(src, (n + 1) + 1, Len(src))
                /\ SubSeq(src, 1, n + 1) = Append(SubSeq(src, 1, n), src[n + 1])
<1> DEFINE rest == SubSeq(src, n + 1, Len(src))
<1>1. Len(src) \in Nat /\ n \in Nat /\ n <= Len(src) /\ \A i \in 1..Len(src) : src[i] \in Row
  BY RowsOfList
<1>2. rest \in Seq(Row) /\ Len(rest) = Len(src) - n
  <2>1. n + 1 \in Int /\ Len(src) \in Int /\ \A i \in (n + 1)..Len(src) : src[i] \in Row
    BY <1>1
  <2>2. /\ SubSeq(src, n + 1, Len(src)) \in Seq(Row)
        /\ Len(SubSeq(src, n + 1, Len(src))) = IF n + 1 <= Len(src) THEN Len(src) - (n + 1) + 1 ELSE 0
    BY <2>1, SubSeqProperties
  <2> QED
    BY <1>1, <2>2
<1>3. rest = <<>> <=> n = Len(src)
  <2> HIDE DEF rest
  <2>1. Len(rest) = 0 <=> rest = <<>>
    BY <1>2, EmptySeq
  <2> QED
    BY <1>1, <1>2, <2>1
<1>4. SubSeq(src, 1, n) \in Seq(Row) /\ Len(SubSeq(src, 1, n)) = n
  <2>1. 1 \in Int /\ n \in Int /\ \A i \in 1..n : src[i] \in Row
    BY <1>1
  <2>2. /\ SubSeq(src, 1, n) \in Seq(Row)
        /\ Len(SubSeq(src, 1, n)) = IF 1 <= n THEN n - 1 + 1 ELSE 0
    BY <2>1, SubSeqProperties
  <2> QED
    BY <1>1, <2>2
<1>5. ASSUME rest # <<>>
      PROVE  /\ n + 1 \in 0..Len(src)
             /\ Head(rest) = src[n + 1] /\ Head(rest) \in Row
             /\ Tail(rest) = SubSeq(src, (n + 1) + 1, Len(src))
             /\ SubSeq(src, 1, n + 1) = Append(SubSeq(src, 1, n), src[n + 1])
  <2>1. n + 1 \in 1..Len(src) /\ Len(src) \in (n + 1)..Len(src) /\ 1 \in 1..Len(src) /\ n + 1 \in 1..Len(src)
    BY <1>1, <1>3, <1>5
  <2>2. Head(rest) = src[n + 1] /\ Tail(rest) = SubSeq(src, (n + 1) + 1, Len(src))
    BY <2>1, HeadTailOfSubSeq
  <2>3. SubSeq(src, 1, n + 1) = SubSeq(src, 1, (n + 1) - 1) \o <<src[n + 1]>>
    BY <2>1, SubSeqRecursiveSecond
  <2>4. (n + 1) - 1 = n
    BY <1>1
  <2>5. src[n + 1] \in Row
    BY <1>1, <2>1
  <2>6. SubSeq(src, 1, n) \o <<src[n + 1]>> = Append(SubSeq(src, 1, n), src[n + 1])
    BY <1>4, <2>5, AppendIsConcat
  <2> QED
    BY <2>1, <2>2, <2>3, <2>4, <2>5, <2>6
<1> QED
  BY <1>3, <1>4, <1>5

\* What is wanted of the rows that were read is what the limit leaves of all of them once it is
\* reached, or once all are read.
LEMMA FrontIsFirst ==
    ASSUME NEW src \in Seq(Row), NEW n \in 0..Len(src), NEW limit \in Nat,
           LET read == Matching(SubSeq(src, 1, n)) IN
               \/ limit > 0 /\ Len(read) = limit
               \/ n = Len(src) /\ (limit > 0 => Len(read) <= limit)
    PROVE  Matching(SubSeq(src, 1, n)) = FirstOf(Matching(src), limit)
<1> DEFINE s == SubSeq(src, 1, n)
           read == Matching(s)
           all == Matching(src)
<1>1. /\ s \in Seq(Row) /\ Len(s) = n /\ Len(src) \in Nat /\ n \in Nat /\ n <= Len(src)
      /\ \A i \in 1..n : s[i] = src[i]
  <2>1. Len(src) \in Nat /\ \A i \in 1..n : src[i] \in Row
    BY RowsOfList
  <2>2. 1 \in Int /\ n \in Int
    BY <2>1
  <2>3. \A i \in 1..(n - 1 + 1) : s[i] = src[1 + i - 1]
    BY <2>1, <2>2, SubSeqProperties
  <2>4. n - 1 + 1 = n /\ \A i \in 1..n : 1 + i - 1 = i
    BY <2>2
  <2> QED
    BY <2>1, <2>3, <2>4, ReadOn
<1>2. n = Len(src) => s = src
  BY SubSeqFull
<1> HIDE DEF s
<1>3. /\ read \in Seq(Row) /\ all \in Seq(Row) /\ Len(read) \in Nat /\ Len(all) \in Nat
      /\ Len(read) <= Len(all)
      /\ \A k \in 1..Len(read) : all[k] = read[k]
  BY <1>1, MatchingFacts, FilterIsIncremental, LenProperties
<1> HIDE DEF read, all
<1>4. CASE n = Len(src) /\ (limit > 0 => Len(read) <= limit)
  <2>1. read = all
    BY <1>2, <1>4 DEF read, all
  <2>2. FirstOf(all, limit) = all
    BY <1>3, <1>4, <2>1 DEF FirstOf
  <2> QED
    BY <2>1, <2>2 DEF read, all, s
<1>5. CASE limit > 0 /\ Len(read) = limit
  <2>1. CASE limit < Len(all)
    <3>1. FirstOf(all, limit) = SubSeq(all, 1, limit)
      BY <1>5, <2>1 DEF FirstOf
    <3>2. 1 \in Int /\ limit \in Int /\ \A i \in 1..limit : all[i] \in Row
      BY <1>3, <2>1, ElementOfSeq
    <3>3. /\ SubSeq(all, 1, limit) \in Seq(Row)
          /\ Len(SubSeq(all, 1, limit)) = limit - 1 + 1
          /\ \A i \in 1..(limit - 1 + 1) : SubSeq(all, 1, limit)[i] = all[1 + i - 1]
      <4>1. 1 <= limit
        BY <1>5
      <4> QED
        BY <3>2, <4>1, SubSeqProperties
    <3>4. limit - 1 + 1 = limit /\ \A i \in 1..limit : 1 + i - 1 = i
      BY <3>2
    <3>5. SubSeq(all, 1, limit) = read
      BY <1>3, <1>5, <3>3, <3>4, SeqEqual
    <3> QED
      BY <3>1, <3>5 DEF read, all, s
  <2>2. CASE ~(limit < Len(all))
    <3>1. Len(all) = Len(read)
      BY <1>3, <1>5, <2>2
    <3>2. all = read
      BY <1>3, <3>1, SeqEqual
    <3>3. FirstOf(all, limit) = all
      BY <2>2 DEF FirstOf
    <3> QED
      BY <3>2, <3>3 DEF read, all, s
  <2> QED
    BY <2>1, <2>2
<1> QED
  BY <1>4, <1>5 DEF read, s

AllWanted(list) == \A i \in 1..Len(list) : list[i].wanted

\* Arranging loses no row and adds none.
LEMMA ArrangedFacts ==
    ASSUME NEW s \in Seq(Row), NEW l \in Arranged(s)
    PROVE  /\ l \in Seq(Row) /\ Len(l) = Len(s)
           /\ AllWanted(s) => AllWanted(l)
<1>1. /\ Len(s) \in Nat /\ DOMAIN s = 1..Len(s) /\ \A i \in 1..Len(s) : s[i] \in Row
  BY RowsOfList
<1>2. CASE opts.order = "shuffle"
  <2>1. PICK p \in Bijection(1..Len(s), 1..Len(s)) : l = [i \in 1..Len(s) |-> s[p[i]]]
    BY <1>1, <1>2 DEF Arranged
  <2>2. p \in [1..Len(s) -> 1..Len(s)]
    BY <2>1 DEF Bijection, Injection
  <2>3. l \in [1..Len(s) -> Row] /\ \A i \in 1..Len(s) : l[i] = s[p[i]] /\ p[i] \in 1..Len(s)
    BY <1>1, <2>1, <2>2
  <2>4. l \in Seq(Row) /\ Len(l) = Len(s)
    BY <1>1, <2>3, SeqDef, LenProperties
  <2> QED
    BY <2>3, <2>4 DEF AllWanted
<1>3. CASE opts.order # "shuffle"
  <2>1. l = InOrder(s)
    BY <1>3 DEF Arranged
  <2>2. PICK places \in [1..Len(s) -> 1..Len(s)] : \A k \in 1..Len(s) : InOrder(s)[k] = s[places[k]]
    BY SortIsStable
  <2>3. InOrder(s) \in Seq(Row) /\ Len(InOrder(s)) = Len(s)
    BY SortIsStable
  <2>4. \A k \in 1..Len(s) : places[k] \in 1..Len(s)
    BY <2>2
  <2> QED
    BY <2>1, <2>2, <2>3, <2>4 DEF AllWanted
<1> QED
  BY <1>2, <1>3

\* A list that is taken from its front row by row.
LEMMA TakeOne ==
    ASSUME NEW done \in Seq(Row), NEW rest \in Seq(Row), rest # <<>>
    PROVE  /\ Head(rest) \in Row /\ Tail(rest) \in Seq(Row) /\ Len(Tail(rest)) = Len(rest) - 1
           /\ Append(done, Head(rest)) \in Seq(Row) /\ Len(Append(done, Head(rest))) = Len(done) + 1
           /\ Append(done, Head(rest)) \o Tail(rest) = done \o rest
           /\ AllWanted(rest) => AllWanted(Tail(rest)) /\ Head(rest).wanted
<1>1. /\ Head(rest) \in Row /\ Tail(rest) \in Seq(Row) /\ Len(Tail(rest)) = Len(rest) - 1
      /\ \A i \in 1..Len(Tail(rest)) : Tail(rest)[i] = rest[i + 1]
  BY HeadTailProperties
<1>2. Len(rest) \in Nat /\ Len(rest) # 0 /\ Len(done) \in Nat
  BY EmptySeq, LenProperties
<1>3. Append(done, Head(rest)) \in Seq(Row) /\ Len(Append(done, Head(rest))) = Len(done) + 1
  BY <1>1, AppendProperties
<1>4. Head(rest) = rest[1]
  OBVIOUS
<1>5. rest = <<Head(rest)>> \o Tail(rest)
  <2>1. 1 \in 1..Len(rest) /\ Len(rest) \in 1..Len(rest)
    BY <1>2
  <2>2. SubSeq(rest, 1, Len(rest)) = <<rest[1]>> \o SubSeq(rest, 1 + 1, Len(rest))
    BY <2>1, SubSeqRecursiveFirst
  <2>3. SubSeq(rest, 1, Len(rest)) = rest
    BY SubSeqFull
  <2>4. Tail(rest) = SubSeq(rest, 2, Len(rest))
    BY TailIsSubSeq
  <2> QED
    BY <1>4, <2>2, <2>3, <2>4
<1>6. Append(done, Head(rest)) = done \o <<Head(rest)>>
  BY <1>1, AppendIsConcat
<1>7. <<Head(rest)>> \in Seq(Row)
  BY <1>1
<1>8. (done \o <<Head(rest)>>) \o Tail(rest) = done \o (<<Head(rest)>> \o Tail(rest))
  BY <1>1, <1>7, ConcatAssociative, SMTT(30)
<1>9. AllWanted(rest) => AllWanted(Tail(rest)) /\ Head(rest).wanted
  BY <1>1, <1>2, <1>4 DEF AllWanted
<1> QED
  BY <1>1, <1>3, <1>5, <1>6, <1>8, <1>9

\* What has been taken when the limit is reached or nothing is left is what FirstOf takes.
LEMMA TakenIsFirst ==
    ASSUME NEW done \in Seq(Row), NEW rest \in Seq(Row), NEW limit \in Nat,
           \/ limit > 0 /\ Len(done) = limit
           \/ rest = <<>> /\ (limit > 0 => Len(done) <= limit)
    PROVE  done = FirstOf(done \o rest, limit)
<1>1. /\ done \o rest \in Seq(Row) /\ Len(done \o rest) = Len(done) + Len(rest)
      /\ Len(done) \in Nat /\ Len(rest) \in Nat
  BY ConcatProperties, LenProperties
<1>2. CASE rest = <<>>
  <2>1. done \o rest = done /\ Len(rest) = 0
    BY <1>2, ConcatEmptySeq
  <2>2. ~(limit > 0 /\ limit < Len(done \o rest))
    <3>1. limit > 0 => Len(done) <= limit
      BY SMTT(30)
    <3>2. Len(done \o rest) = Len(done)
      BY <2>1
    <3>3. limit \in Nat /\ Len(done) \in Nat
      BY <1>1, SMTT(30)
    <3> HIDE <1>2
    <3> QED
      BY <3>1, <3>2, <3>3
  <2> QED
    BY <2>1, <2>2 DEF FirstOf
<1>3. CASE rest # <<>>
  <2>1. limit > 0 /\ Len(done) = limit /\ Len(rest) # 0
    BY <1>3, EmptySeq
  <2>2. FirstOf(done \o rest, limit) = SubSeq(done \o rest, 1, Len(done))
    BY <1>1, <2>1 DEF FirstOf
  <2>3. 1 \in 1..Len(done) /\ Len(done) \in 1..Len(done)
    BY <1>1, <2>1
  <2>4. SubSeq(done \o rest, 1, Len(done)) = SubSeq(done, 1, Len(done))
    BY <2>3, SubSeqOfConcat1
  <2>5. SubSeq(done, 1, Len(done)) = done
    BY SubSeqFull
  <2> QED
    BY <2>2, <2>4, <2>5
<1> QED
  BY <1>2, <1>3

-----------------------------------------------------------------------------
(* The documents a list of rows is written as.                               *)

\* The tokens a document is made of.
LEMMA Tokens ==
    /\ <<"header">> \in Token /\ <<"[">> \in Token /\ <<",">> \in Token /\ <<"]">> \in Token
    /\ \A x \in Row : <<"row", x>> \in Token
    /\ \A list \in Seq(Row) : <<"function", list>> \in Token
    /\ <<>> \in Seq(Token) /\ <<<<"header">>>> \in Seq(Token) /\ <<<<"]">>>> \in Seq(Token)
    /\ Empty \in Seq(Token)
    /\ \A x \in Row : <<<<"row", x>>>> \in Seq(Token)
    /\ \A list \in Seq(Row) : <<<<"function", list>>>> \in Seq(Token)
<1>1. <<"header">> \in Token /\ <<"[">> \in Token /\ <<",">> \in Token /\ <<"]">> \in Token
  BY DEF Token
<1>2. \A x \in Row : <<"row", x>> \in Token
  BY DEF Token
<1>3. \A list \in Seq(Row) : <<"function", list>> \in Token
  BY DEF Token
<1>4. \A a \in Token : <<a>> \in Seq(Token)
  OBVIOUS
<1>5. \A a, b \in Token : <<a, b>> \in Seq(Token)
  OBVIOUS
<1>6. Empty \in Seq(Token)
  BY <1>1, <1>5 DEF Empty
<1> QED
  BY <1>1, <1>2, <1>3, <1>4, <1>6, EmptySeq

\* One row more in a document without a frame, and in a frame.
LEMMA InRowsGrows ==
    ASSUME NEW list \in Seq(Row)
    PROVE  /\ InRows(list) \in Seq(Token)
           /\ \A x \in Row : InRows(Append(list, x)) = InRows(list) \o <<<<"row", x>>>>
<1>1. /\ Len(list) \in Nat /\ DOMAIN list = 1..Len(list) /\ \A i \in 1..Len(list) : list[i] \in Row
  BY RowsOfList
<1>2. InRows(list) \in [1..Len(list) -> Token] /\ \A i \in 1..Len(list) : InRows(list)[i] = <<"row", list[i]>>
  BY <1>1, Tokens DEF InRows
<1>3. InRows(list) \in Seq(Token) /\ Len(InRows(list)) = Len(list)
  BY <1>1, <1>2, SeqDef, LenProperties
<1>4. ASSUME NEW x \in Row
      PROVE  InRows(Append(list, x)) = InRows(list) \o <<<<"row", x>>>>
  <2> DEFINE more == Append(list, x)
             text == <<<<"row", x>>>>
             n == Len(list)
  <2>1. /\ more \in Seq(Row) /\ Len(more) = n + 1 /\ more[n + 1] = x /\ DOMAIN more = 1..(n + 1)
        /\ \A i \in 1..n : more[i] = list[i]
    BY AppendProperties, LenProperties
  <2>2. text \in Seq(Token) /\ Len(text) = 1 /\ text[1] = <<"row", x>>
    BY Tokens
  <2> HIDE DEF more, text
  <2>3. InRows(more) = [i \in 1..(n + 1) |-> <<"row", more[i]>>]
    BY <2>1 DEF InRows
  <2>4. /\ InRows(list) \o text \in Seq(Token) /\ Len(InRows(list) \o text) = n + 1
        /\ \A i \in 1..(n + 1) : (InRows(list) \o text)[i] =
               IF i <= n THEN InRows(list)[i] ELSE text[i - n]
    <3>1. /\ InRows(list) \o text \in Seq(Token)
          /\ Len(InRows(list) \o text) = Len(InRows(list)) + Len(text)
          /\ \A i \in 1..(Len(InRows(list)) + Len(text)) : (InRows(list) \o text)[i] =
               IF i <= Len(InRows(list)) THEN InRows(list)[i] ELSE text[i - Len(InRows(list))]
      BY <1>3, <2>2, ConcatProperties
    <3> QED
      BY <1>3, <2>2, <3>1
  <2>5. InRows(list) \o text = [i \in 1..(n + 1) |-> (InRows(list) \o text)[i]]
    BY <2>4, LenProperties
  <2>6. ASSUME NEW i \in 1..(n + 1)
        PROVE  <<"row", more[i]>> = (InRows(list) \o text)[i]
    <3>1. CASE i <= n
      BY <1>1, <1>2, <2>1, <2>4, <3>1
    <3>2. CASE ~(i <= n)
      <4>1. i = n + 1 /\ i - n = 1
        BY <1>1, <3>2
      <4> QED
        BY <2>1, <2>2, <2>4, <3>2, <4>1
    <3> QED
      BY <3>1, <3>2
  <2>7. InRows(more) = InRows(list) \o text
    BY <2>3, <2>5, <2>6
  <2> QED
    BY <2>7 DEF more, text
<1> QED
  BY <1>3, <1>4

\* Two tokens put after a text.
LEMMA TwoTokens ==
    ASSUME NEW a \in Token, NEW b \in Token
    PROVE  <<a>> \o <<b>> = <<a, b>>
<1>1. <<a>> \in Seq(Token) /\ <<b>> \in Seq(Token) /\ <<a, b>> \in Seq(Token)
  OBVIOUS
<1>2. Len(<<a>>) = 1 /\ Len(<<b>>) = 1 /\ Len(<<a, b>>) = 2
  OBVIOUS
<1>3. /\ <<a>> \o <<b>> \in Seq(Token) /\ Len(<<a>> \o <<b>>) = 2
      /\ (<<a>> \o <<b>>)[1] = a /\ (<<a>> \o <<b>>)[2] = b
  BY <1>1, <1>2, ConcatProperties
<1>4. \A i \in 1..2 : (<<a>> \o <<b>>)[i] = <<a, b>>[i]
  BY <1>3
<1> QED
  BY <1>1, <1>2, <1>3, <1>4, SeqEqual

\* A row of the JSON array takes two tokens.
LEMMA Halves ==
    ASSUME NEW n \in Nat
    PROVE  /\ (2 * n + 1) % 2 = 1 /\ (2 * n + 2) % 2 = 0 /\ (2 * n + 2) \div 2 = n + 1
           /\ \A k \in 1..(2 * n) : k % 2 = 0 => k \div 2 \in 1..n
OBVIOUS

\* One more row adds its separator and itself to an array that is not closed.
LEMMA UnclosedGrows ==
    ASSUME NEW list \in Seq(Row)
    PROVE  /\ Unclosed(list) \in Seq(Token)
           /\ list = <<>> => Unclosed(list) = <<>>
           /\ \A x \in Row : Unclosed(Append(list, x)) =
                  Unclosed(list) \o (<<<<IF Len(list) = 0 THEN "[" ELSE ",">>>> \o <<<<"row", x>>>>)
<1> DEFINE entry(l, k) == IF k % 2 = 0 THEN <<"row", l[k \div 2]>> ELSE <<IF k = 1 THEN "[" ELSE ",">>
           n == Len(list)
<1>1. n \in Nat /\ \A i \in 1..n : list[i] \in Row
  BY RowsOfList
<1>2. \A l : Unclosed(l) = [k \in 1..(2 * Len(l)) |-> entry(l, k)]
  BY DEF Unclosed
<1>3. ASSUME NEW k \in 1..(2 * n)
      PROVE  entry(list, k) \in Token
  <2>1. CASE k % 2 = 0
    <3>1. k \div 2 \in 1..n
      BY <1>1, <2>1, Halves
    <3> QED
      BY <1>1, <2>1, <3>1, Tokens
  <2>2. CASE k % 2 # 0
    BY <2>2, Tokens
  <2> QED
    BY <2>1, <2>2
<1>4. 2 * n \in Nat
  BY <1>1
<1>5. Unclosed(list) \in Seq(Token) /\ Len(Unclosed(list)) = 2 * n
  <2> HIDE DEF entry, n
  <2>1. Unclosed(list) \in [1..(2 * n) -> Token]
    BY <1>2, <1>3 DEF n
  <2> QED
    BY <1>4, <2>1, SeqDef, LenProperties
<1>6. ASSUME list = <<>>
      PROVE  Unclosed(list) = <<>>
  <2>1. n = 0
    BY <1>6, EmptySeq
  <2>2. Len(Unclosed(list)) = 0
    BY <1>5, <2>1
  <2> QED
    BY <1>5, <2>2, EmptySeq
<1>7. ASSUME NEW x \in Row
      PROVE  Unclosed(Append(list, x)) =
                 Unclosed(list) \o (<<<<IF n = 0 THEN "[" ELSE ",">>>> \o <<<<"row", x>>>>)
  <2> DEFINE more == Append(list, x)
             sep == <<IF n = 0 THEN "[" ELSE ",">>
             text == <<sep, <<"row", x>>>>
  <2>1. /\ more \in Seq(Row) /\ Len(more) = n + 1 /\ more[n + 1] = x
        /\ \A i \in 1..n : more[i] = list[i]
    BY AppendProperties
  <2>2. sep \in Token /\ <<"row", x>> \in Token
    BY Tokens
  <2>3. <<sep>> \o <<<<"row", x>>>> = text
    <3> HIDE DEF sep
    <3> QED
      BY <2>2, TwoTokens
  <2>4. text \in Seq(Token) /\ Len(text) = 2 /\ text[1] = sep /\ text[2] = <<"row", x>>
    <3> HIDE DEF sep
    <3> QED
      BY <2>2
  <2> HIDE DEF more, text
  <2>5. Unclosed(more) = [k \in 1..(2 * n + 2) |-> entry(more, k)]
    <3>1. 2 * Len(more) = 2 * n + 2
      BY <1>1, <2>1
    <3> HIDE DEF entry, n
    <3> QED
      BY <1>2, <3>1
  <2>6. /\ Unclosed(list) \o text \in Seq(Token) /\ Len(Unclosed(list) \o text) = 2 * n + 2
        /\ \A k \in 1..(2 * n + 2) : (Unclosed(list) \o text)[k] =
               IF k <= 2 * n THEN Unclosed(list)[k] ELSE text[k - 2 * n]
    <3> DEFINE u == Unclosed(list)
    <3>1. /\ u \o text \in Seq(Token) /\ Len(u \o text) = Len(u) + Len(text)
          /\ \A k \in 1..(Len(u) + Len(text)) : (u \o text)[k] =
               IF k <= Len(u) THEN u[k] ELSE text[k - Len(u)]
      BY <1>5, <2>4, ConcatProperties
    <3> HIDE DEF u, n
    <3>2. Len(u) = 2 * n /\ Len(text) = 2
      BY <1>5, <2>4 DEF u
    <3> QED
      BY <3>1, <3>2 DEF u
  <2>7. Unclosed(list) \o text = [k \in 1..(2 * n + 2) |-> (Unclosed(list) \o text)[k]]
    BY <2>6, LenProperties
  <2>8. ASSUME NEW k \in 1..(2 * n + 2)
        PROVE  entry(more, k) = (Unclosed(list) \o text)[k]
    <3>1. CASE k <= 2 * n
      <4>1. k \in 1..(2 * n)
        BY <1>4, <3>1
      <4>2. (Unclosed(list) \o text)[k] = entry(list, k)
        <5> HIDE DEF entry
        <5> QED
          BY <1>2, <2>6, <3>1, <4>1
      <4>3. CASE k % 2 = 0
        <5>1. k \div 2 \in 1..n
          BY <1>1, <4>1, <4>3, Halves
        <5>2. more[k \div 2] = list[k \div 2]
          BY <2>1, <5>1
        <5> QED
          BY <4>2, <4>3, <5>2
      <4>4. CASE k % 2 # 0
        BY <4>2, <4>4
      <4> QED
        BY <4>3, <4>4
    <3>2. CASE k = 2 * n + 1
      <4>1. k % 2 = 1 /\ ~(k <= 2 * n) /\ k - 2 * n = 1 /\ (k = 1 <=> n = 0)
        BY <1>1, <3>2, Halves
      <4>2. (Unclosed(list) \o text)[k] = sep
        BY <2>4, <2>6, <4>1
      <4>3. entry(more, k) = <<IF k = 1 THEN "[" ELSE ",">>
        <5>1. k % 2 # 0
          BY <4>1
        <5> QED
          BY ONLY <5>1
      <4>4. (k = 1) = (n = 0)
        BY <4>1
      <4> QED
        BY <4>2, <4>3, <4>4
    <3>3. CASE k = 2 * n + 2
      <4>1. k % 2 = 0 /\ k \div 2 = n + 1 /\ ~(k <= 2 * n) /\ k - 2 * n = 2
        BY <1>1, <3>3, Halves
      <4>2. (Unclosed(list) \o text)[k] = <<"row", x>>
        BY <2>4, <2>6, <4>1
      <4>3. entry(more, k) = <<"row", x>>
        BY <2>1, <4>1
      <4> QED
        BY <4>2, <4>3
    <3>4. k <= 2 * n \/ k = 2 * n + 1 \/ k = 2 * n + 2
      <4> HIDE DEF n
      <4> QED
        BY <1>1
    <3> QED
      BY <3>1, <3>2, <3>3, <3>4
  <2>9. Unclosed(more) = Unclosed(list) \o text
    <3> HIDE DEF entry, n
    <3> QED
      BY <2>5, <2>7, <2>8
  <2> QED
    BY <2>3, <2>9 DEF more
<1> QED
  BY <1>5, <1>6, <1>7

\* What stands in the document of a list before it is closed, and what closes it.
Header == IF opts.format = "csv" /\ ~(ToFile /\ Existing # <<>>) THEN <<<<"header">>>> ELSE <<>>
Body(list) ==
    CASE opts.format \in {"lines", "csv"} -> Header \o InRows(list)
      [] opts.format = "json" -> Unclosed(list)
      [] opts.format = "pac" -> <<>>
Closing(list) ==
    CASE opts.format \in {"lines", "csv"} -> <<>>
      [] opts.format = "json" -> IF list = <<>> THEN Empty ELSE <<<<"]">>>>
      [] opts.format = "pac" -> <<<<"function", list>>>>

\* What the options say of the file and of the rows.
LEMMA OptsFacts ==
    ASSUME opts \in Invocations
    PROVE  /\ opts.format \in {"lines", "csv", "json", "pac"} /\ opts.sink \in {"file", "stdout"}
           /\ opts.order \in {"none", "key", "score", "shuffle"} /\ opts.limit \in Nat
           /\ opts.append \in BOOLEAN /\ opts.chained \in BOOLEAN /\ opts.capped \in BOOLEAN
           /\ opts.found[1] \in Seq(Row) /\ opts.found[2] \in Seq(Row)
           /\ opts.before \in Seq(Token) /\ Existing \in Seq(Token)
           /\ opts.capped => opts.chained
<1>1. opts \in Invocation /\ (opts.capped => opts.chained)
  BY OutputAssumption
<1>2. opts.before \in Seq(Token) /\ opts.found \in [1..2 -> Seq(Row)]
  BY <1>1 DEF Invocation
<1>3. Existing \in Seq(Token)
  BY <1>2, EmptySeq DEF Existing
<1>4. opts.found[1] \in Seq(Row) /\ opts.found[2] \in Seq(Row)
  BY <1>2
<1> QED
  BY <1>1, <1>2, <1>3, <1>4 DEF Invocation

\* The document is its body with what closes it.
LEMMA BodyFacts ==
    ASSUME opts \in Invocations, NEW list \in Seq(Row)
    PROVE  /\ Header \in Seq(Token) /\ Body(list) \in Seq(Token) /\ Closing(list) \in Seq(Token)
           /\ Document(list) = Body(list) \o Closing(list)
           /\ opts.format # "pac" => \A x \in Row :
                  Body(Append(list, x)) = Body(list) \o
                      ((IF opts.format = "json" THEN <<<<IF Len(list) = 0 THEN "[" ELSE ",">>>> ELSE <<>>)
                       \o <<<<"row", x>>>>)
<1>1. opts.format \in {"lines", "csv", "json", "pac"}
  BY OptsFacts
<1>2. Header \in Seq(Token)
  BY Tokens DEF Header
<1>3. /\ InRows(list) \in Seq(Token) /\ Unclosed(list) \in Seq(Token)
      /\ list = <<>> => Unclosed(list) = <<>>
  BY InRowsGrows, UnclosedGrows
<1>4. CASE opts.format \in {"lines", "csv"}
  <2>1. Body(list) = Header \o InRows(list) /\ Closing(list) = <<>>
    BY <1>4 DEF Body, Closing
  <2>2. Body(list) \in Seq(Token)
    BY <1>2, <1>3, <2>1, ConcatProperties
  <2>3. Body(list) \o <<>> = Body(list)
    BY <2>2, ConcatEmptySeq
  <2>4. Document(list) = Header \o InRows(list)
    <3>1. CASE opts.format = "csv"
      BY <3>1 DEF Document, Header
    <3>2. CASE opts.format = "lines"
      <4>1. Document(list) = InRows(list) /\ Header = <<>>
        BY <3>2 DEF Document, Header
      <4> QED
        BY <1>3, <4>1, ConcatEmptySeq
    <3> QED
      BY <1>4, <3>1, <3>2
  <2>5. ASSUME NEW x \in Row
        PROVE  Body(Append(list, x)) = Body(list) \o (<<>> \o <<<<"row", x>>>>)
    <3>1. Body(Append(list, x)) = Header \o InRows(Append(list, x))
      BY <1>4 DEF Body
    <3>2. InRows(Append(list, x)) = InRows(list) \o <<<<"row", x>>>>
      BY InRowsGrows
    <3>3. <<<<"row", x>>>> \in Seq(Token)
      BY Tokens
    <3>4. <<>> \o <<<<"row", x>>>> = <<<<"row", x>>>>
      BY <3>3, ConcatEmptySeq
    <3>5. Header \o (InRows(list) \o <<<<"row", x>>>>) = (Header \o InRows(list)) \o <<<<"row", x>>>>
      BY <1>2, <1>3, <3>3, ConcatAssociative
    <3> QED
      BY <2>1, <3>1, <3>2, <3>4, <3>5
  <2>6. opts.format # "json"
    BY <1>4
  <2> QED
    BY <1>2, <2>1, <2>2, <2>3, <2>4, <2>5, <2>6, Tokens
<1>5. CASE opts.format = "json"
  <2>1. /\ Body(list) = Unclosed(list) /\ Document(list) = Framed(list)
        /\ Closing(list) = IF list = <<>> THEN Empty ELSE <<<<"]">>>>
    BY <1>5 DEF Body, Document, Closing
  <2>2. \A x \in Row : Body(Append(list, x)) = Unclosed(Append(list, x))
    BY <1>5 DEF Body
  <2>3. Framed(list) = Unclosed(list) \o Closing(list)
    <3>1. CASE list = <<>>
      <4>1. Framed(list) = Empty /\ Closing(list) = Empty /\ Unclosed(list) = <<>>
        BY <1>3, <2>1, <3>1 DEF Framed
      <4>2. <<>> \o Empty = Empty
        BY Tokens, ConcatEmptySeq
      <4> QED
        BY <4>1, <4>2
    <3>2. CASE list # <<>>
      BY <2>1, <3>2 DEF Framed
    <3> QED
      BY <3>1, <3>2
  <2>4. Closing(list) \in Seq(Token)
    BY <2>1, Tokens
  <2> QED
    BY <1>2, <1>3, <1>5, <2>1, <2>2, <2>3, <2>4, UnclosedGrows
<1>6. CASE opts.format = "pac"
  <2>1. Body(list) = <<>> /\ Closing(list) = <<<<"function", list>>>> /\ Document(list) = <<<<"function", list>>>>
    BY <1>6 DEF Body, Document, Closing
  <2>2. Closing(list) \in Seq(Token) /\ Body(list) \in Seq(Token)
    BY <2>1, Tokens
  <2>3. <<>> \o Closing(list) = Closing(list)
    BY <2>2, ConcatEmptySeq
  <2> QED
    BY <1>2, <1>6, <2>1, <2>2, <2>3
<1> QED
  BY <1>1, <1>4, <1>5, <1>6
-----------------------------------------------------------------------------
(* The sink: what arrived, and what still waits in the buffer.               *)

Ink == [sheet : Seq(Token), buffer : Seq(Token), waiting : Nat, lost : BOOLEAN]

\* A file takes what waits unless it is full; a pipe has nothing waiting.
SinkFor(i) ==
    /\ i \in Ink /\ fault \in {"none", "full", "closed"}
    /\ fault = "closed" => ~ToFile
    /\ i.lost => fault = "full"
    /\ ~ToFile => i.buffer = <<>>

Flow(i) == i.sheet \o i.buffer

\* A buffer that pours out loses nothing, or its writes are the error of the next one.
LEMMA PouredFacts ==
    ASSUME NEW i, SinkFor(i)
    PROVE  /\ Poured(i) \in Ink /\ Poured(i).buffer = <<>>
           /\ Poured(i).lost => fault = "full"
           /\ fault = "none" => ~Poured(i).lost /\ Poured(i).sheet = Flow(i)
           /\ fault # "none" => Poured(i).sheet = i.sheet
<1>1. /\ i.sheet \in Seq(Token) /\ i.buffer \in Seq(Token) /\ i.lost \in BOOLEAN
      /\ i = [sheet |-> i.sheet, buffer |-> i.buffer, waiting |-> i.waiting, lost |-> i.lost]
  BY DEF SinkFor, Ink
<1>2. i.sheet \o i.buffer \in Seq(Token) /\ i.sheet \o <<>> = i.sheet
  BY <1>1, ConcatProperties, ConcatEmptySeq
<1>3. CASE i.lost \/ fault = "full"
  <2>1. Poured(i) = [sheet |-> i.sheet, buffer |-> <<>>, waiting |-> 0, lost |-> ~i.lost]
    BY <1>1, <1>3 DEF Poured
  <2>2. fault = "full"
    BY <1>3 DEF SinkFor
  <2> QED
    BY <1>1, <2>1, <2>2, EmptySeq DEF Ink
<1>4. CASE ~(i.lost \/ fault = "full")
  <2>1. Poured(i) = [sheet |-> i.sheet \o i.buffer, buffer |-> <<>>, waiting |-> 0, lost |-> i.lost]
    BY <1>1, <1>4 DEF Poured
  <2>2. fault # "none" => i.buffer = <<>>
    BY <1>4 DEF SinkFor
  <2>3. Poured(i) \in Ink
    BY <1>1, <1>2, <2>1, EmptySeq DEF Ink
  <2>4. fault # "none" => i.sheet \o i.buffer = i.sheet
    BY <1>2, <2>2
  <2>5. /\ Poured(i).buffer = <<>> /\ Poured(i).sheet = i.sheet \o i.buffer
        /\ Poured(i).lost = i.lost
    <3> DEFINE all == i.sheet \o i.buffer
    <3>1. Poured(i) = [sheet |-> all, buffer |-> <<>>, waiting |-> 0, lost |-> i.lost]
      BY <2>1
    <3> HIDE DEF all
    <3>2. Poured(i).buffer = <<>> /\ Poured(i).sheet = all /\ Poured(i).lost = i.lost
      BY <3>1
    <3> QED
      BY <3>2 DEF all
  <2>6. ~i.lost
    BY <1>4
  <2> QED
    BY <2>3, <2>4, <2>5, <2>6 DEF Flow
<1> QED
  BY <1>3, <1>4

\* A flush leaves nothing waiting, or reports the error.
LEMMA FlushedFacts ==
    ASSUME NEW i, SinkFor(i)
    PROVE  /\ SinkFor(Flushed(i)) /\ Flushed(i).buffer = <<>> /\ Flushed(i).sheet \in Seq(Token)
           /\ fault = "none" => Flushed(i).sheet = Flow(i)
           /\ fault # "none" => Flushed(i).sheet = i.sheet
<1> DEFINE p == Poured(i)
<1>1. /\ p \in Ink /\ p.buffer = <<>>
      /\ fault = "none" => p.sheet = Flow(i)
      /\ fault # "none" => p.sheet = i.sheet
  BY PouredFacts
<1> HIDE DEF p
<1>2. /\ [p EXCEPT !.lost = FALSE] \in Ink
      /\ [p EXCEPT !.lost = FALSE].sheet = p.sheet /\ [p EXCEPT !.lost = FALSE].buffer = p.buffer
      /\ [p EXCEPT !.lost = FALSE].lost = FALSE
  BY <1>1 DEF Ink
<1>3. Flushed(i) = [p EXCEPT !.lost = FALSE]
  BY DEF Flushed, p
<1>4. p.sheet \in Seq(Token)
  BY <1>1 DEF Ink
<1> HIDE DEF Flushed
<1> QED
  BY <1>1, <1>2, <1>3, <1>4 DEF SinkFor

\* What a write does: while nothing is broken the text follows what was written before, and once
\* something is nothing more arrives.
LEMMA WritesFacts ==
    ASSUME NEW i, SinkFor(i), NEW text \in Seq(Token)
    PROVE  /\ SinkFor(Writes(i, text).ink) /\ Writes(i, text).to \in {"ok", "full", "closed"}
           /\ fault = "none" => Writes(i, text).to = "ok" /\ Flow(Writes(i, text).ink) = Flow(i) \o text
           /\ fault # "none" => Writes(i, text).ink.sheet = i.sheet
<1>1. /\ i.sheet \in Seq(Token) /\ i.buffer \in Seq(Token) /\ i.waiting \in Nat /\ i.lost \in BOOLEAN
      /\ i = [sheet |-> i.sheet, buffer |-> i.buffer, waiting |-> i.waiting, lost |-> i.lost]
  BY DEF SinkFor, Ink
<1>2. ASSUME NEW j \in Ink
      PROVE  /\ Buffered(j, text).sheet = j.sheet /\ Buffered(j, text).lost = j.lost
             /\ Buffered(j, text) \in Ink /\ Flow(Buffered(j, text)) = Flow(j) \o text
  <2>1. /\ j.sheet \in Seq(Token) /\ j.buffer \in Seq(Token) /\ j.waiting \in Nat /\ j.lost \in BOOLEAN
        /\ j = [sheet |-> j.sheet, buffer |-> j.buffer, waiting |-> j.waiting, lost |-> j.lost]
    BY DEF Ink
  <2> DEFINE more == j.buffer \o text
  <2>2. Buffered(j, text) = [[j EXCEPT !.buffer = more] EXCEPT !.waiting = j.waiting + 1]
    BY DEF Buffered
  <2>3. more \in Seq(Token) /\ j.waiting + 1 \in Nat
    BY <2>1, ConcatProperties
  <2>4. j.sheet \o more = (j.sheet \o j.buffer) \o text
    BY <2>1, ConcatAssociative
  <2> HIDE DEF more
  <2>5. /\ Buffered(j, text).sheet = j.sheet /\ Buffered(j, text).lost = j.lost
        /\ Buffered(j, text).buffer = more /\ Buffered(j, text) \in Ink
    BY <2>2, <2>3 DEF Ink
  <2> QED
    BY <2>4, <2>5 DEF Flow
<1>3. CASE ToFile /\ i.waiting < BufferRoom
  <2>1. Writes(i, text) = [to |-> "ok", ink |-> Buffered(i, text)]
    BY <1>3 DEF Writes
  <2> QED
    BY <1>2, <1>3, <2>1 DEF SinkFor
<1>4. CASE ToFile /\ ~(i.waiting < BufferRoom) /\ i.lost
  <2>1. Writes(i, text) = [to |-> "full", ink |-> [sheet |-> i.sheet, buffer |-> i.buffer, waiting |-> i.waiting, lost |-> FALSE]]
    BY <1>1, <1>4 DEF Writes
  <2>2. fault # "none"
    BY <1>4 DEF SinkFor
  <2> QED
    BY <1>1, <2>1, <2>2 DEF SinkFor, Ink
<1>5. CASE ToFile /\ ~(i.waiting < BufferRoom) /\ ~i.lost
  <2> DEFINE p == Poured(i)
  <2>1. Writes(i, text) = [to |-> "ok", ink |-> Buffered(p, text)]
    BY <1>5 DEF Writes
  <2>2. /\ p \in Ink /\ p.buffer = <<>> /\ (p.lost => fault = "full")
        /\ fault = "none" => ~p.lost /\ p.sheet = Flow(i)
        /\ fault # "none" => p.sheet = i.sheet
    BY PouredFacts
  <2> HIDE DEF p
  <2>3. /\ Buffered(p, text).sheet = p.sheet /\ Buffered(p, text).lost = p.lost
        /\ Buffered(p, text) \in Ink /\ Flow(Buffered(p, text)) = Flow(p) \o text
    BY <1>2, <2>2
  <2>4. Flow(p) = p.sheet
    <3>1. p.sheet \in Seq(Token)
      BY <2>2 DEF Ink
    <3> QED
      BY <2>2, <3>1, ConcatEmptySeq DEF Flow
  <2> DEFINE b == Buffered(p, text)
  <2>5. Writes(i, text).ink = b /\ Writes(i, text).to = "ok"
    BY <2>1
  <2> HIDE DEF b
  <2>6. /\ b \in Ink /\ b.lost = p.lost /\ b.sheet = p.sheet /\ Flow(b) = p.sheet \o text
    BY <2>3, <2>4 DEF b
  <2>7. SinkFor(b)
    BY <1>5, <2>2, <2>6 DEF SinkFor
  <2> QED
    BY <2>2, <2>5, <2>6, <2>7
<1>6. CASE ~ToFile /\ (fault = "none" \/ text = <<>>)
  <2> DEFINE b == [i EXCEPT !.sheet = @ \o text]
  <2>1. Writes(i, text) = [to |-> "ok", ink |-> b]
    BY <1>6 DEF Writes
  <2>2. i.buffer = <<>>
    BY <1>6 DEF SinkFor
  <2>3. /\ i.sheet \o text \in Seq(Token) /\ (i.sheet \o text) \o <<>> = i.sheet \o text
        /\ i.sheet \o <<>> = i.sheet
    <3>1. i.sheet \o text \in Seq(Token)
      BY <1>1, ConcatProperties
    <3> QED
      BY <1>1, <3>1, ConcatEmptySeq
  <2>4. b \in Ink /\ b.sheet = i.sheet \o text /\ b.buffer = i.buffer /\ b.lost = i.lost
    BY <2>3 DEF Ink, SinkFor
  <2>5. Writes(i, text).ink = b /\ Writes(i, text).to = "ok"
    BY <2>1
  <2> HIDE DEF b
  <2>6. Flow(b) = Flow(i) \o text
    BY <2>2, <2>3, <2>4 DEF Flow
  <2>7. fault # "none" => b.sheet = i.sheet
    <3>1. fault # "none" => text = <<>>
      BY <1>6
    <3>2. fault # "none" => i.sheet \o text = i.sheet
      BY <2>3, <3>1
    <3> QED
      BY <2>4, <3>2
  <2>8. SinkFor(b)
    BY <2>2, <2>4 DEF SinkFor
  <2> QED
    BY <2>5, <2>6, <2>7, <2>8
<1>7. CASE ~ToFile /\ ~(fault = "none" \/ text = <<>>)
  <2>1. Writes(i, text) = [to |-> fault, ink |-> i]
    BY <1>7 DEF Writes
  <2> QED
    BY <1>7, <2>1 DEF SinkFor
<1> QED
  BY <1>3, <1>4, <1>5, <1>6, <1>7

-----------------------------------------------------------------------------
(* The rows a pass has to hand on.                                           *)

\* A front of a text is a front of all that begins with it.
LEMMA PrefixFacts ==
    ASSUME NEW a \in Seq(Token), NEW b \in Seq(Token), NEW c \in Seq(Token)
    PROVE  /\ IsPrefix(a, a \o b)
           /\ IsPrefix(a, b) => IsPrefix(a, b \o c)
<1>1. ASSUME NEW x \in Seq(Token), NEW y \in Seq(Token), Len(x) \in Nat, NEW n \in 0..Len(x)
      PROVE  SubSeq(x \o y, 1, n) = SubSeq(x, 1, n)
  <2>1. CASE n = 0
    <3>1. SubSeq(x \o y, 1, 0) = <<>> /\ SubSeq(x, 1, 0) = <<>>
      BY SubSeqEmpty
    <3> QED
      BY <2>1, <3>1
  <2>2. CASE n # 0
    <3>1. 1 \in 1..Len(x) /\ n \in 1..Len(x)
      BY <1>1, <2>2
    <3> QED
      BY <3>1, SubSeqOfConcat1
  <2> QED
    BY <2>1, <2>2
<1>2. Len(a) \in Nat /\ Len(b) \in Nat /\ Len(c) \in Nat
  BY LenProperties
<1>3. Len(a \o b) = Len(a) + Len(b) /\ Len(b \o c) = Len(b) + Len(c)
  BY ConcatProperties
<1>4. Len(a) \in 0..Len(a)
  BY <1>2
<1>5. SubSeq(a \o b, 1, Len(a)) = SubSeq(a, 1, Len(a))
  BY <1>1, <1>2, <1>4
<1>6. ASSUME IsPrefix(a, b)
      PROVE  IsPrefix(a, b \o c)
  <2>1. Len(a) <= Len(b) /\ SubSeq(a, 1, Len(a)) = SubSeq(b, 1, Len(a))
    BY <1>6 DEF IsPrefix
  <2>2. Len(a) \in 0..Len(b)
    BY <1>2, <2>1
  <2>3. SubSeq(b \o c, 1, Len(a)) = SubSeq(b, 1, Len(a))
    BY <1>1, <1>2, <2>2
  <2>4. Len(a) <= Len(b \o c)
    BY <1>2, <1>3, <2>1
  <2> QED
    BY <2>1, <2>3, <2>4 DEF IsPrefix
<1>7. Len(a) <= Len(a \o b)
  BY <1>2, <1>3
<1> QED
  BY <1>5, <1>6, <1>7 DEF IsPrefix

Supplied == opts.found[pass]
\* The rows a pass collects, and what is arranged of them.
Picked == IF opts.order = "score" THEN Matching(Supplied) ELSE FirstOf(Matching(Supplied), cap)
Gathered == IF stopped THEN kept ELSE Picked

\* The first rows of a list, as many as the limit allows.
LEMMA FirstOfFacts ==
    ASSUME NEW s \in Seq(Row), NEW n \in Nat
    PROVE  /\ FirstOf(s, n) \in Seq(Row)
           /\ n > 0 => Len(FirstOf(s, n)) <= n
           /\ n = 0 \/ Len(s) <= n => FirstOf(s, n) = s
           /\ AllWanted(s) => AllWanted(FirstOf(s, n))
<1>1. Len(s) \in Nat /\ \A i \in 1..Len(s) : s[i] \in Row
  BY RowsOfList
<1>2. CASE n > 0 /\ n < Len(s)
  <2>1. 1 \in Int /\ n \in Int /\ \A i \in 1..n : s[i] \in Row
    BY <1>1, <1>2
  <2>2. /\ SubSeq(s, 1, n) \in Seq(Row) /\ Len(SubSeq(s, 1, n)) = (IF 1 <= n THEN n - 1 + 1 ELSE 0)
        /\ \A i \in 1..(n - 1 + 1) : SubSeq(s, 1, n)[i] = s[1 + i - 1]
    BY <2>1, SubSeqProperties
  <2>3. FirstOf(s, n) = SubSeq(s, 1, n)
    BY <1>2 DEF FirstOf
  <2>4. Len(SubSeq(s, 1, n)) = n /\ \A i \in 1..n : SubSeq(s, 1, n)[i] = s[i]
    BY <1>2, <2>2
  <2>5. AllWanted(s) => AllWanted(SubSeq(s, 1, n))
    BY <1>1, <1>2, <2>4 DEF AllWanted
  <2> QED
    BY <1>1, <1>2, <2>2, <2>3, <2>4, <2>5
<1>3. CASE ~(n > 0 /\ n < Len(s))
  <2>1. FirstOf(s, n) = s
    BY <1>3 DEF FirstOf
  <2> QED
    BY <1>1, <1>3, <2>1
<1> QED
  BY <1>2, <1>3

\* A pass that has handed on all there was, or as many rows as it may, has handed on those that
\* order and limit promise.
LEMMA ChosenWhenDone ==
    ASSUME opts \in Invocations, pass \in 1..2, cap \in Nat, pass = 1 => cap = opts.limit,
           kept \in Seq(Row),
           NEW e \in Seq(Row), NEW rest \in Seq(Row), NEW n \in 0..Len(Supplied),
           \/ cap > 0 /\ Len(e) = cap
           \/ rest = <<>> /\ (cap > 0 => Len(e) <= cap),
           IF Ordered THEN e \o rest \in Arranged(Gathered)
           ELSE e = Matching(SubSeq(Supplied, 1, n)) /\ rest = SubSeq(Supplied, n + 1, Len(Supplied))
    PROVE  /\ ~stopped => e \in Chosen(pass)
           /\ stopped /\ Ordered => e \in {FirstOf(list, cap) : list \in Arranged(kept)}
<1> DEFINE wanted == Matching(Supplied)
<1>1. Supplied \in Seq(Row) /\ wanted \in Seq(Row) /\ InOrder(wanted) \in Seq(Row)
  <2>1. Supplied \in Seq(Row)
    BY OptsFacts DEF Supplied
  <2> QED
    BY <2>1, MatchingFacts, SortIsStable
<1>2. Chosen(pass) = IF opts.order = "score" THEN {FirstOf(InOrder(wanted), cap)}
                     ELSE IF Ordered THEN Arranged(FirstOf(wanted, cap)) ELSE {FirstOf(wanted, cap)}
  BY DEF Chosen, Supplied
<1>3. ASSUME Ordered
      PROVE  e = FirstOf(e \o rest, cap) /\ e \o rest \in Arranged(Gathered)
  BY <1>3, TakenIsFirst
<1> HIDE DEF wanted
<1>4. ASSUME Ordered, stopped
      PROVE  e \in {FirstOf(list, cap) : list \in Arranged(kept)}
  BY <1>3, <1>4 DEF Gathered
<1>5. ASSUME Ordered, ~stopped
      PROVE  e \in Chosen(pass)
  <2>1. CASE opts.order = "score"
    <3>1. e \o rest = InOrder(wanted)
      BY <1>3, <1>5, <2>1 DEF Gathered, Picked, Arranged, wanted
    <3> QED
      BY <1>2, <1>3, <1>5, <2>1, <3>1
  <2>2. CASE opts.order # "score"
    <3>1. e \o rest \in Arranged(FirstOf(wanted, cap))
      BY <1>3, <1>5, <2>2 DEF Gathered, Picked, wanted
    <3>2. e \o rest \in Seq(Row) /\ (cap > 0 => Len(e \o rest) <= cap)
      BY <1>1, <3>1, FirstOfFacts, ArrangedFacts
    <3>3. FirstOf(e \o rest, cap) = e \o rest
      <4>1. cap = 0 \/ Len(e \o rest) <= cap
        BY <3>2
      <4> QED
        BY <3>2, <4>1, FirstOfFacts
    <3>4. e = e \o rest
      BY <1>3, <1>5, <3>3
    <3> QED
      BY <1>2, <1>5, <2>2, <3>1, <3>4
  <2> QED
    BY <2>1, <2>2
<1>6. ASSUME ~Ordered
      PROVE  e \in Chosen(pass)
  <2>1. e = Matching(SubSeq(Supplied, 1, n)) /\ rest = SubSeq(Supplied, n + 1, Len(Supplied))
    BY <1>6
  <2>2. rest = <<>> => n = Len(Supplied)
    BY <1>1, <2>1, ReadOn
  <2>3. e = FirstOf(wanted, cap)
    <3>1. \/ cap > 0 /\ Len(Matching(SubSeq(Supplied, 1, n))) = cap
          \/ n = Len(Supplied) /\ (cap > 0 => Len(Matching(SubSeq(Supplied, 1, n))) <= cap)
      BY <2>1, <2>2
    <3> QED
      BY <1>1, <2>1, <3>1, FrontIsFirst DEF wanted
  <2>4. opts.order # "score"
    BY <1>6 DEF Ordered
  <2> QED
    BY <1>2, <1>6, <2>3, <2>4
<1> QED
  BY <1>4, <1>5, <1>6

-----------------------------------------------------------------------------
(* What is true of every state of a run.                                     *)

SinkInv ==
    /\ SinkFor(ink)
    /\ fault = "none" => ~failed
    /\ at \in {"open", "collect", "header", "between"} => ink.buffer = <<>>

\* A fallback pass has room left for it.
PassInv ==
    /\ pass = 1 => emitted[2] = <<>> /\ cap = opts.limit
    /\ pass = 2 \/ at = "between" => opts.chained
    /\ at = "between" => pass = 1
    /\ pass = 2 /\ opts.limit > 0 =>
        cap > 0 /\ (opts.format # "pac" => Len(emitted[1]) + cap <= opts.limit)

CountInv ==
    /\ items = IF opts.format = "pac" THEN 0 ELSE Len(emitted[1]) + Len(emitted[2])
    /\ at \in {"open", "collect", "header"} => emitted[pass] = <<>>
    /\ at = "gather" => opts.format = "pac"
    /\ at = "rows" => opts.format # "pac"
    /\ opts.format = "pac" /\ at \in {"header", "gather", "close"} => held = emitted[pass]
    /\ cap > 0 => Len(emitted[pass]) <= cap
    /\ cap > 0 /\ at \in {"rows", "gather"} => Len(emitted[pass]) < cap

StopInv ==
    /\ fault = "none" /\ kept # <<>> => stopped /\ Ordered
    /\ at \in {"open", "collect"} => ~stopped
    /\ fault = "none" /\ at = "between" => ~stopped
    /\ ~Ordered /\ at \in {"header", "rows", "gather"} => ~stopped
    /\ at = "collect" => Ordered

\* What was read is the front of what the source had.
ReadInv ==
    /\ taken <= Len(Supplied) /\ Len(emitted[pass]) <= taken
    /\ at = "open" => taken = 0
    /\ at \in {"open", "collect"} \/ (~Ordered /\ at \in {"header", "rows", "gather"}) =>
        supply = SubSeq(Supplied, taken + 1, Len(Supplied))
    /\ at \in {"open", "collect"} =>
        held = Matching(SubSeq(Supplied, 1, taken)) /\ AllWanted(held) /\ Len(held) <= taken
    /\ at = "collect" /\ opts.order # "score" /\ cap > 0 => Len(held) < cap
    /\ Ordered /\ at \in {"header", "rows", "gather"} => Len(emitted[pass]) + Len(supply) <= taken

\* The rows written so far and those still to write are those that were gathered.
PickInv ==
    fault = "none" =>
        /\ at \in {"header", "rows", "gather"} =>
            IF Ordered THEN emitted[pass] \o supply \in Arranged(Gathered) /\ AllWanted(supply)
            ELSE emitted[pass] = Matching(SubSeq(Supplied, 1, taken))
        /\ at = "close" =>
            /\ ~stopped => emitted[pass] \in Chosen(pass)
            /\ kept # <<>> => emitted[pass] \in {FirstOf(list, cap) : list \in Arranged(kept)}
        /\ pass = 2 \/ at = "between" => emitted[1] \in Chosen(1)

Content ==
    IF pass = 1 /\ at \in {"collect", "header"} THEN Existing
    ELSE IF at = "between" /\ opts.format = "pac" THEN Existing \o Document(Written)
    ELSE Existing \o Body(Written)

\* What arrived, with what waits, is the document so far; after a fault it is the front of it.
SheetInv ==
    IF pass = 1 /\ at = "open" THEN ink.sheet = opts.before
    ELSE /\ pass = 1 /\ at \in {"collect", "header"} => ink.sheet = Existing
         /\ at # "done" /\ OnePac =>
             /\ fault = "none" => Flow(ink) = Content
             /\ IsPrefix(ink.sheet, Content)

OutputInv ==
    /\ OutputTypeOK /\ SinkInv /\ PassInv /\ CountInv /\ StopInv /\ ReadInv /\ PickInv /\ SheetInv
    /\ DocumentAsPromised
-----------------------------------------------------------------------------
(* What depends on nothing but the options does not change.                  *)

\* With the same options, what is promised stays the same.
LEMMA SameOptions ==
    ASSUME opts' = opts
    PROVE  /\ ToFile' <=> ToFile
           /\ Ordered' <=> Ordered
           /\ Existing' = Existing
           /\ \A list : Arranged(list)' = Arranged(list)
           /\ \A list : Body(list)' = Body(list)
           /\ \A list : Document(list)' = Document(list)
           /\ Chosen(1)' = Chosen(1)
<1>1. (ToFile' <=> ToFile) /\ (Ordered' <=> Ordered) /\ Existing' = Existing
  BY DEF ToFile, Ordered, Existing
<1>2. \A list : Arranged(list)' = Arranged(list)
  BY DEF Arranged
<1>3. \A list : Body(list)' = Body(list)
  BY DEF Body, Header, ToFile, Existing
<1>4. \A list : Document(list)' = Document(list)
  BY DEF Document, ToFile, Existing
<1>5. Chosen(1)' = Chosen(1)
  BY <1>1, <1>2 DEF Chosen
<1> QED
  BY <1>1, <1>2, <1>3, <1>4, <1>5

\* Nor what depends on the pass alone, within a pass.
LEMMA SamePass ==
    ASSUME opts' = opts, pass' = pass, cap' = cap
    PROVE  /\ Supplied' = Supplied /\ Picked' = Picked
           /\ Chosen(pass)' = Chosen(pass)
           /\ OnePac' <=> OnePac
<1>1. Supplied' = Supplied /\ Picked' = Picked
  BY DEF Supplied, Picked
<1>2. Chosen(pass)' = Chosen(pass)
  BY SameOptions DEF Chosen
<1> QED
  BY <1>1, <1>2 DEF OnePac

\* With the same fault, what the sink may hold stays the same.
LEMMA SameSink ==
    ASSUME opts' = opts, fault' = fault
    PROVE  \A i : SinkFor(i)' <=> SinkFor(i)
BY SameOptions DEF SinkFor

\* What was written of both passes is a list of rows.
LEMMA WrittenRows ==
    ASSUME OutputTypeOK
    PROVE  /\ emitted[1] \in Seq(Row) /\ emitted[2] \in Seq(Row) /\ emitted[pass] \in Seq(Row)
           /\ Written \in Seq(Row) /\ Len(Written) = Len(emitted[1]) + Len(emitted[2])
           /\ Len(emitted[1]) \in Nat /\ Len(emitted[2]) \in Nat
           /\ emitted[2] = <<>> => Written = emitted[1]
           /\ Supplied \in Seq(Row) /\ Len(Supplied) \in Nat
<1>1. emitted[1] \in Seq(Row) /\ emitted[2] \in Seq(Row) /\ emitted[pass] \in Seq(Row)
  BY DEF OutputTypeOK
<1>2. Written \in Seq(Row) /\ Len(Written) = Len(emitted[1]) + Len(emitted[2])
  BY <1>1, ConcatProperties DEF Written
<1>3. emitted[2] = <<>> => Written = emitted[1]
  BY <1>1, ConcatEmptySeq DEF Written
<1>4. Supplied \in Seq(Row)
  BY OptsFacts DEF OutputTypeOK, Supplied
<1> QED
  BY <1>1, <1>2, <1>3, <1>4, LenProperties

\* A row emitted now comes last of all that was written.
LEMMA WrittenGrows ==
    ASSUME OutputTypeOK, PassInv, NEW x \in Row,
           emitted' = [emitted EXCEPT ![pass] = Append(emitted[pass], x)]
    PROVE  /\ Written' = Append(Written, x)
           /\ emitted' \in [1..2 -> Seq(Row)] /\ emitted'[pass] = Append(emitted[pass], x)
           /\ Len(emitted'[pass]) = Len(emitted[pass]) + 1
           /\ pass = 2 => emitted'[1] = emitted[1]
           /\ pass = 1 => emitted'[2] = <<>>
           /\ Len(emitted'[1]) + Len(emitted'[2]) = Len(emitted[1]) + Len(emitted[2]) + 1
<1>1. /\ emitted \in [1..2 -> Seq(Row)] /\ pass \in 1..2
      /\ emitted[1] \in Seq(Row) /\ emitted[2] \in Seq(Row) /\ emitted[pass] \in Seq(Row)
      /\ Len(emitted[1]) \in Nat /\ Len(emitted[2]) \in Nat
  BY WrittenRows DEF OutputTypeOK
<1>2. /\ Append(emitted[pass], x) \in Seq(Row)
      /\ Len(Append(emitted[pass], x)) = Len(emitted[pass]) + 1
  BY <1>1, AppendProperties
<1>3. /\ emitted' \in [1..2 -> Seq(Row)] /\ emitted'[pass] = Append(emitted[pass], x)
      /\ pass = 2 => emitted'[1] = emitted[1]
      /\ pass = 1 => emitted'[2] = emitted[2]
  BY <1>1, <1>2
<1>4. pass = 1 => emitted[2] = <<>>
  BY DEF PassInv
<1>5. CASE pass = 1
  <2>1. Written' = emitted'[1] \o <<>> /\ Written = emitted[1]
    BY <1>3, <1>4, <1>5, WrittenRows DEF Written
  <2>2. emitted'[1] \o <<>> = emitted'[1]
    BY <1>2, <1>3, <1>5, ConcatEmptySeq
  <2>3. Written' = Append(Written, x)
    BY <1>3, <1>5, <2>1, <2>2
  <2> QED
    BY <1>1, <1>2, <1>3, <1>4, <1>5, <2>3
<1>6. CASE pass = 2
  <2>1. Written' = emitted[1] \o Append(emitted[2], x) /\ Written = emitted[1] \o emitted[2]
    BY <1>3, <1>6 DEF Written
  <2>2. Append(emitted[2], x) = emitted[2] \o <<x>>
    BY <1>1, AppendIsConcat
  <2>3. Append(emitted[1] \o emitted[2], x) = (emitted[1] \o emitted[2]) \o <<x>>
    BY <1>1, ConcatProperties, AppendIsConcat
  <2>4. <<x>> \in Seq(Row)
    OBVIOUS
  <2>5. (emitted[1] \o emitted[2]) \o <<x>> = emitted[1] \o (emitted[2] \o <<x>>)
    BY <1>1, <2>4, ConcatAssociative, SMTT(30)
  <2>6. Written' = Append(Written, x)
    BY <2>1, <2>2, <2>3, <2>5
  <2> QED
    BY <1>1, <1>2, <1>3, <1>6, <2>6
<1>7. pass = 1 \/ pass = 2
  BY <1>1
<1> QED
  BY <1>5, <1>6, <1>7
-----------------------------------------------------------------------------
\* What arrived is the front of the whole document, in every state but the one before the file
\* is opened.
LEMMA FrontArrived ==
    ASSUME OutputTypeOK, SheetInv, at # "done", OnePac
    PROVE  /\ ink.sheet = opts.before \/ IsPrefix(ink.sheet, Existing \o Document(Written))
           /\ ~(pass = 1 /\ at = "open") => IsPrefix(ink.sheet, Existing \o Document(Written))
           /\ Existing \in Seq(Token) /\ Body(Written) \in Seq(Token) /\ Closing(Written) \in Seq(Token)
           /\ Existing \o Document(Written) = (Existing \o Body(Written)) \o Closing(Written)
<1> DEFINE body == Body(Written)
           closing == Closing(Written)
           doc == Document(Written)
<1>1. /\ Existing \in Seq(Token) /\ body \in Seq(Token) /\ closing \in Seq(Token)
      /\ doc = body \o closing
  BY WrittenRows, OptsFacts, BodyFacts DEF OutputTypeOK
<1>2. ink.sheet \in Seq(Token)
  BY DEF OutputTypeOK
<1>3. Content \in {Existing, Existing \o body, Existing \o doc}
  BY DEF Content
<1> HIDE DEF body, closing, doc
<1>4. doc \in Seq(Token) /\ Existing \o body \in Seq(Token) /\ Existing \o doc \in Seq(Token)
  BY <1>1, ConcatProperties
<1>5. Existing \o doc = (Existing \o body) \o closing
  BY <1>1, ConcatAssociative, SMTT(30)
<1>6. IsPrefix(ink.sheet, Content) => IsPrefix(ink.sheet, Existing \o doc)
  <2>1. IsPrefix(ink.sheet, Existing) => IsPrefix(ink.sheet, Existing \o doc)
    BY <1>1, <1>2, <1>4, PrefixFacts
  <2>2. IsPrefix(ink.sheet, Existing \o body) => IsPrefix(ink.sheet, (Existing \o body) \o closing)
    BY <1>1, <1>2, <1>4, PrefixFacts
  <2> QED
    BY <1>3, <1>5, <2>1, <2>2
<1>7. ~(pass = 1 /\ at = "open") => IsPrefix(ink.sheet, Content)
  BY DEF SheetInv
<1>8. pass = 1 /\ at = "open" => ink.sheet = opts.before
  BY DEF SheetInv
<1> QED
  BY <1>1, <1>5, <1>6, <1>7, <1>8 DEF body, closing, doc

\* A run that ends with an error, or after a fault, leaves the front of the document.
LEMMA EndsBadly ==
    ASSUME OutputTypeOK, SheetInv, at # "done",
           opts' = opts, emitted' = emitted, pass' = pass, ink'.sheet = ink.sheet,
           result' = "error" \/ fault' # "none"
    PROVE  DocumentAsPromised'
<1>1. /\ Existing' = Existing /\ Document(Written)' = Document(Written) /\ (OnePac' <=> OnePac)
  <2>1. Written' = Written
    BY DEF Written
  <2> QED
    BY <2>1, SameOptions DEF OnePac
<1>2. OnePac => ink.sheet = opts.before \/ IsPrefix(ink.sheet, Existing \o Document(Written))
  BY FrontArrived
<1> QED
  BY <1>1, <1>2 DEF DocumentAsPromised
\* What has arrived, when nothing is written and no row is taken.
LEMMA SameSheet ==
    ASSUME SheetInv, opts' = opts, pass' = pass, ink' = ink, fault' = fault, emitted' = emitted,
           \/ at \in {"collect", "header"} /\ at' \in {"collect", "header"}
           \/ at \in {"rows", "gather", "close"} /\ at' \in {"rows", "gather", "close"}
    PROVE  SheetInv'
<1>1. Written' = Written
  BY DEF Written
<1>2. Existing' = Existing /\ Body(Written)' = Body(Written) /\ (OnePac' <=> OnePac)
  BY <1>1, SameOptions DEF OnePac
<1>3. Content' = Content
  BY <1>2 DEF Content
<1> QED
  BY <1>2, <1>3 DEF SheetInv

-----------------------------------------------------------------------------
(* One lemma per action.                                                     *)

\* The file is opened, and appended to if it is the list of the first pass.
LEMMA OpensStep == ASSUME OutputInv, OpensOutput PROVE OutputInv'
<1>1. /\ OutputTypeOK /\ SinkInv /\ PassInv /\ CountInv /\ StopInv /\ ReadInv /\ PickInv /\ SheetInv
      /\ opts \in Invocations /\ opts.before \in Seq(Token)
  BY OptsFacts DEF OutputInv, OutputTypeOK
<1>2. /\ at = "open" /\ opts' = opts /\ pass' = pass /\ taken' = taken /\ cap' = cap /\ items' = items
      /\ supply' = supply /\ held' = held /\ fault' = fault /\ failed' = failed /\ stopped' = stopped
      /\ emitted' = emitted /\ kept' = kept
      /\ at' \in {"collect", "header", "done"}
      /\ at' = "collect" => Ordered
      /\ at' = "header" => ~Ordered
  BY DEF OpensOutput, EndsAs, progress
<1>3. /\ ink'.sheet = (IF at' # "done" /\ ToFile /\ ~opts.append /\ pass = 1 THEN <<>> ELSE ink.sheet)
      /\ ink'.buffer = ink.buffer /\ ink' \in Ink /\ SinkFor(ink')
      /\ at' = "done" => result' = "error"
  BY <1>1, <1>2 DEF OpensOutput, EndsAs, OutputTypeOK, SinkInv, SinkFor, Ink
<1>4. OutputTypeOK'
  BY <1>1, <1>2, <1>3 DEF OutputTypeOK, OpensOutput, EndsAs, Ink
<1>5. SinkInv'
  BY <1>1, <1>2, <1>3, SameSink DEF SinkInv
<1>6. PassInv'
  BY <1>1, <1>2 DEF PassInv
<1>7. CountInv'
  <2>1. held = <<>>
    BY <1>1, <1>2, EmptySeq DEF ReadInv, OutputTypeOK
  <2> QED
    BY <1>1, <1>2, <2>1 DEF CountInv
<1>8. StopInv'
  BY <1>1, <1>2, SameOptions DEF StopInv
<1>9. ReadInv'
  BY <1>1, <1>2, SameOptions, SamePass DEF ReadInv
<1>10. PickInv'
  BY <1>1, <1>2, SameOptions, SamePass DEF PickInv, ReadInv
<1>11. SheetInv'
  <2>1. Existing' = Existing /\ Body(Written)' = Body(Written) /\ (ToFile' <=> ToFile) /\ (OnePac' <=> OnePac)
    <3>1. Written' = Written
      BY <1>2 DEF Written
    <3> QED
      BY <1>2, <3>1, SameOptions DEF OnePac
  <2>2. ink.buffer = <<>> /\ ink.sheet \in Seq(Token) /\ ink'.sheet \in Seq(Token)
    BY <1>1, <1>2, <1>4 DEF SinkInv, OutputTypeOK
  <2>3. Flow(ink') = ink'.sheet /\ Flow(ink) = ink.sheet
    BY <1>3, <2>2, ConcatEmptySeq DEF Flow
  <2>4. CASE pass = 1 /\ at' # "done"
    <3>1. ink'.sheet = Existing'
      BY <1>1, <1>2, <1>3, <2>1, <2>4 DEF SheetInv, Existing
    <3>2. IsPrefix(Existing, Existing)
      BY <1>1, OptsFacts, PrefixFacts, ConcatEmptySeq, EmptySeq
    <3>3. Content' = Existing
      BY <1>2, <2>1, <2>4 DEF Content
    <3> QED
      BY <1>2, <2>1, <2>3, <2>4, <3>1, <3>2, <3>3 DEF SheetInv
  <2>5. CASE pass = 2 /\ at' # "done"
    <3>1. ink'.sheet = ink.sheet /\ Content' = Existing \o Body(Written) /\ Content = Existing \o Body(Written)
      BY <1>2, <1>3, <2>1, <2>5 DEF Content
    <3> QED
      BY <1>1, <1>2, <2>1, <2>3, <2>5, <3>1 DEF SheetInv
  <2> QED
    BY <1>1, <1>2, <2>1, <2>4, <2>5 DEF SheetInv, OutputTypeOK
<1>12. DocumentAsPromised'
  BY <1>1, <1>2, <1>3, EndsBadly DEF DocumentAsPromised
<1> QED
  BY <1>4, <1>5, <1>6, <1>7, <1>8, <1>9, <1>10, <1>11, <1>12 DEF OutputInv

\* A step that ends the run with what was promised.
LEMMA EndingStep ==
    ASSUME OutputInv, at # "done", at' = "done",
           UNCHANGED <<opts, progress, supply, held, fault, emitted, kept>>,
           SinkFor(ink'), failed' \in BOOLEAN, stopped' \in BOOLEAN,
           result' \in {"none", "finished", "cancelled", "error"},
           fault = "none" => ~failed' /\ (stopped => stopped'),
           DocumentAsPromised'
    PROVE  OutputInv'
<1>1. /\ OutputTypeOK /\ SinkInv /\ PassInv /\ CountInv /\ StopInv /\ ReadInv /\ PickInv /\ SheetInv
  BY DEF OutputInv
<1>2. /\ opts' = opts /\ pass' = pass /\ taken' = taken /\ cap' = cap /\ items' = items
      /\ supply' = supply /\ held' = held /\ fault' = fault /\ emitted' = emitted /\ kept' = kept
  BY DEF progress
<1>3. ink' \in Ink
  BY DEF SinkFor
<1>4. OutputTypeOK'
  BY <1>1, <1>2, <1>3 DEF OutputTypeOK, Ink
<1>5. SinkInv'
  BY <1>1, <1>2, SameSink DEF SinkInv
<1>6. PassInv'
  BY <1>1, <1>2 DEF PassInv
<1>7. CountInv'
  BY <1>1, <1>2 DEF CountInv
<1>8. StopInv'
  BY <1>1, <1>2, SameOptions DEF StopInv
<1>9. ReadInv'
  BY <1>1, <1>2, SameOptions, SamePass DEF ReadInv
<1>10. PickInv'
  BY <1>1, <1>2, SameOptions, SamePass DEF PickInv
<1>11. SheetInv'
  BY <1>1, <1>2, SameOptions, SamePass DEF SheetInv
<1> QED
  BY <1>4, <1>5, <1>6, <1>7, <1>8, <1>9, <1>10, <1>11 DEF OutputInv

\* The file cannot be opened: nothing is written.
LEMMA OpenFailsStep == ASSUME OutputInv, OpenFails PROVE OutputInv'
<1>1. /\ at # "done" /\ at' = "done" /\ result' = "error" /\ ink' = ink /\ failed' = failed /\ stopped' = stopped
      /\ UNCHANGED <<opts, progress, supply, held, fault, emitted, kept>>
  BY DEF OpenFails, EndsAs
<1>2. OutputTypeOK /\ SinkInv /\ SheetInv
  BY DEF OutputInv
<1>3. DocumentAsPromised'
  BY <1>1, <1>2, EndsBadly DEF progress
<1>4. /\ SinkFor(ink') /\ failed' \in BOOLEAN /\ stopped' \in BOOLEAN
      /\ fault = "none" => ~failed' /\ (stopped => stopped')
  BY <1>1, <1>2 DEF SinkInv, OutputTypeOK
<1> QED
  BY <1>1, <1>3, <1>4, EndingStep

\* What was collected is arranged and stands where the source stood.
LEMMA ArrangesStep ==
    ASSUME OutputInv, at = "collect",
           UNCHANGED <<opts, pass, cap, items, ink, fault, failed, result, emitted>>,
           NEW list \in Seq(Row), Arrange(list), AllWanted(list),
           taken' \in Nat, taken' <= Len(Supplied), Len(list) <= taken',
           stopped' \in BOOLEAN, kept' \in Seq(Row), Gathered' = list,
           fault = "none" /\ kept' # <<>> => stopped'
    PROVE  OutputInv'
<1>1. /\ OutputTypeOK /\ SinkInv /\ PassInv /\ CountInv /\ StopInv /\ ReadInv /\ PickInv /\ SheetInv
  BY DEF OutputInv
<1>2. /\ at' = "header" /\ held' = <<>> /\ supply' \in Arranged(list)
      /\ opts' = opts /\ pass' = pass /\ cap' = cap /\ items' = items /\ ink' = ink /\ fault' = fault
      /\ failed' = failed /\ result' = result /\ emitted' = emitted
  BY DEF Arrange
<1>3. /\ supply' \in Seq(Row) /\ Len(supply') = Len(list) /\ AllWanted(supply')
  BY <1>2, ArrangedFacts
<1>4. emitted[pass] = <<>> /\ Ordered /\ emitted[pass] \o supply' = supply' /\ <<>> \in Seq(Row) /\ Len(<<>>) = 0
  BY <1>1, <1>3, ConcatEmptySeq, EmptySeq DEF CountInv, StopInv
<1>5. OutputTypeOK'
  BY <1>1, <1>2, <1>3, <1>4 DEF OutputTypeOK
<1>6. SinkInv'
  BY <1>1, <1>2, SameSink DEF SinkInv
<1>7. PassInv'
  BY <1>1, <1>2 DEF PassInv
<1>8. CountInv'
  BY <1>1, <1>2, <1>4 DEF CountInv
<1>9. StopInv'
  BY <1>1, <1>2, <1>4, SameOptions DEF StopInv
<1>10. ReadInv'
  <2>1. Len(list) \in Nat /\ Len(emitted[pass]) = 0
    BY <1>4, LenProperties
  <2> QED
    BY <1>1, <1>2, <1>3, <1>4, <2>1, SameOptions, SamePass DEF ReadInv
<1>11. PickInv'
  <2>1. supply' \in Arranged(Gathered)'
    BY <1>2, SameOptions
  <2> QED
    BY <1>1, <1>2, <1>3, <1>4, <2>1, SameOptions, SamePass DEF PickInv
<1>12. SheetInv'
  BY <1>1, <1>2, SameSheet
<1>13. DocumentAsPromised'
  BY <1>2 DEF DocumentAsPromised
<1> QED
  BY <1>5, <1>6, <1>7, <1>8, <1>9, <1>10, <1>11, <1>12, <1>13 DEF OutputInv

\* A row read alone is kept if it is wanted.
LEMMA MatchingOfOne ==
    ASSUME NEW x \in Row
    PROVE  Matching(<<x>>) = IF x.wanted THEN <<x>> ELSE <<>>
<1>1. <<>> \in Seq(Row) /\ Append(<<>>, x) = <<x>>
  BY AppendProperties
<1> QED
  BY <1>1, MatchingOfOneMore, MatchingOfNone

\* One more row is read, and collected when it is wanted.
LEMMA CollectedFacts ==
    ASSUME OutputTypeOK, ReadInv, at = "collect", supply # <<>>
    PROVE  LET list == held \o Matching(<<Head(supply)>>) IN
           /\ list \in Seq(Row) /\ list = Matching(SubSeq(Supplied, 1, taken + 1))
           /\ AllWanted(list) /\ Len(list) <= Len(held) + 1
           /\ Tail(supply) = SubSeq(Supplied, (taken + 1) + 1, Len(Supplied))
           /\ taken + 1 <= Len(Supplied) /\ Tail(supply) \in Seq(Row)
<1> DEFINE x == Head(supply)
           one == Matching(<<x>>)
           list == held \o one
           front == SubSeq(Supplied, 1, taken)
<1>1. /\ Supplied \in Seq(Row) /\ taken \in 0..Len(Supplied) /\ held \in Seq(Row) /\ supply \in Seq(Row)
      /\ supply = SubSeq(Supplied, taken + 1, Len(Supplied))
      /\ held = Matching(front) /\ AllWanted(held)
  BY WrittenRows DEF OutputTypeOK, ReadInv
<1>2. /\ front \in Seq(Row) /\ x = Supplied[taken + 1] /\ x \in Row /\ taken + 1 \in 0..Len(Supplied)
      /\ Tail(supply) = SubSeq(Supplied, (taken + 1) + 1, Len(Supplied))
      /\ SubSeq(Supplied, 1, taken + 1) = Append(front, x)
  BY <1>1, ReadOn, SMTT(30)
<1>3. Tail(supply) \in Seq(Row)
  BY <1>1, HeadTailProperties
<1> HIDE DEF x, front
<1>4. one = IF x.wanted THEN <<x>> ELSE <<>>
  BY <1>2, MatchingOfOne
<1>5. Matching(Append(front, x)) = IF x.wanted THEN Append(held, x) ELSE held
  BY <1>1, <1>2, MatchingOfOneMore
<1> HIDE DEF one
<1>6. list = (IF x.wanted THEN Append(held, x) ELSE held)
  BY <1>1, <1>2, <1>4, AppendIsConcat, ConcatEmptySeq
<1>7. /\ Append(held, x) \in Seq(Row) /\ Len(Append(held, x)) = Len(held) + 1 /\ Len(held) \in Nat
      /\ \A i \in 1..Len(held) : Append(held, x)[i] = held[i]
      /\ Append(held, x)[Len(held) + 1] = x
  BY <1>1, <1>2, AppendProperties, LenProperties
<1>8. x.wanted => AllWanted(Append(held, x))
  BY <1>1, <1>7 DEF AllWanted
<1> HIDE DEF list
<1>9. list \in Seq(Row) /\ AllWanted(list) /\ Len(list) <= Len(held) + 1
  BY <1>1, <1>6, <1>7, <1>8
<1>10. taken + 1 <= Len(Supplied)
  BY <1>1, <1>2
<1> QED
  BY <1>2, <1>3, <1>5, <1>6, <1>9, <1>10 DEF list, one, x, front

\* The source is exhausted: what was collected is arranged.
LEMMA CollectEndsStep == ASSUME OutputInv, CollectEnds PROVE OutputInv'
<1>1. /\ OutputTypeOK /\ SinkInv /\ PassInv /\ StopInv /\ ReadInv
      /\ opts \in Invocations
  BY DEF OutputInv, OutputTypeOK
<1>2. /\ at = "collect" /\ supply = <<>> /\ Arrange(held)
      /\ UNCHANGED <<opts, progress, ink, fault, failed, stopped, result, emitted, kept>>
  BY DEF CollectEnds
<1>3. /\ Supplied \in Seq(Row) /\ taken \in 0..Len(Supplied) /\ held \in Seq(Row) /\ cap \in Nat
      /\ supply = SubSeq(Supplied, taken + 1, Len(Supplied))
      /\ held = Matching(SubSeq(Supplied, 1, taken)) /\ AllWanted(held) /\ Len(held) <= taken
  BY <1>1, <1>2, WrittenRows DEF OutputTypeOK, ReadInv
<1>4. taken = Len(Supplied)
  BY <1>2, <1>3, ReadOn
<1>5. held = Picked
  <2>1. CASE opts.order = "score"
    <3>1. held = FirstOf(Matching(Supplied), 0)
      <4>1. \/ 0 > 0 /\ Len(Matching(SubSeq(Supplied, 1, taken))) = 0
            \/ taken = Len(Supplied) /\ (0 > 0 => Len(Matching(SubSeq(Supplied, 1, taken))) <= 0)
        BY <1>4
      <4> QED
        BY <1>3, <4>1, FrontIsFirst
    <3>2. FirstOf(Matching(Supplied), 0) = Matching(Supplied)
      BY <1>3, MatchingFacts, FirstOfFacts
    <3> QED
      BY <2>1, <3>1, <3>2 DEF Picked
  <2>2. CASE opts.order # "score"
    <3>1. cap > 0 => Len(Matching(SubSeq(Supplied, 1, taken))) <= cap
      <4>1. cap > 0 => Len(held) < cap
        BY <1>1, <1>2, <2>2 DEF ReadInv
      <4>2. Len(held) \in Nat
        BY <1>3, LenProperties
      <4> QED
        BY <1>3, <4>1, <4>2
    <3>2. held = FirstOf(Matching(Supplied), cap)
      BY <1>3, <1>4, <3>1, FrontIsFirst
    <3> QED
      BY <2>2, <3>2 DEF Picked
  <2> QED
    BY <2>1, <2>2
<1>6. Gathered' = held
  <2>1. ~stopped'
    BY <1>1, <1>2 DEF StopInv
  <2> QED
    BY <1>2, <1>5, <2>1, SamePass DEF Gathered, progress
<1>7. /\ stopped' \in BOOLEAN /\ kept' \in Seq(Row) /\ taken' \in Nat /\ taken' = taken
      /\ UNCHANGED <<opts, pass, cap, items, ink, fault, failed, result, emitted>>
      /\ fault = "none" /\ kept' # <<>> => stopped'
  BY <1>1, <1>2 DEF OutputTypeOK, StopInv, progress
<1> QED
  BY <1>2, <1>3, <1>6, <1>7, ArrangesStep

\* Collecting is cancelled: what was collected so far is arranged.
LEMMA CollectCutStep == ASSUME OutputInv, CollectCut PROVE OutputInv'
<1>1. OutputTypeOK /\ ReadInv
  BY DEF OutputInv
<1>2. /\ at = "collect" /\ Arrange(held) /\ stopped' = TRUE /\ kept' = held
      /\ UNCHANGED <<opts, progress, ink, fault, failed, result, emitted>>
  BY DEF CollectCut
<1>3. held \in Seq(Row) /\ AllWanted(held) /\ Len(held) <= taken /\ taken <= Len(Supplied) /\ taken \in Nat
  BY <1>1, <1>2 DEF OutputTypeOK, ReadInv
<1>4. Gathered' = held
  BY <1>2 DEF Gathered
<1>5. /\ taken' = taken /\ UNCHANGED <<opts, pass, cap, items, ink, fault, failed, result, emitted>>
      /\ stopped' \in BOOLEAN /\ kept' \in Seq(Row)
  BY <1>2, <1>3 DEF progress
<1> QED
  BY <1>2, <1>3, <1>4, <1>5, ArrangesStep

\* A wanted row is collected, and the last the limit allows ends it.
LEMMA CollectsStep == ASSUME OutputInv, Collects PROVE OutputInv'
<1> DEFINE list == held \o Matching(<<Head(supply)>>)
<1>1. /\ OutputTypeOK /\ SinkInv /\ PassInv /\ CountInv /\ StopInv /\ ReadInv /\ PickInv /\ SheetInv
      /\ opts \in Invocations
  BY DEF OutputInv, OutputTypeOK
<1>2. /\ at = "collect" /\ supply # <<>> /\ taken' = taken + 1
      /\ IF CollectFull(list) THEN Arrange(list) ELSE held' = list /\ supply' = Tail(supply) /\ at' = at
      /\ opts' = opts /\ pass' = pass /\ cap' = cap /\ items' = items /\ ink' = ink /\ fault' = fault
      /\ failed' = failed /\ stopped' = stopped /\ result' = result /\ emitted' = emitted /\ kept' = kept
  BY DEF Collects
<1>3. /\ list \in Seq(Row) /\ list = Matching(SubSeq(Supplied, 1, taken + 1))
      /\ AllWanted(list) /\ Len(list) <= Len(held) + 1
      /\ Tail(supply) = SubSeq(Supplied, (taken + 1) + 1, Len(Supplied))
      /\ taken + 1 <= Len(Supplied) /\ Tail(supply) \in Seq(Row)
  BY <1>1, <1>2, CollectedFacts
<1> HIDE DEF list
<1>4. /\ taken \in Nat /\ cap \in Nat /\ Len(held) <= taken /\ Len(held) \in Nat /\ Len(list) \in Nat
      /\ Supplied \in Seq(Row) /\ held \in Seq(Row)
  BY <1>1, <1>2, <1>3, WrittenRows, LenProperties DEF OutputTypeOK, ReadInv
<1>5. CASE CollectFull(list)
  <2>1. opts.order # "score" /\ cap > 0 /\ Len(list) >= cap /\ Len(held) < cap
    BY <1>1, <1>2, <1>5 DEF CollectFull, ReadInv
  <2>2. Len(list) = cap
    BY <1>3, <1>4, <2>1
  <2>3. list = FirstOf(Matching(Supplied), cap)
    <3>1. taken + 1 \in 0..Len(Supplied)
      BY <1>3, <1>4, LenProperties
    <3>2. Len(Matching(SubSeq(Supplied, 1, taken + 1))) = cap
      BY <1>3, <2>2
    <3> QED
      BY <1>3, <1>4, <2>1, <3>1, <3>2, FrontIsFirst
  <2>4. Gathered' = list
    <3>1. ~stopped' /\ Picked' = Picked
      BY <1>1, <1>2, SamePass DEF StopInv
    <3> QED
      BY <2>1, <2>3, <3>1 DEF Gathered, Picked
  <2>5. /\ taken' \in Nat /\ taken' <= Len(Supplied) /\ Len(list) <= taken'
        /\ stopped' \in BOOLEAN /\ kept' \in Seq(Row) /\ (fault = "none" /\ kept' # <<>> => stopped')
    BY <1>1, <1>2, <1>3, <1>4 DEF OutputTypeOK, StopInv
  <2>6. Arrange(list) /\ UNCHANGED <<opts, pass, cap, items, ink, fault, failed, result, emitted>>
    BY <1>2, <1>5
  <2> QED
    BY <1>2, <1>3, <2>4, <2>5, <2>6, ArrangesStep
<1>6. CASE ~CollectFull(list)
  <2>1. held' = list /\ supply' = Tail(supply) /\ at' = "collect"
    BY <1>2, <1>6
  <2>2. OutputTypeOK'
    BY <1>1, <1>2, <1>3, <1>4, <2>1 DEF OutputTypeOK
  <2>3. SinkInv'
    BY <1>1, <1>2, <2>1, SameSink DEF SinkInv
  <2>4. PassInv' /\ CountInv'
    BY <1>1, <1>2, <2>1 DEF PassInv, CountInv
  <2>5. StopInv'
    BY <1>1, <1>2, <2>1, SameOptions DEF StopInv
  <2>6. ReadInv'
    <3>1. opts.order # "score" /\ cap > 0 => Len(list) < cap
      BY <1>4, <1>6 DEF CollectFull
    <3>2. Supplied' = Supplied /\ emitted[pass] \in Seq(Row) /\ Len(emitted[pass]) <= taken
      BY <1>1, <1>2, WrittenRows, SamePass DEF ReadInv
    <3>3. Len(emitted[pass]) \in Nat /\ Len(emitted[pass]) <= taken + 1 /\ Len(list) <= taken + 1
      BY <1>3, <1>4, <3>2, LenProperties
    <3> QED
      BY <1>2, <1>3, <2>1, <3>1, <3>2, <3>3 DEF ReadInv
  <2>7. PickInv'
    BY <1>1, <1>2, <2>1, SameOptions, SamePass DEF PickInv
  <2>8. SheetInv'
    BY <1>1, <1>2, <2>1, SameSheet
  <2>9. DocumentAsPromised'
    BY <2>1 DEF DocumentAsPromised
  <2> QED
    BY <2>2, <2>3, <2>4, <2>5, <2>6, <2>7, <2>8, <2>9 DEF OutputInv
<1> QED
  BY <1>5, <1>6

\* A row is read from the source, or from what was arranged.
LEMMA RowRead ==
    ASSUME OutputTypeOK, ReadInv, at \in {"rows", "gather"}, Reads
    PROVE  /\ Head(supply) \in Row /\ supply' \in Seq(Row) /\ taken' \in Nat
           /\ taken' <= Len(Supplied) /\ taken <= taken' /\ Len(emitted[pass]) + 1 <= taken'
           /\ Append(emitted[pass], Head(supply)) \o supply' = emitted[pass] \o supply
           /\ AllWanted(supply) => AllWanted(supply') /\ Head(supply).wanted
           /\ Ordered => Len(emitted[pass]) + 1 + Len(supply') <= taken'
           /\ ~Ordered =>
                /\ supply' = SubSeq(Supplied, taken' + 1, Len(Supplied))
                /\ Matching(SubSeq(Supplied, 1, taken')) =
                     IF Head(supply).wanted THEN Append(Matching(SubSeq(Supplied, 1, taken)), Head(supply))
                     ELSE Matching(SubSeq(Supplied, 1, taken))
<1> DEFINE x == Head(supply)
<1>1. /\ supply # <<>> /\ supply' = Tail(supply) /\ taken' = IF Ordered THEN taken ELSE taken + 1
      /\ supply \in Seq(Row) /\ emitted[pass] \in Seq(Row) /\ taken \in Nat /\ Supplied \in Seq(Row)
      /\ Len(Supplied) \in Nat /\ taken <= Len(Supplied) /\ Len(emitted[pass]) <= taken
  BY WrittenRows DEF Reads, OutputTypeOK, ReadInv
<1>2. /\ x \in Row /\ Tail(supply) \in Seq(Row) /\ Len(Tail(supply)) = Len(supply) - 1
      /\ Append(emitted[pass], x) \o Tail(supply) = emitted[pass] \o supply
      /\ AllWanted(supply) => AllWanted(Tail(supply)) /\ x.wanted
  BY <1>1, TakeOne
<1>3. Len(emitted[pass]) \in Nat /\ Len(supply) \in Nat /\ Len(Tail(supply)) \in Nat
  BY <1>1, <1>2, LenProperties
<1> HIDE DEF x
<1>4. CASE Ordered
  <2>1. Len(emitted[pass]) + Len(supply) <= taken
    BY <1>4 DEF ReadInv
  <2>2. /\ Len(emitted[pass]) + 1 + Len(Tail(supply)) <= taken
        /\ Len(emitted[pass]) + 1 <= taken
    BY <1>2, <1>3, <1>1, <2>1
  <2>3. taken' = taken /\ supply' = Tail(supply)
    BY <1>1, <1>4
  <2>4. /\ Len(emitted[pass]) + 1 + Len(supply') <= taken'
        /\ Len(emitted[pass]) + 1 <= taken'
    BY <2>2, <2>3
  <2>5. taken' \in Nat /\ taken' <= Len(Supplied) /\ taken <= taken'
    BY <1>1, <2>3
  <2> QED
    BY <1>2, <1>4, <2>3, <2>4, <2>5 DEF x
<1>5. CASE ~Ordered
  <2>1. supply = SubSeq(Supplied, taken + 1, Len(Supplied)) /\ taken \in 0..Len(Supplied)
    BY <1>1, <1>5 DEF ReadInv
  <2>2. /\ SubSeq(Supplied, 1, taken) \in Seq(Row) /\ taken + 1 <= Len(Supplied)
        /\ x = Supplied[taken + 1]
        /\ Tail(supply) = SubSeq(Supplied, (taken + 1) + 1, Len(Supplied))
        /\ SubSeq(Supplied, 1, taken + 1) = Append(SubSeq(Supplied, 1, taken), x)
    BY <1>1, <2>1, ReadOn, SMTT(30) DEF x
  <2>3. Matching(SubSeq(Supplied, 1, taken + 1)) =
            IF x.wanted THEN Append(Matching(SubSeq(Supplied, 1, taken)), x)
            ELSE Matching(SubSeq(Supplied, 1, taken))
    BY <1>2, <2>2, MatchingOfOneMore, ZenonT(30)
  <2>4. taken' = taken + 1 /\ Len(emitted[pass]) + 1 <= taken + 1 /\ taken <= taken + 1 /\ taken + 1 \in Nat
    BY <1>1, <1>3, <1>5
  <2> QED
    BY <1>1, <1>2, <1>5, <2>2, <2>3, <2>4 DEF x
<1> QED
  BY <1>4, <1>5

\* A row that is not wanted is passed over.
LEMMA SkipsStep == ASSUME OutputInv, Skips PROVE OutputInv'
<1>1. /\ OutputTypeOK /\ SinkInv /\ PassInv /\ CountInv /\ StopInv /\ ReadInv /\ PickInv /\ SheetInv
  BY DEF OutputInv
<1>2. /\ at \in {"rows", "gather"} /\ Reads /\ ~Head(supply).wanted /\ at' = at
      /\ opts' = opts /\ pass' = pass /\ cap' = cap /\ items' = items /\ held' = held /\ ink' = ink
      /\ fault' = fault /\ failed' = failed /\ stopped' = stopped /\ result' = result
      /\ emitted' = emitted /\ kept' = kept
  BY DEF Skips
<1>3. /\ supply' \in Seq(Row) /\ taken' \in Nat
      /\ taken' <= Len(Supplied) /\ Len(emitted[pass]) <= taken
      /\ taken <= taken' /\ Len(emitted[pass]) + 1 <= taken' /\ Len(emitted[pass]) \in Nat
      /\ AllWanted(supply) => FALSE
      /\ Ordered => Len(emitted[pass]) + 1 + Len(supply') <= taken' /\ Len(supply') \in Nat
      /\ ~Ordered => /\ supply' = SubSeq(Supplied, taken' + 1, Len(Supplied))
                     /\ Matching(SubSeq(Supplied, 1, taken')) = Matching(SubSeq(Supplied, 1, taken))
  BY <1>1, <1>2, RowRead, WrittenRows, LenProperties DEF ReadInv
<1>4. OutputTypeOK'
  BY <1>1, <1>2, <1>3 DEF OutputTypeOK
<1>5. SinkInv'
  BY <1>1, <1>2, SameSink DEF SinkInv
<1>6. PassInv' /\ CountInv'
  BY <1>1, <1>2 DEF PassInv, CountInv
<1>7. StopInv'
  BY <1>1, <1>2, SameOptions DEF StopInv
<1>8. ReadInv'
  <2>1. Len(emitted[pass]) <= taken' /\ (Ordered => Len(emitted[pass]) + Len(supply') <= taken')
    BY ONLY <1>3
  <2> QED
    BY <1>2, <1>3, <2>1, SameOptions, SamePass DEF ReadInv
<1>9. PickInv'
  BY <1>1, <1>2, <1>3, SameOptions, SamePass DEF PickInv
<1>10. SheetInv'
  BY <1>1, <1>2, SameSheet
<1>11. DocumentAsPromised'
  BY <1>2 DEF DocumentAsPromised
<1> QED
  BY <1>4, <1>5, <1>6, <1>7, <1>8, <1>9, <1>10, <1>11 DEF OutputInv

\* A pass that ends with the rows at hand, as it runs out of them or has as many as it may.
LEMMA PickedWhenDone ==
    ASSUME OutputTypeOK, PassInv, StopInv,
           NEW e \in Seq(Row), NEW rest \in Seq(Row), NEW n \in 0..Len(Supplied),
           \/ cap > 0 /\ Len(e) = cap
           \/ rest = <<>> /\ (cap > 0 => Len(e) <= cap),
           IF Ordered THEN e \o rest \in Arranged(Gathered)
           ELSE e = Matching(SubSeq(Supplied, 1, n)) /\ rest = SubSeq(Supplied, n + 1, Len(Supplied))
    PROVE  fault = "none" =>
             /\ ~stopped => e \in Chosen(pass)
             /\ kept # <<>> => e \in {FirstOf(list, cap) : list \in Arranged(kept)}
<1>1. /\ opts \in Invocations /\ pass \in 1..2 /\ cap \in Nat /\ (pass = 1 => cap = opts.limit)
      /\ kept \in Seq(Row)
  BY DEF OutputTypeOK, PassInv
<1>2. /\ ~stopped => e \in Chosen(pass)
      /\ stopped /\ Ordered => e \in {FirstOf(list, cap) : list \in Arranged(kept)}
  BY <1>1, ChosenWhenDone
<1>3. fault = "none" /\ kept # <<>> => stopped /\ Ordered
  BY DEF StopInv
<1> QED
  BY <1>2, <1>3

\* The last row was read.
LEMMA RowsEndStep == ASSUME OutputInv, RowsEnd PROVE OutputInv'
<1>1. /\ OutputTypeOK /\ SinkInv /\ PassInv /\ CountInv /\ StopInv /\ ReadInv /\ PickInv /\ SheetInv
  BY DEF OutputInv
<1>2. /\ at \in {"rows", "gather"} /\ supply = <<>> /\ at' = "close" /\ supply' = supply
      /\ opts' = opts /\ pass' = pass /\ cap' = cap /\ items' = items /\ held' = held /\ ink' = ink
      /\ fault' = fault /\ failed' = failed /\ stopped' = stopped /\ result' = result
      /\ emitted' = emitted /\ kept' = kept /\ taken' = taken
  BY DEF RowsEnd, progress
<1>3. OutputTypeOK'
  BY <1>1, <1>2 DEF OutputTypeOK
<1>4. SinkInv'
  BY <1>1, <1>2, SameSink DEF SinkInv
<1>5. PassInv' /\ CountInv'
  BY <1>1, <1>2 DEF PassInv, CountInv
<1>6. StopInv'
  BY <1>1, <1>2, SameOptions DEF StopInv
<1>7. ReadInv'
  BY <1>1, <1>2, SameOptions, SamePass DEF ReadInv
<1>8. ASSUME fault = "none"
      PROVE  /\ ~stopped => emitted[pass] \in Chosen(pass)
             /\ kept # <<>> => emitted[pass] \in {FirstOf(list, cap) : list \in Arranged(kept)}
  <2>1. /\ emitted[pass] \in Seq(Row) /\ supply \in Seq(Row) /\ taken \in 0..Len(Supplied)
        /\ cap > 0 => Len(emitted[pass]) <= cap
    BY <1>1, WrittenRows DEF OutputTypeOK, ReadInv, CountInv
  <2>2. IF Ordered THEN emitted[pass] \o supply \in Arranged(Gathered)
        ELSE /\ emitted[pass] = Matching(SubSeq(Supplied, 1, taken))
             /\ supply = SubSeq(Supplied, taken + 1, Len(Supplied))
    BY <1>1, <1>2, <1>8 DEF PickInv, ReadInv
  <2> QED
    BY <1>1, <1>2, <1>8, <2>1, <2>2, PickedWhenDone
<1>9. PickInv'
  BY <1>1, <1>2, <1>8, SameOptions, SamePass DEF PickInv
<1>10. SheetInv'
  BY <1>1, <1>2, SameSheet
<1>11. DocumentAsPromised'
  BY <1>2 DEF DocumentAsPromised
<1> QED
  BY <1>3, <1>4, <1>5, <1>6, <1>7, <1>9, <1>10, <1>11 DEF OutputInv

\* Writing rows is cancelled.
LEMMA RowsCutStep == ASSUME OutputInv, RowsCut PROVE OutputInv'
<1>1. /\ OutputTypeOK /\ SinkInv /\ PassInv /\ CountInv /\ StopInv /\ ReadInv /\ PickInv /\ SheetInv
  BY DEF OutputInv
<1>2. /\ at \in {"rows", "gather"} /\ ~stopped /\ stopped' = TRUE /\ at' = "close" /\ supply' = supply
      /\ opts' = opts /\ pass' = pass /\ cap' = cap /\ items' = items /\ held' = held /\ ink' = ink
      /\ fault' = fault /\ failed' = failed /\ result' = result
      /\ emitted' = emitted /\ kept' = kept /\ taken' = taken
  BY DEF RowsCut, progress
<1>3. OutputTypeOK'
  BY <1>1, <1>2 DEF OutputTypeOK
<1>4. SinkInv'
  BY <1>1, <1>2, SameSink DEF SinkInv
<1>5. PassInv' /\ CountInv'
  BY <1>1, <1>2 DEF PassInv, CountInv
<1>6. StopInv'
  BY <1>1, <1>2, SameOptions DEF StopInv
<1>7. ReadInv'
  BY <1>1, <1>2, SameOptions, SamePass DEF ReadInv
<1>8. PickInv'
  <2>1. fault = "none" => kept = <<>>
    BY <1>1, <1>2 DEF StopInv
  <2> QED
    BY <1>1, <1>2, <2>1, SameOptions DEF PickInv
<1>9. SheetInv'
  BY <1>1, <1>2, SameSheet
<1>10. DocumentAsPromised'
  BY <1>2 DEF DocumentAsPromised
<1> QED
  BY <1>3, <1>4, <1>5, <1>6, <1>7, <1>8, <1>9, <1>10 DEF OutputInv

\* A row is handed on; the pass is over when it has as many as it may.
LEMMA RowTaken ==
    ASSUME OutputTypeOK, PassInv, CountInv, StopInv, ReadInv, PickInv,
           at \in {"rows", "gather"}, Reads, Head(supply).wanted,
           UNCHANGED <<opts, pass, cap, fault, stopped, kept>>,
           emitted' = [emitted EXCEPT ![pass] = Append(emitted[pass], Head(supply))],
           at' = IF cap > 0 /\ Len(emitted'[pass]) >= cap THEN "close" ELSE at
    PROVE  /\ ReadInv' /\ PickInv'
           /\ cap > 0 => Len(emitted'[pass]) <= cap
           /\ cap > 0 /\ at' # "close" => Len(emitted'[pass]) < cap
<1> DEFINE x == Head(supply)
           e == emitted'[pass]
<1>1. /\ opts' = opts /\ pass' = pass /\ cap' = cap /\ fault' = fault /\ stopped' = stopped /\ kept' = kept
  OBVIOUS
<1>2. /\ x \in Row /\ supply' \in Seq(Row) /\ taken' \in Nat /\ taken' <= Len(Supplied)
      /\ Len(emitted[pass]) + 1 <= taken'
      /\ Append(emitted[pass], x) \o supply' = emitted[pass] \o supply
      /\ AllWanted(supply) => AllWanted(supply')
      /\ Ordered => Len(emitted[pass]) + 1 + Len(supply') <= taken'
      /\ ~Ordered => /\ supply' = SubSeq(Supplied, taken' + 1, Len(Supplied))
                     /\ Matching(SubSeq(Supplied, 1, taken')) =
                            Append(Matching(SubSeq(Supplied, 1, taken)), x)
  BY RowRead
<1>3. /\ e = Append(emitted[pass], x) /\ Len(e) = Len(emitted[pass]) + 1
      /\ emitted' \in [1..2 -> Seq(Row)] /\ (pass = 2 => emitted'[1] = emitted[1])
      /\ e \in Seq(Row) /\ Len(emitted[pass]) \in Nat /\ pass \in 1..2
  <2> HIDE DEF x
  <2>1. x \in Row /\ emitted' = [emitted EXCEPT ![pass] = Append(emitted[pass], x)]
    BY <1>2 DEF x
  <2>2. /\ emitted'[pass] = Append(emitted[pass], x) /\ Len(emitted'[pass]) = Len(emitted[pass]) + 1
        /\ emitted' \in [1..2 -> Seq(Row)] /\ (pass = 2 => emitted'[1] = emitted[1])
    BY <2>1, WrittenGrows
  <2>3. pass \in 1..2 /\ emitted[pass] \in Seq(Row)
    BY WrittenRows DEF OutputTypeOK
  <2> QED
    BY <2>2, <2>3, LenProperties
<1>4. /\ cap > 0 => Len(e) <= cap
      /\ cap > 0 /\ at' # "close" => Len(e) < cap
      /\ at' = "close" => cap > 0 /\ Len(e) = cap
      /\ at' \in {at, "close"}
  <2>1. cap > 0 => Len(emitted[pass]) < cap
    BY DEF CountInv
  <2>2. cap \in Nat
    BY DEF OutputTypeOK
  <2>3. cap > 0 /\ Len(e) >= cap => Len(e) = cap
    BY <1>3, <2>1, <2>2
  <2>4. at' = IF cap > 0 /\ Len(e) >= cap THEN "close" ELSE at
    OBVIOUS
  <2>5. at # "close"
    OBVIOUS
  <2> HIDE DEF e
  <2>6. Len(e) \in Nat
    BY <1>3
  <2> QED
    BY <2>2, <2>3, <2>4, <2>5, <2>6
<1> HIDE DEF x, e
<1>5. ReadInv'
  <2>1. /\ Supplied' = Supplied /\ (Ordered' <=> Ordered) /\ Len(emitted[pass])' = Len(e)
        /\ Len(e) <= taken' /\ (Ordered => Len(e) + Len(supply') <= taken')
    BY <1>1, <1>2, <1>3, SameOptions, SamePass DEF e
  <2>2. at' \in {"rows", "gather", "close"}
    BY <1>4
  <2> QED
    BY <1>1, <1>2, <2>1, <2>2 DEF ReadInv, e
<1>6. ASSUME fault = "none"
      PROVE  IF Ordered THEN e \o supply' \in Arranged(Gathered) /\ AllWanted(supply')
             ELSE e = Matching(SubSeq(Supplied, 1, taken'))
  BY <1>2, <1>3, <1>6 DEF PickInv
<1>7. ASSUME fault = "none", at' = "close"
      PROVE  /\ ~stopped => e \in Chosen(pass)
             /\ kept # <<>> => e \in {FirstOf(list, cap) : list \in Arranged(kept)}
  <2>1. taken' \in 0..Len(Supplied) /\ cap > 0 /\ Len(e) = cap
    BY <1>2, <1>4, <1>7, WrittenRows
  <2>2. IF Ordered THEN e \o supply' \in Arranged(Gathered)
        ELSE e = Matching(SubSeq(Supplied, 1, taken')) /\ supply' = SubSeq(Supplied, taken' + 1, Len(Supplied))
    BY <1>2, <1>6, <1>7
  <2> QED
    BY <1>2, <1>3, <1>7, <2>1, <2>2, PickedWhenDone
<1>8. PickInv'
  <2>1. /\ Supplied' = Supplied /\ Chosen(pass)' = Chosen(pass) /\ Chosen(1)' = Chosen(1)
        /\ Gathered' = Gathered /\ (Ordered' <=> Ordered)
    BY <1>1, SameOptions, SamePass DEF Gathered
  <2>2. \A list : Arranged(list)' = Arranged(list)
    BY <1>1, SameOptions
  <2>3. Arranged(Gathered)' = Arranged(Gathered) /\ Arranged(kept)' = Arranged(kept)
    BY <1>1, <2>1, <2>2
  <2>4. fault = "none" /\ pass = 2 => emitted'[1] \in Chosen(1)
    BY <1>3 DEF PickInv
  <2>5. at' # "between"
    BY <1>4
  <2> QED
    BY <1>1, <1>6, <1>7, <2>1, <2>3, <2>4, <2>5 DEF PickInv, e
<1> QED
  BY <1>4, <1>5, <1>8 DEF e

\* A row of the PAC function is gathered.
LEMMA GathersStep == ASSUME OutputInv, Gathers PROVE OutputInv'
<1>1. /\ OutputTypeOK /\ SinkInv /\ PassInv /\ CountInv /\ StopInv /\ ReadInv /\ PickInv /\ SheetInv
  BY DEF OutputInv
<1>2. /\ at = "gather" /\ Reads /\ Head(supply).wanted
      /\ held' = Append(held, Head(supply)) /\ emitted' = [emitted EXCEPT ![pass] = held']
      /\ at' = (IF cap > 0 /\ Len(held') >= cap THEN "close" ELSE "gather")
      /\ opts' = opts /\ pass' = pass /\ cap' = cap /\ items' = items /\ ink' = ink
      /\ fault' = fault /\ failed' = failed /\ stopped' = stopped /\ result' = result /\ kept' = kept
  BY DEF Gathers
<1>3. opts.format = "pac" /\ held = emitted[pass] /\ items = 0
  BY <1>1, <1>2 DEF CountInv
<1>4. Head(supply) \in Row /\ supply' \in Seq(Row) /\ taken' \in Nat
  BY <1>1, <1>2, RowRead
<1>5. emitted' = [emitted EXCEPT ![pass] = Append(emitted[pass], Head(supply))]
  BY <1>2, <1>3
<1>6. /\ emitted' \in [1..2 -> Seq(Row)] /\ emitted'[pass] = held' /\ held' \in Seq(Row)
      /\ (pass = 1 => emitted'[2] = <<>>) /\ (pass = 2 => emitted'[1] = emitted[1]) /\ pass \in 1..2
  <2>1. /\ emitted' \in [1..2 -> Seq(Row)] /\ emitted'[pass] = Append(emitted[pass], Head(supply))
        /\ (pass = 1 => emitted'[2] = <<>>) /\ (pass = 2 => emitted'[1] = emitted[1])
    BY <1>1, <1>4, <1>5, WrittenGrows
  <2>2. pass \in 1..2
    BY <1>1 DEF OutputTypeOK
  <2> QED
    BY <1>2, <1>3, <2>1, <2>2
<1>7. /\ ReadInv' /\ PickInv' /\ (cap > 0 => Len(emitted'[pass]) <= cap)
      /\ (cap > 0 /\ at' # "close" => Len(emitted'[pass]) < cap)
  <2>1. at' = IF cap > 0 /\ Len(emitted'[pass]) >= cap THEN "close" ELSE at
    BY <1>2, <1>6
  <2>2. UNCHANGED <<opts, pass, cap, fault, stopped, kept>> /\ at \in {"rows", "gather"}
    BY <1>2
  <2> QED
    BY <1>1, <1>2, <1>5, <2>1, <2>2, RowTaken
<1>8. OutputTypeOK'
  BY <1>1, <1>2, <1>4, <1>6 DEF OutputTypeOK
<1>9. SinkInv'
  BY <1>1, <1>2, SameSink DEF SinkInv
<1>10. PassInv'
  BY <1>1, <1>2, <1>3, <1>6 DEF PassInv
<1>11. CountInv'
  BY <1>1, <1>2, <1>3, <1>6, <1>7 DEF CountInv
<1>12. StopInv'
  BY <1>1, <1>2, SameOptions DEF StopInv
<1>13. SheetInv'
  <2>1. /\ Existing' = Existing /\ (OnePac' <=> OnePac)
        /\ Body(Written') = Body(Written) /\ \A list : Body(list)' = Body(list)
    BY <1>2, <1>3, SameOptions DEF OnePac, Body
  <2>2. Content' = Content
    BY <1>2, <2>1 DEF Content
  <2> QED
    BY <1>1, <1>2, <2>1, <2>2 DEF SheetInv
<1>14. DocumentAsPromised'
  BY <1>2 DEF DocumentAsPromised
<1> QED
  BY <1>7, <1>8, <1>9, <1>10, <1>11, <1>12, <1>13, <1>14 DEF OutputInv

\* A row is written, or is the one at which a write fails.
LEMMA EmitsStep == ASSUME OutputInv, Emits PROVE OutputInv'
<1> DEFINE x == Head(supply)
           write == Writes(ink, Separated(x))
           list == Append(emitted[pass], x)
<1>1. /\ OutputTypeOK /\ SinkInv /\ PassInv /\ CountInv /\ StopInv /\ ReadInv /\ PickInv /\ SheetInv
      /\ opts \in Invocations /\ pass \in 1..2
  BY DEF OutputInv, OutputTypeOK
<1>2. /\ at = "rows" /\ Reads /\ x.wanted /\ ink' = write.ink
      /\ opts' = opts /\ pass' = pass /\ cap' = cap /\ held' = held
      /\ fault' = fault /\ stopped' = stopped /\ result' = result /\ kept' = kept
      /\ at' \in {"rows", "close"}
      /\ write.to = "ok" =>
           /\ items' = items + 1 /\ emitted' = [emitted EXCEPT ![pass] = list]
           /\ at' = (IF cap > 0 /\ Len(list) >= cap THEN "close" ELSE "rows") /\ failed' = failed
      /\ write.to # "ok" =>
           /\ at' = "close" /\ failed' = (failed \/ write.to = "full")
           /\ items' = items /\ emitted' = emitted
  BY DEF Emits
<1>3. /\ x \in Row /\ supply' \in Seq(Row) /\ taken' \in Nat /\ taken' <= Len(Supplied)
      /\ Len(emitted[pass]) + 1 <= taken'
  BY <1>1, <1>2, RowRead
<1>4. Separated(x) \in Seq(Token) /\ opts.format # "pac" /\ items = Len(Written)
  <2>1. opts.format # "pac" /\ items = Len(Written)
    BY <1>1, <1>2, WrittenRows DEF CountInv
  <2>2. <<<<"row", x>>>> \in Seq(Token) /\ <<>> \in Seq(Token) /\ <<<<IF items = 0 THEN "[" ELSE ",">>>> \in Seq(Token)
    <3>1. <<"[">> \in Token /\ <<",">> \in Token
      BY Tokens
    <3>2. \A a \in Token : <<a>> \in Seq(Token)
      OBVIOUS
    <3> QED
      BY <1>3, <3>2, Tokens
  <2> QED
    BY <2>1, <2>2, ConcatProperties DEF Separated
<1>5. /\ SinkFor(ink') /\ (fault = "none" => write.to = "ok" /\ Flow(ink') = Flow(ink) \o Separated(x))
      /\ fault # "none" => ink'.sheet = ink.sheet
  BY <1>1, <1>2, <1>4, WritesFacts DEF SinkInv
<1>6. SinkInv' /\ failed' \in BOOLEAN
  <2>1. failed \in BOOLEAN /\ (fault = "none" => ~failed)
    BY <1>1 DEF SinkInv, OutputTypeOK
  <2>2. failed' \in BOOLEAN
    <3>1. (failed \/ write.to = "full") \in BOOLEAN
      OBVIOUS
    <3> QED
      BY <1>2, <2>1, <3>1
  <2>3. fault = "none" => failed' = failed
    BY <1>2, <1>5
  <2>4. failed' \in BOOLEAN /\ (fault = "none" => ~failed')
    BY ONLY <2>1, <2>2, <2>3
  <2> QED
    BY <1>2, <1>5, <2>4, SameSink DEF SinkInv
<1>7. StopInv'
  BY <1>1, <1>2, SameOptions DEF StopInv
<1>8. DocumentAsPromised'
  BY <1>2 DEF DocumentAsPromised
<1>9. /\ Existing' = Existing /\ (OnePac' <=> OnePac) /\ (\A l : Body(l)' = Body(l))
      /\ Content = Existing \o Body(Written)
  BY <1>1, <1>2, SameOptions DEF OnePac, Content
<1>10. ink'.sheet \in Seq(Token) /\ ink'.buffer \in Seq(Token) /\ ink' \in Ink /\ ink.sheet \in Seq(Token)
  BY <1>1, <1>5 DEF SinkFor, Ink, OutputTypeOK
<1>11. Written \in Seq(Row) /\ Existing \in Seq(Token) /\ Body(Written) \in Seq(Token)
  BY <1>1, WrittenRows, OptsFacts, BodyFacts
<1> HIDE DEF write
<1>12. CASE write.to = "ok"
  <2>1. emitted' = [emitted EXCEPT ![pass] = Append(emitted[pass], Head(supply))]
    BY <1>2, <1>12
  <2>2. /\ Written' = Append(Written, x)
        /\ emitted' \in [1..2 -> Seq(Row)] /\ emitted'[pass] = list
        /\ pass = 2 => emitted'[1] = emitted[1]
        /\ pass = 1 => emitted'[2] = <<>>
        /\ Len(emitted'[1]) + Len(emitted'[2]) = Len(emitted[1]) + Len(emitted[2]) + 1
    BY <1>1, <1>3, <2>1, WrittenGrows
  <2>3. /\ ReadInv' /\ PickInv' /\ (cap > 0 => Len(emitted'[pass]) <= cap)
        /\ (cap > 0 /\ at' # "close" => Len(emitted'[pass]) < cap)
    <3>1. at' = IF cap > 0 /\ Len(emitted'[pass]) >= cap THEN "close" ELSE at
      BY <1>2, <1>12, <2>2
    <3>2. UNCHANGED <<opts, pass, cap, fault, stopped, kept>> /\ at \in {"rows", "gather"}
      BY <1>2
    <3> QED
      BY <1>1, <1>2, <2>1, <3>1, <3>2, RowTaken
  <2>4. OutputTypeOK'
    BY <1>1, <1>2, <1>3, <1>6, <1>10, <1>12, <2>2 DEF OutputTypeOK, Ink
  <2>5. PassInv'
    BY <1>1, <1>2, <2>2 DEF PassInv
  <2>6. CountInv'
    <3>1. items' = Len(emitted'[1]) + Len(emitted'[2])
      BY <1>1, <1>2, <1>4, <1>12, <2>2, WrittenRows
    <3> QED
      BY <1>1, <1>2, <1>4, <2>3, <3>1 DEF CountInv
  <2>7. SheetInv'
    <3> DEFINE body == Body(Written)
               text == Separated(x)
    <3>1. Body(Append(Written, x)) = body \o text
      BY <1>1, <1>3, <1>4, <1>11, BodyFacts DEF Separated
    <3>2. Content' = Existing \o (body \o text)
      <4>1. Content' = Existing \o Body(Append(Written, x))
        BY <1>2, <1>9, <2>2 DEF Content
      <4> QED
        BY <3>1, <4>1
    <3>3. Existing \o (body \o text) = (Existing \o body) \o text
      <4>1. body \in Seq(Token) /\ text \in Seq(Token)
        BY <1>4, <1>11
      <4> HIDE DEF body, text
      <4> QED
        BY <1>11, <4>1, ConcatAssociative, SMTT(30)
    <3>4. Existing \o body \in Seq(Token)
      BY <1>11, ConcatProperties
    <3> HIDE DEF body, text
    <3>5. ASSUME OnePac
          PROVE  /\ fault = "none" => Flow(ink') = Content'
                 /\ IsPrefix(ink'.sheet, Content')
      <4>1. IsPrefix(ink.sheet, Existing \o body) /\ (fault = "none" => Flow(ink) = Existing \o body)
        BY <1>1, <1>2, <1>9, <3>5 DEF SheetInv, body
      <4>2. fault = "none" => Flow(ink') = Content'
        BY <1>5, <3>2, <3>3, <4>1 DEF text
      <4>3. fault # "none" => IsPrefix(ink'.sheet, Content')
        BY <1>4, <1>5, <1>10, <3>2, <3>3, <3>4, <4>1, PrefixFacts DEF text
      <4>4. fault = "none" => IsPrefix(ink'.sheet, Content')
        BY <1>10, <4>2, PrefixFacts DEF Flow
      <4> QED
        BY <4>2, <4>3, <4>4
    <3> QED
      BY <1>2, <1>9, <3>5 DEF SheetInv
  <2> QED
    BY <1>6, <1>7, <1>8, <2>3, <2>4, <2>5, <2>6, <2>7 DEF OutputInv
<1>13. CASE write.to # "ok"
  <2>1. fault # "none" /\ emitted' = emitted /\ items' = items /\ at' = "close"
    BY <1>2, <1>5, <1>13
  <2>2. OutputTypeOK'
    BY <1>1, <1>2, <1>3, <1>6, <1>10, <2>1 DEF OutputTypeOK, Ink
  <2>3. PassInv' /\ CountInv'
    BY <1>1, <1>2, <1>4, <2>1 DEF PassInv, CountInv
  <2>4. ReadInv'
    <3>1. Len(emitted[pass]) \in Nat
      BY <1>1, WrittenRows, LenProperties
    <3>2. Len(emitted[pass]) <= taken'
      BY <1>3, <3>1
    <3> QED
      BY <1>2, <1>3, <2>1, <3>2, SamePass DEF ReadInv
  <2>5. PickInv'
    BY <1>2, <2>1 DEF PickInv
  <2>6. SheetInv'
    <3>1. Content' = Content
      <4>1. Written' = Written
        BY <2>1 DEF Written
      <4> QED
        BY <1>2, <1>9, <2>1, <4>1 DEF Content
    <3> QED
      BY <1>1, <1>2, <1>5, <1>9, <2>1, <3>1 DEF SheetInv
  <2> QED
    BY <1>6, <1>7, <1>8, <2>2, <2>3, <2>4, <2>5, <2>6 DEF OutputInv
<1> QED
  BY <1>12, <1>13

\* A pipe that was closed takes nothing more.
LEMMA ClosedPipe ==
    ASSUME NEW i, NEW text, Writes(i, text).to = "closed"
    PROVE  fault = "closed"
<1>1. Writes(i, text).to \in {"ok", "full", fault}
  BY DEF Writes
<1> QED
  BY <1>1

\* The body of a document without rows.
LEMMA BodyOfNone ==
    ASSUME opts \in Invocations
    PROVE  Body(<<>>) = Header
<1>1. /\ opts.format \in {"lines", "csv", "json", "pac"} /\ Header \in Seq(Token) /\ <<>> \in Seq(Row)
      /\ opts.format # "csv" => Header = <<>>
  <2>1. <<>> \in Seq(Row) /\ (opts.format # "csv" => Header = <<>>)
    BY DEF Header
  <2> QED
    BY <2>1, OptsFacts, BodyFacts
<1>2. InRows(<<>>) = <<>> /\ Unclosed(<<>>) = <<>>
  <2>1. InRows(<<>>) = <<>>
    <3>1. InRows(<<>>) \in [{} -> Token]
      BY DEF InRows
    <3> QED
      BY <3>1 DEF InRows
  <2> QED
    BY <1>1, <2>1, UnclosedGrows
<1>3. Header \o <<>> = Header
  BY <1>1, ConcatEmptySeq
<1> QED
  BY <1>1, <1>2, <1>3 DEF Body

\* The header stands in front of the rows of the first pass, unless the file has rows already.
LEMMA HeadsStep == ASSUME OutputInv, Heads PROVE OutputInv'
<1> DEFINE text == <<<<"header">>>>
           write == Writes(ink, text)
<1>1. /\ OutputTypeOK /\ SinkInv /\ PassInv /\ CountInv /\ StopInv /\ ReadInv /\ PickInv /\ SheetInv
      /\ opts \in Invocations /\ pass \in 1..2 /\ ink.buffer = <<>> /\ at # "done"
      /\ ink.sheet \in Seq(Token) /\ Existing \in Seq(Token) /\ Header \in Seq(Token)
  <2>1. /\ OutputTypeOK /\ SinkInv /\ PassInv /\ CountInv /\ StopInv /\ ReadInv /\ PickInv /\ SheetInv
        /\ at = "header"
    BY DEF OutputInv, Heads
  <2>2. opts \in Invocations /\ pass \in 1..2 /\ ink.sheet \in Seq(Token) /\ ink.buffer = <<>>
    BY <2>1 DEF OutputTypeOK, SinkInv
  <2>3. <<>> \in Seq(Row)
    OBVIOUS
  <2> QED
    BY <2>1, <2>2, <2>3, OptsFacts, BodyFacts
<1>2. /\ at = "header" /\ opts' = opts /\ pass' = pass /\ taken' = taken /\ cap' = cap /\ items' = items
      /\ supply' = supply /\ held' = held /\ fault' = fault /\ stopped' = stopped
      /\ emitted' = emitted /\ kept' = kept
      /\ UNCHANGED <<opts, progress, supply, held, fault, emitted, kept>>
      /\ Headed =>
           /\ ink' = write.ink /\ failed' = (write.to = "full")
           /\ write.to = "closed" => Leaves("finished")
           /\ write.to # "closed" => at' = "rows" /\ result' = result
      /\ ~Headed =>
           /\ at' = (IF opts.format = "pac" THEN "gather" ELSE "rows")
           /\ ink' = ink /\ failed' = failed /\ result' = result
  BY DEF Heads, progress
<1>3. /\ SinkFor(ink) /\ text \in Seq(Token) /\ SinkFor(write.ink) /\ write.to \in {"ok", "full", "closed"}
      /\ fault = "none" => write.to = "ok" /\ Flow(write.ink) = Flow(ink) \o text
      /\ fault # "none" => write.ink.sheet = ink.sheet
  <2>1. SinkFor(ink) /\ text \in Seq(Token)
    BY <1>1, Tokens DEF SinkInv
  <2> QED
    BY <2>1, WritesFacts
<1>4. Headed => opts.format = "csv" /\ pass = 1 /\ ~(ToFile /\ opts.append /\ ink.sheet # <<>>)
  BY DEF Headed
<1>5. pass = 1 => ink.sheet = Existing
  BY <1>1, <1>2 DEF SheetInv
<1>6. pass = 1 => Header = IF Headed THEN text ELSE <<>>
  <2>1. ToFile /\ Existing # <<>> => opts.append
    BY DEF Existing
  <2> QED
    BY <1>5, <2>1 DEF Headed, Header
<1>7. /\ Existing' = Existing /\ (OnePac' <=> OnePac) /\ Body(Written)' = Body(Written) /\ Written' = Written
      /\ Supplied' = Supplied /\ (Ordered' <=> Ordered) /\ Gathered' = Gathered
  <2>1. Written' = Written
    BY <1>2 DEF Written
  <2> QED
    BY <1>2, <2>1, SameOptions, SamePass DEF OnePac, Gathered
<1>8. pass = 1 => Body(Written) = Header
  BY <1>1, <1>2, WrittenRows, BodyOfNone DEF CountInv, PassInv
<1>9. SinkFor(ink') /\ failed' \in BOOLEAN /\ (fault = "none" => ~failed')
  <2>1. CASE Headed
    <3>1. failed' = (write.to = "full") /\ ink' = write.ink
      BY <1>2, <2>1
    <3>2. (write.to = "full") \in BOOLEAN
      OBVIOUS
    <3> HIDE DEF write
    <3> QED
      BY <1>3, <3>1, <3>2
  <2>2. CASE ~Headed
    BY <1>1, <1>2, <1>3, <2>2 DEF SinkInv, OutputTypeOK
  <2> QED
    BY <2>1, <2>2
<1>10. ink' \in Ink /\ ink'.sheet \in Seq(Token) /\ ink'.buffer \in Seq(Token)
  BY <1>9 DEF SinkFor, Ink
<1> HIDE DEF write, text
<1>11. CASE at' \in {"rows", "gather"}
  <2>1. result' = result /\ (at' = "gather" <=> opts.format = "pac")
        /\ (Headed => ink' = write.ink /\ write.to # "closed") /\ (~Headed => ink' = ink)
    <3>1. Leaves("finished") => at' \in {"between", "done"}
      BY DEF Leaves, EndsAs
    <3> QED
      BY <1>2, <1>4, <1>11, <3>1
  <2>2. OutputTypeOK'
    BY <1>1, <1>2, <1>9, <1>10, <1>11, <2>1 DEF OutputTypeOK, Ink
  <2>3. SinkInv'
    BY <1>2, <1>9, <1>11, SameSink DEF SinkInv
  <2>4. PassInv'
    BY <1>1, <1>2, <1>11 DEF PassInv
  <2>5. CountInv'
    <3>1. emitted[pass] = <<>> /\ Len(<<>>) = 0
      BY <1>1, <1>2, EmptySeq DEF CountInv
    <3> QED
      BY <1>1, <1>2, <1>11, <2>1, <3>1 DEF CountInv, OutputTypeOK
  <2>6. StopInv'
    BY <1>1, <1>2, <1>7, <1>11 DEF StopInv
  <2>7. ReadInv'
    BY <1>1, <1>2, <1>7, <1>11 DEF ReadInv
  <2>8. PickInv'
    BY <1>1, <1>2, <1>7, <1>11, SameOptions DEF PickInv
  <2>9. Content' = Existing \o Body(Written)
    BY <1>2, <1>7, <1>11 DEF Content
  <2>10. SheetInv'
    <3>1. CASE pass = 1
      <4>1. Content' = Existing \o Header
        BY <1>8, <2>9, <3>1
      <4>2. Flow(ink) = Existing
        BY <1>1, <1>5, <3>1, ConcatEmptySeq DEF Flow
      <4>3. fault = "none" => Flow(ink') = Existing \o Header
        <5>1. CASE Headed
          BY <1>3, <1>6, <2>1, <3>1, <4>2, <5>1
        <5>2. CASE ~Headed
          BY <1>1, <1>6, <2>1, <3>1, <4>2, <5>2, ConcatEmptySeq
        <5> QED
          BY <5>1, <5>2
      <4>4. fault = "none" => IsPrefix(ink'.sheet, Existing \o Header)
        BY <1>10, <4>3, PrefixFacts DEF Flow
      <4>5. fault # "none" => IsPrefix(ink'.sheet, Existing \o Header)
        <5>1. fault # "none" => ink'.sheet = Existing
          BY <1>3, <1>5, <2>1, <3>1
        <5> QED
          BY <1>1, <5>1, PrefixFacts
      <4> QED
        BY <1>2, <1>11, <3>1, <4>1, <4>3, <4>4, <4>5 DEF SheetInv
    <3>2. CASE pass = 2
      <4>1. ink' = ink /\ Content = Existing \o Body(Written)
        BY <1>2, <1>4, <2>1, <3>2 DEF Content
      <4> QED
        BY <1>1, <1>2, <1>7, <1>11, <2>9, <3>2, <4>1 DEF SheetInv
    <3> QED
      BY <1>1, <3>1, <3>2
  <2>11. DocumentAsPromised'
    BY <1>11 DEF DocumentAsPromised
  <2> QED
    BY <2>2, <2>3, <2>4, <2>5, <2>6, <2>7, <2>8, <2>10, <2>11 DEF OutputInv
<1>12. CASE at' \notin {"rows", "gather"}
  <2>1. Headed /\ write.to = "closed" /\ Leaves("finished") /\ ink' = write.ink
    BY <1>2, <1>12
  <2>2. fault # "none" /\ ink'.sheet = ink.sheet /\ pass = 1 /\ opts.format = "csv"
    BY <1>3, <1>4, <2>1
  <2>3. CASE at' = "between"
    <3>1. opts.chained /\ result' = result
      BY <2>1, <2>3 DEF Leaves, EndsAs
    <3>2. ink'.buffer = <<>>
      <4>1. fault = "closed"
        BY <2>1, ClosedPipe DEF write
      <4> QED
        BY <1>9, <4>1 DEF SinkFor
    <3>3. OutputTypeOK'
      BY <1>1, <1>2, <1>9, <1>10, <2>3, <3>1 DEF OutputTypeOK, Ink
    <3>4. SinkInv'
      BY <1>2, <1>9, <2>3, <3>2, SameSink DEF SinkInv
    <3>5. PassInv' /\ CountInv'
      BY <1>1, <1>2, <2>2, <2>3, <3>1 DEF PassInv, CountInv
    <3>6. StopInv'
      BY <1>1, <1>2, <1>7, <2>2, <2>3 DEF StopInv
    <3>7. ReadInv' /\ PickInv'
      BY <1>1, <1>2, <1>7, <2>2, <2>3 DEF ReadInv, PickInv
    <3>8. SheetInv'
      <4>1. Content' = Existing \o Header
        BY <1>2, <1>7, <1>8, <2>2, <2>3 DEF Content
      <4>2. IsPrefix(ink'.sheet, Existing \o Header)
        BY <1>1, <1>5, <2>2, PrefixFacts
      <4> QED
        BY <1>2, <2>2, <2>3, <4>1, <4>2 DEF SheetInv
    <3>9. DocumentAsPromised'
      BY <2>3 DEF DocumentAsPromised
    <3> QED
      BY <3>3, <3>4, <3>5, <3>6, <3>7, <3>8, <3>9 DEF OutputInv
  <2>4. CASE at' = "done"
    <3>1. result' = "finished"
      BY <2>1, <2>4 DEF Leaves, EndsAs
    <3>2. DocumentAsPromised'
      BY <1>1, <1>2, <2>2, EndsBadly
    <3>3. stopped' \in BOOLEAN /\ (stopped => stopped')
      BY <1>1, <1>2 DEF OutputTypeOK
    <3> QED
      BY <1>1, <1>2, <1>9, <2>2, <2>4, <3>1, <3>2, <3>3, EndingStep
  <2> QED
    BY <2>1, <2>3, <2>4 DEF Leaves, EndsAs
<1> QED
  BY <1>11, <1>12

\* A run that ends without a fault leaves the whole document, of the rows it promised.
LEMMA EndsWell ==
    ASSUME OutputTypeOK, PassInv, CountInv, fault = "none",
           opts' = opts, emitted' = emitted, pass' = pass, cap' = cap, kept' = kept, fault' = fault,
           result' \in {"finished", "cancelled"},
           OnePac =>
             /\ \/ ink'.sheet = Existing \o Document(Written)
                \/ /\ result' = "cancelled" /\ opts.chained /\ pass = 1 /\ opts.format = "json"
                   /\ ink'.sheet = Existing \o Body(Written)
                \/ /\ result' = "cancelled" /\ opts.format = "pac"
                   /\ ink'.sheet = Existing \o Body(Written)
             /\ result' = "finished" => \A p \in 1..pass : emitted[p] \in Chosen(p)
             /\ result' = "cancelled" /\ kept # <<>> =>
                    emitted[pass] \in {FirstOf(list, cap) : list \in Arranged(kept)}
    PROVE  DocumentAsPromised'
<1> DEFINE body == Body(Written)
           closing == Closing(Written)
           doc == Document(Written)
           whole == Existing \o doc
<1>1. /\ Existing \in Seq(Token) /\ body \in Seq(Token) /\ closing \in Seq(Token)
      /\ doc = body \o closing /\ Written \in Seq(Row)
  BY WrittenRows, OptsFacts, BodyFacts DEF OutputTypeOK
<1>2. opts.format = "json" => body = Unclosed(Written)
  BY DEF Body
<1>3. /\ Existing' = Existing /\ Document(Written)' = doc /\ Written' = Written /\ (OnePac' <=> OnePac)
      /\ (\A p : Chosen(p)' = Chosen(p)) /\ (\A list : Arranged(list)' = Arranged(list))
  <2>1. Written' = Written
    BY DEF Written
  <2>2. \A list : Arranged(list)' = Arranged(list)
    BY SameOptions
  <2>3. \A p : Chosen(p)' = Chosen(p)
    BY <2>2, SameOptions DEF Chosen
  <2> QED
    BY <2>1, <2>2, <2>3, SameOptions DEF OnePac
<1>4. ASSUME OnePac, opts.limit > 0
      PROVE  Len(Written) <= opts.limit
  <2>1. /\ Len(Written) = Len(emitted[1]) + Len(emitted[2]) /\ Len(emitted[1]) \in Nat /\ Len(emitted[2]) \in Nat
        /\ cap \in Nat /\ opts.limit \in Nat /\ pass \in 1..2
    BY WrittenRows, OptsFacts DEF OutputTypeOK
  <2>2. CASE pass = 1
    <3>1. emitted[2] = <<>> /\ cap = opts.limit /\ Len(emitted[1]) <= cap
      BY <1>4, <2>2 DEF PassInv, CountInv
    <3>2. Written = emitted[1]
      BY <3>1, WrittenRows
    <3> QED
      BY <3>1, <3>2
  <2>3. CASE pass = 2
    <3>1. cap > 0 /\ Len(emitted[1]) + cap <= opts.limit
      BY <1>4, <2>3 DEF PassInv, OnePac
    <3>2. Len(emitted[2]) <= cap
      BY <2>3, <3>1 DEF CountInv
    <3> DEFINE a == Len(emitted[1])  b == Len(emitted[2])  n == Len(Written)
    <3>3. n = a + b /\ a \in Nat /\ b \in Nat /\ cap \in Nat /\ opts.limit \in Nat
      BY <2>1
    <3>4. a + cap <= opts.limit /\ b <= cap
      BY <3>1, <3>2
    <3> HIDE DEF a, b, n
    <3>5. n <= opts.limit
      BY ONLY <3>3, <3>4
    <3> QED
      BY <3>5 DEF n
  <2>4. pass = 1 \/ pass = 2
    BY <2>1
  <2> QED
    BY <2>2, <2>3, <2>4
<1>5. IsPrefix(whole, whole) /\ IsPrefix(Existing \o body, whole)
  <2> HIDE DEF body, closing, doc
  <2>1. doc \in Seq(Token) /\ Existing \o body \in Seq(Token) /\ whole \in Seq(Token)
    BY <1>1, ConcatProperties
  <2>2. whole = (Existing \o body) \o closing
    BY <1>1, ConcatAssociative
  <2>3. <<>> \in Seq(Token) /\ whole \o <<>> = whole
    BY <2>1, ConcatEmptySeq
  <2> HIDE DEF whole
  <2>4. IsPrefix(whole, whole \o <<>>)
    BY <2>1, <2>3, PrefixFacts
  <2> QED
    BY <1>1, <2>1, <2>2, <2>3, <2>4, PrefixFacts
<1>6. /\ (Existing \o Document(Written))' = whole
      /\ (Existing \o Unclosed(Written))' = Existing \o Unclosed(Written)
  BY <1>3
<1> HIDE DEF whole
<1>7. ASSUME OnePac
      PROVE  /\ result' = "finished" =>
                /\ ink'.sheet = whole /\ \A p \in 1..pass : emitted[p] \in Chosen(p)
                /\ opts.limit > 0 => Len(Written) <= opts.limit
             /\ result' = "cancelled" /\ opts.format # "pac" =>
                /\ kept # <<>> => emitted[pass] \in {FirstOf(list, cap) : list \in Arranged(kept)}
                /\ \/ ink'.sheet = whole
                   \/ opts.chained /\ pass = 1 /\ opts.format = "json" /\ ink'.sheet = Existing \o Unclosed(Written)
             /\ IsPrefix(ink'.sheet, whole)
  BY <1>2, <1>4, <1>5, <1>7 DEF whole
<1> QED
  BY <1>3, <1>6, <1>7 DEF DocumentAsPromised

\* The first pass of a chain is over.
LEMMA HandsOverStep ==
    ASSUME OutputInv, at = "close", at' = "between", pass = 1, opts.chained,
           UNCHANGED <<opts, progress, supply, held, fault, stopped, result, emitted, kept>>,
           SinkFor(ink'), ink'.buffer = <<>>, failed' \in BOOLEAN,
           fault = "none" => ~failed' /\ ~stopped, SheetInv'
    PROVE  OutputInv'
<1>1. /\ OutputTypeOK /\ SinkInv /\ PassInv /\ CountInv /\ StopInv /\ ReadInv /\ PickInv
  BY DEF OutputInv
<1>2. /\ opts' = opts /\ pass' = pass /\ taken' = taken /\ cap' = cap /\ items' = items
      /\ supply' = supply /\ held' = held /\ fault' = fault /\ stopped' = stopped /\ result' = result
      /\ emitted' = emitted /\ kept' = kept
  BY DEF progress
<1>3. ink' \in Ink
  BY DEF SinkFor
<1>4. OutputTypeOK'
  BY <1>1, <1>2, <1>3 DEF OutputTypeOK, Ink
<1>5. SinkInv'
  BY <1>1, <1>2, SameSink DEF SinkInv
<1>6. PassInv' /\ CountInv'
  BY <1>1, <1>2 DEF PassInv, CountInv
<1>7. StopInv'
  BY <1>1, <1>2, SameOptions DEF StopInv
<1>8. ReadInv'
  BY <1>1, <1>2, SamePass DEF ReadInv
<1>9. PickInv'
  BY <1>1, <1>2, SameOptions DEF PickInv
<1>10. DocumentAsPromised'
  BY DEF DocumentAsPromised
<1> QED
  BY <1>4, <1>5, <1>6, <1>7, <1>8, <1>9, <1>10 DEF OutputInv

\* What the end of a pass writes is what the document still lacks, or nothing.
LEMMA CloserFacts ==
    ASSUME OutputTypeOK, CountInv, opts.format = "json"
    PROVE  /\ Closer \in Seq(Token)
           /\ Closer = Closing(Written) \/ (Closer = <<>> /\ opts.chained /\ pass = 1)
           /\ opts.chained /\ pass = 1 /\ ~stopped /\ ~failed => Closer = <<>>
           /\ (IF items > 0 THEN <<<<"]">>>> ELSE Empty) = Closing(Written)
<1>1. items = Len(Written) /\ Written \in Seq(Row) /\ Len(Written) \in Nat
  BY WrittenRows, LenProperties DEF CountInv
<1>2. items > 0 <=> Written # <<>>
  BY <1>1, EmptySeq
<1>3. /\ Closing(Written) = IF Written = <<>> THEN Empty ELSE <<<<"]">>>>
  BY DEF Closing
<1>4. Empty \in Seq(Token) /\ <<<<"]">>>> \in Seq(Token) /\ <<>> \in Seq(Token)
  BY Tokens
<1> HIDE DEF Closing
<1>5. (IF items > 0 THEN <<<<"]">>>> ELSE Empty) = Closing(Written)
  BY <1>2, <1>3
<1> QED
  BY <1>2, <1>3, <1>4, <1>5 DEF Closer

\* A pass ends that leaves its document as it stands or closes it.
LEMMA ClosesStep == ASSUME OutputInv, Closes PROVE OutputInv'
<1> DEFINE write == IF opts.format = "json" THEN Writes(ink, Closer) ELSE [to |-> "ok", ink |-> ink]
           text == IF opts.format = "json" THEN Closer ELSE <<>>
           body == Body(Written)
           closing == Closing(Written)
<1>1. /\ OutputTypeOK /\ SinkInv /\ PassInv /\ CountInv /\ StopInv /\ ReadInv /\ PickInv /\ SheetInv
      /\ opts \in Invocations /\ pass \in 1..2
  BY DEF OutputInv, OutputTypeOK
<1>2. /\ at = "close" /\ opts.format # "pac" /\ ink' = Flushed(write.ink)
      /\ failed' = (failed \/ write.to # "ok") /\ Leaves(Outcome(failed'))
      /\ opts' = opts /\ pass' = pass /\ cap' = cap /\ fault' = fault /\ stopped' = stopped
      /\ emitted' = emitted /\ kept' = kept
      /\ UNCHANGED <<opts, progress, supply, held, fault, emitted, kept>>
  BY DEF Closes, progress
<1>3. /\ text \in Seq(Token) /\ (text = closing \/ (text = <<>> /\ opts.format = "json" /\ opts.chained /\ pass = 1))
      /\ opts.chained /\ pass = 1 /\ ~stopped /\ ~failed => text = <<>>
  <2>1. opts.format # "json" => closing = <<>> /\ <<>> \in Seq(Token)
    BY <1>1, <1>2, OptsFacts, Tokens DEF Closing
  <2>2. /\ opts.format = "json" => /\ Closer \in Seq(Token)
                                   /\ Closer = closing \/ (Closer = <<>> /\ opts.chained /\ pass = 1)
                                   /\ opts.chained /\ pass = 1 /\ ~stopped /\ ~failed => Closer = <<>>
    BY <1>1, CloserFacts
  <2> QED
    BY <2>1, <2>2
<1>4. /\ SinkFor(write.ink) /\ (fault = "none" => write.to = "ok" /\ Flow(write.ink) = Flow(ink) \o text)
      /\ fault # "none" => write.ink.sheet = ink.sheet
  <2>1. SinkFor(ink) /\ Flow(ink) \in Seq(Token)
    <3>1. SinkFor(ink) /\ ink.sheet \in Seq(Token) /\ ink.buffer \in Seq(Token)
      BY <1>1 DEF SinkInv, OutputTypeOK
    <3> QED
      BY <3>1, ConcatProperties DEF Flow
  <2>2. Flow(ink) \o <<>> = Flow(ink)
    BY <2>1, ConcatEmptySeq
  <2>3. CASE opts.format = "json"
    BY <1>3, <2>1, <2>3, WritesFacts
  <2>4. CASE opts.format # "json"
    BY <2>1, <2>2, <2>4
  <2> QED
    BY <2>3, <2>4
<1> HIDE DEF write, text
<1>5. /\ SinkFor(ink') /\ ink'.buffer = <<>> /\ ink'.sheet \in Seq(Token)
      /\ fault = "none" => ink'.sheet = Flow(ink) \o text
      /\ fault # "none" => ink'.sheet = ink.sheet
  BY <1>2, <1>4, FlushedFacts
<1>6. failed' \in BOOLEAN /\ (fault = "none" => ~failed' /\ ~failed)
  <2>1. (failed \/ write.to # "ok") \in BOOLEAN
    OBVIOUS
  <2>2. fault = "none" => ~failed
    BY <1>1 DEF SinkInv
  <2> QED
    BY <1>2, <1>4, <2>1, <2>2
<1>7. stopped \in BOOLEAN /\ stopped' = stopped
  BY <1>1, <1>2 DEF OutputTypeOK
<1>8. /\ Existing \in Seq(Token) /\ body \in Seq(Token) /\ closing \in Seq(Token) /\ Written \in Seq(Row)
      /\ Document(Written) = body \o closing
      /\ Existing \o Document(Written) = (Existing \o body) \o closing
      /\ Content = Existing \o body /\ Existing \o body \in Seq(Token)
  <2>1. /\ Existing \in Seq(Token) /\ body \in Seq(Token) /\ closing \in Seq(Token) /\ Written \in Seq(Row)
        /\ Document(Written) = body \o closing
    BY <1>1, WrittenRows, OptsFacts, BodyFacts
  <2>2. Content = Existing \o body
    BY <1>2 DEF Content
  <2> HIDE DEF body, closing
  <2> QED
    BY <2>1, <2>2, ConcatAssociative, ConcatProperties, SMTT(30)
<1>9. /\ OnePac /\ (fault = "none" => Flow(ink) = Existing \o body) /\ IsPrefix(ink.sheet, Existing \o body)
  BY <1>1, <1>2, <1>8 DEF SheetInv, OnePac
<1> HIDE DEF body, closing
<1>10. CASE at' = "between"
  <2>1. /\ opts.chained /\ pass = 1 /\ result' = result /\ (fault = "none" => ~stopped)
    BY <1>2, <1>10 DEF Leaves, EndsAs, Outcome
  <2>2. Content' = Existing \o body
    <3>1. Written' = Written
      BY <1>2 DEF Written
    <3> QED
      BY <1>2, <1>10, <3>1, SameOptions DEF Content, body
  <2>3. fault = "none" => ink'.sheet = Existing \o body
    BY <1>3, <1>5, <1>6, <1>8, <1>9, <2>1, ConcatEmptySeq
  <2>4. Flow(ink') = ink'.sheet
    BY <1>5, ConcatEmptySeq DEF Flow
  <2>5. IsPrefix(Existing \o body, Existing \o body)
    BY <1>8, PrefixFacts, ConcatEmptySeq, EmptySeq
  <2>6. SheetInv'
    BY <1>2, <1>5, <1>9, <1>10, <2>2, <2>3, <2>4, <2>5 DEF SheetInv
  <2>7. UNCHANGED <<opts, progress, supply, held, fault, stopped, result, emitted, kept>>
    BY <1>2, <2>1
  <2> QED
    BY <1>2, <1>5, <1>6, <1>10, <2>1, <2>6, <2>7, HandsOverStep
<1>11. CASE at' # "between"
  <2>1. at' = "done" /\ result' = Outcome(failed') /\ ~(opts.chained /\ pass = 1 /\ Outcome(failed') = "finished")
    BY <1>2, <1>11 DEF Leaves, EndsAs
  <2>2. result' \in {"finished", "cancelled", "error"}
    BY <2>1 DEF Outcome
  <2>3. CASE fault # "none"
    <3>1. DocumentAsPromised'
      BY <1>1, <1>2, <1>5, <2>1, <2>3, EndsBadly
    <3> QED
      BY <1>2, <1>5, <1>6, <1>7, <2>1, <2>2, <2>3, <3>1, EndingStep
  <2>4. CASE fault = "none"
    <3>1. result' = (IF stopped THEN "cancelled" ELSE "finished")
      BY <1>6, <2>1, <2>4 DEF Outcome
    <3>2. ink'.sheet = (Existing \o body) \o text
      BY <1>5, <1>9, <2>4
    <3>3. \/ ink'.sheet = Existing \o Document(Written)
          \/ /\ result' = "cancelled" /\ opts.chained /\ pass = 1 /\ opts.format = "json"
             /\ ink'.sheet = Existing \o body
      <4>1. CASE text = closing
        BY <1>8, <3>2, <4>1
      <4>2. CASE text = <<>> /\ opts.format = "json" /\ opts.chained /\ pass = 1
        <5>1. ink'.sheet = Existing \o body
          BY <1>8, <3>2, <4>2, ConcatEmptySeq
        <5>2. result' = "cancelled"
          BY <2>1, <3>1, <4>2
        <5> QED
          BY <4>2, <5>1, <5>2
      <4> QED
        BY <1>3, <4>1, <4>2
    <3>4. /\ result' = "finished" => \A p \in 1..pass : emitted[p] \in Chosen(p)
          /\ kept # <<>> => emitted[pass] \in {FirstOf(list, cap) : list \in Arranged(kept)}
      <4>1. /\ ~stopped => emitted[pass] \in Chosen(pass)
            /\ kept # <<>> => emitted[pass] \in {FirstOf(list, cap) : list \in Arranged(kept)}
            /\ pass = 2 => emitted[1] \in Chosen(1)
        BY <1>1, <1>2, <2>4 DEF PickInv
      <4>2. \A p \in 1..pass : p = pass \/ (p = 1 /\ pass = 2)
        BY <1>1
      <4> QED
        BY <3>1, <4>1, <4>2
    <3>5. DocumentAsPromised'
      BY <1>1, <1>2, <2>4, <3>1, <3>3, <3>4, EndsWell DEF body
    <3> QED
      BY <1>2, <1>5, <1>6, <1>7, <2>1, <2>2, <2>4, <3>5, EndingStep
  <2> QED
    BY <2>3, <2>4
<1> QED
  BY <1>10, <1>11

\* The PAC function is written when its rows are gathered.
LEMMA ClosesPacStep == ASSUME OutputInv, ClosesPac PROVE OutputInv'
<1> DEFINE function == <<<<"function", held>>>>
           write == IF stopped THEN [to |-> "ok", ink |-> ink] ELSE Writes(ink, function)
           text == IF stopped THEN <<>> ELSE function
           body == Body(Written)
           doc == Document(Written)
<1>1. /\ OutputTypeOK /\ SinkInv /\ PassInv /\ CountInv /\ StopInv /\ ReadInv /\ PickInv /\ SheetInv
      /\ opts \in Invocations /\ pass \in 1..2 /\ held \in Seq(Row)
  BY DEF OutputInv, OutputTypeOK
<1>2. /\ at = "close" /\ opts.format = "pac"
      /\ ink' = (IF write.to = "ok" THEN Flushed(write.ink) ELSE write.ink)
      /\ failed' = failed /\ Leaves(Outcome(write.to = "full"))
      /\ opts' = opts /\ pass' = pass /\ cap' = cap /\ fault' = fault /\ stopped' = stopped
      /\ emitted' = emitted /\ kept' = kept
      /\ UNCHANGED <<opts, progress, supply, held, fault, emitted, kept>>
  BY DEF ClosesPac, progress
<1>3. function \in Seq(Token) /\ <<>> \in Seq(Token)
  BY <1>1, Tokens
<1>4. /\ SinkFor(write.ink) /\ (fault = "none" => write.to = "ok" /\ Flow(write.ink) = Flow(ink) \o text)
      /\ fault # "none" => write.ink.sheet = ink.sheet
      /\ write.to \in {"ok", "full", "closed"} /\ (write.to = "closed" => fault = "closed")
      /\ write.to = "full" => ~stopped
  <2>1. SinkFor(ink) /\ Flow(ink) \in Seq(Token)
    <3>1. SinkFor(ink) /\ ink.sheet \in Seq(Token) /\ ink.buffer \in Seq(Token)
      BY <1>1 DEF SinkInv, OutputTypeOK
    <3> QED
      BY <3>1, ConcatProperties DEF Flow
  <2>2. Flow(ink) \o <<>> = Flow(ink)
    BY <2>1, ConcatEmptySeq
  <2>3. CASE ~stopped
    <3>1. /\ SinkFor(Writes(ink, function).ink) /\ Writes(ink, function).to \in {"ok", "full", "closed"}
          /\ fault = "none" => /\ Writes(ink, function).to = "ok"
                               /\ Flow(Writes(ink, function).ink) = Flow(ink) \o function
          /\ fault # "none" => Writes(ink, function).ink.sheet = ink.sheet
      BY <1>3, <2>1, WritesFacts
    <3>2. Writes(ink, function).to = "closed" => fault = "closed"
      BY ClosedPipe
    <3> HIDE DEF function
    <3> QED
      BY <2>3, <3>1, <3>2
  <2>4. CASE stopped
    BY <2>1, <2>2, <2>4
  <2> QED
    BY <2>3, <2>4
<1> HIDE DEF write, text
<1>5. /\ SinkFor(ink') /\ ink'.sheet \in Seq(Token)
      /\ fault = "none" => ink'.sheet = Flow(ink) \o text
      /\ fault # "none" => ink'.sheet = ink.sheet
      /\ write.to # "full" => ink'.buffer = <<>>
  <2>1. CASE write.to = "ok"
    <3>1. ink' = Flushed(write.ink)
      BY <1>2, <2>1
    <3> QED
      BY <1>4, <3>1, FlushedFacts
  <2>2. CASE write.to # "ok"
    <3>1. ink' = write.ink /\ fault # "none"
      BY <1>2, <1>4, <2>2
    <3>2. write.to = "closed" => write.ink.buffer = <<>>
      BY <1>4 DEF SinkFor
    <3>3. write.ink.sheet \in Seq(Token)
      BY <1>4 DEF SinkFor, Ink
    <3> QED
      BY <1>4, <2>2, <3>1, <3>2, <3>3
  <2> QED
    BY <2>1, <2>2
<1>6. stopped \in BOOLEAN /\ stopped' = stopped /\ failed' \in BOOLEAN /\ (fault = "none" => ~failed')
  BY <1>1, <1>2 DEF OutputTypeOK, SinkInv
<1>7. /\ Existing \in Seq(Token) /\ body = <<>> /\ doc = <<<<"function", Written>>>> /\ Existing \o body = Existing
      /\ pass = 1 => doc = function
  <2>1. Existing \in Seq(Token) /\ body = <<>> /\ doc = <<<<"function", Written>>>>
    BY <1>1, <1>2, OptsFacts DEF Body, Document
  <2>2. pass = 1 => held = Written
    BY <1>1, <1>2, WrittenRows DEF CountInv, PassInv
  <2> QED
    BY <2>1, <2>2, ConcatEmptySeq
<1>8. ASSUME OnePac
      PROVE  /\ pass = 1 /\ (fault = "none" => Flow(ink) = Existing)
             /\ IsPrefix(ink.sheet, Existing \o doc)
  <2>1. Content = Existing \o body
    BY <1>2 DEF Content
  <2>2. pass = 1 /\ (fault = "none" => Flow(ink) = Content)
    BY <1>1, <1>2, <1>8 DEF SheetInv, OnePac
  <2>3. IsPrefix(ink.sheet, Existing \o doc)
    BY <1>1, <1>2, <1>8, FrontArrived
  <2> QED
    BY <1>7, <2>1, <2>2, <2>3
<1>9. ASSUME OnePac, fault = "none", ~stopped
      PROVE  ink'.sheet = Existing \o doc
  BY <1>5, <1>7, <1>8, <1>9 DEF text
<1>10. CASE at' = "between"
  <2>1. /\ opts.chained /\ pass = 1 /\ result' = result /\ ~stopped /\ write.to # "full"
    BY <1>2, <1>10 DEF Leaves, EndsAs, Outcome
  <2>2. Content' = Existing \o doc /\ OnePac
    <3>1. Written' = Written
      BY <1>2 DEF Written
    <3> QED
      BY <1>2, <1>10, <2>1, <3>1, SameOptions DEF Content, OnePac
  <2>3. Flow(ink') = ink'.sheet /\ ink'.buffer = <<>>
    BY <1>5, <2>1, ConcatEmptySeq DEF Flow
  <2>4. IsPrefix(Existing \o doc, Existing \o doc)
    <3>1. doc \in Seq(Token)
      BY <1>3, <1>7, <2>1
    <3> HIDE DEF doc
    <3>2. Existing \o doc \in Seq(Token)
      BY <1>7, <3>1, ConcatProperties
    <3> QED
      BY <1>3, <3>2, PrefixFacts, ConcatEmptySeq
  <2> HIDE DEF doc
  <2>5. SheetInv'
    BY <1>2, <1>5, <1>8, <1>9, <1>10, <2>1, <2>2, <2>3, <2>4 DEF SheetInv
  <2>6. UNCHANGED <<opts, progress, supply, held, fault, stopped, result, emitted, kept>>
    BY <1>2, <2>1
  <2> QED
    BY <1>2, <1>5, <1>6, <1>10, <2>1, <2>3, <2>5, <2>6, HandsOverStep
<1>11. CASE at' # "between"
  <2>1. at' = "done" /\ result' = Outcome(write.to = "full")
    BY <1>2, <1>11 DEF Leaves, EndsAs
  <2>2. result' \in {"finished", "cancelled", "error"}
    BY <2>1 DEF Outcome
  <2>3. CASE fault # "none"
    <3>1. DocumentAsPromised'
      BY <1>1, <1>2, <1>5, <2>1, <2>3, EndsBadly
    <3> QED
      BY <1>2, <1>5, <1>6, <2>1, <2>2, <2>3, <3>1, EndingStep
  <2>4. CASE fault = "none"
    <3>1. result' = (IF stopped THEN "cancelled" ELSE "finished")
      BY <1>4, <2>1, <2>4 DEF Outcome
    <3>2. /\ ~stopped => emitted[pass] \in Chosen(pass)
          /\ kept # <<>> => emitted[pass] \in {FirstOf(list, cap) : list \in Arranged(kept)}
      BY <1>1, <1>2, <2>4 DEF PickInv
    <3>3. ASSUME OnePac
          PROVE  /\ \/ ink'.sheet = Existing \o doc
                    \/ result' = "cancelled" /\ opts.format = "pac" /\ ink'.sheet = Existing \o body
                 /\ result' = "finished" => \A p \in 1..pass : emitted[p] \in Chosen(p)
                 /\ result' = "cancelled" /\ kept # <<>> =>
                        emitted[pass] \in {FirstOf(list, cap) : list \in Arranged(kept)}
      <4>1. stopped => ink'.sheet = Existing
        BY <1>5, <1>7, <1>8, <2>4, <3>3, ConcatEmptySeq DEF text
      <4>2. ~stopped => \A p \in 1..pass : emitted[p] \in Chosen(p)
        BY <1>8, <3>2, <3>3
      <4> HIDE DEF doc
      <4> QED
        BY <1>2, <1>7, <1>9, <2>4, <3>1, <3>2, <3>3, <4>1, <4>2
    <3>4. DocumentAsPromised'
      BY <1>1, <1>2, <2>4, <3>1, <3>3, EndsWell DEF body, doc
    <3> QED
      BY <1>2, <1>5, <1>6, <2>1, <2>2, <2>4, <3>4, EndingStep
  <2> QED
    BY <2>3, <2>4
<1> QED
  BY <1>10, <1>11

\* The array that both passes share is closed.
LEMMA ClosesChainStep == ASSUME OutputInv, ClosesChain PROVE OutputInv'
<1> DEFINE closer == IF items > 0 THEN <<<<"]">>>> ELSE Empty
           write == IF opts.format = "json" THEN Writes(ink, closer) ELSE [to |-> "ok", ink |-> ink]
           text == IF opts.format = "json" THEN closer ELSE <<>>
           body == Body(Written)
           doc == Document(Written)
           closing == Closing(Written)
<1>1. /\ OutputTypeOK /\ SinkInv /\ PassInv /\ CountInv /\ StopInv /\ ReadInv /\ PickInv /\ SheetInv
      /\ opts \in Invocations
  BY DEF OutputInv, OutputTypeOK
<1>2. /\ at = "between" /\ ink' = (IF write.to = "ok" THEN Flushed(write.ink) ELSE ink)
      /\ at' = "done" /\ result' = (IF write.to = "ok" THEN "finished" ELSE "error")
      /\ opts' = opts /\ pass' = pass /\ cap' = cap /\ fault' = fault /\ stopped' = stopped /\ failed' = failed
      /\ emitted' = emitted /\ kept' = kept
      /\ UNCHANGED <<opts, progress, supply, held, fault, emitted, kept>>
  BY DEF ClosesChain, EndsAs, progress
<1>3. text \in Seq(Token) /\ (opts.format \in {"lines", "csv", "json"} => text = closing)
  <2>1. opts.format = "json" => closer = closing
    BY <1>1, CloserFacts
  <2>2. opts.format \in {"lines", "csv"} => closing = <<>>
    BY DEF Closing
  <2>3. closer \in Seq(Token) /\ <<>> \in Seq(Token)
    BY Tokens
  <2> HIDE DEF closer, closing
  <2> QED
    BY <2>1, <2>2, <2>3
<1>4. SinkFor(ink) /\ ink.sheet \in Seq(Token) /\ ink.buffer = <<>> /\ Flow(ink) = ink.sheet
  <2>1. SinkFor(ink) /\ ink.sheet \in Seq(Token) /\ ink.buffer = <<>>
    BY <1>1, <1>2 DEF SinkInv, OutputTypeOK
  <2> QED
    BY <2>1, ConcatEmptySeq DEF Flow
<1>5. /\ SinkFor(write.ink) /\ (fault = "none" => write.to = "ok" /\ Flow(write.ink) = ink.sheet \o text)
      /\ fault # "none" => write.ink.sheet = ink.sheet
  <2>1. CASE opts.format = "json"
    <3>1. closer \in Seq(Token)
      BY Tokens
    <3> HIDE DEF closer
    <3> QED
      BY <1>4, <2>1, <3>1, WritesFacts
  <2>2. CASE opts.format # "json"
    BY <1>4, <2>2, ConcatEmptySeq
  <2> QED
    BY <2>1, <2>2
<1> HIDE DEF write, text
<1>6. /\ SinkFor(ink') /\ (fault = "none" => ink'.sheet = ink.sheet \o text)
      /\ fault # "none" => ink'.sheet = ink.sheet
  BY <1>2, <1>4, <1>5, FlushedFacts
<1>7. /\ failed' \in BOOLEAN /\ stopped' \in BOOLEAN /\ (fault = "none" => ~failed' /\ (stopped => stopped'))
      /\ result' \in {"finished", "error"} /\ (fault = "none" => result' = "finished")
  BY <1>1, <1>2, <1>5 DEF OutputTypeOK, SinkInv
<1>8. CASE fault # "none"
  <2>1. DocumentAsPromised'
    BY <1>1, <1>2, <1>6, <1>8, EndsBadly
  <2> QED
    BY <1>2, <1>6, <1>7, <1>8, <2>1, EndingStep
<1>9. CASE fault = "none"
  <2>1. pass = 1 /\ emitted[1] \in Chosen(1)
    BY <1>1, <1>2, <1>9 DEF PassInv, PickInv
  <2>2. OnePac
    BY <2>1 DEF OnePac
  <2>3. /\ Existing \in Seq(Token) /\ body \in Seq(Token) /\ closing \in Seq(Token) /\ doc = body \o closing
        /\ Existing \o doc \in Seq(Token)
        /\ Existing \o doc = (Existing \o body) \o closing
    <3>1. /\ Existing \in Seq(Token) /\ body \in Seq(Token) /\ closing \in Seq(Token) /\ doc = body \o closing
      BY <1>1, WrittenRows, OptsFacts, BodyFacts
    <3> HIDE DEF body, closing, doc
    <3> QED
      BY <3>1, ConcatAssociative, ConcatProperties
  <2> HIDE DEF body, closing, doc
  <2>4. ink'.sheet = Existing \o doc
    <3>1. CASE opts.format = "pac"
      <4>1. ink.sheet = Existing \o doc /\ text = <<>>
        BY <1>1, <1>2, <1>4, <1>9, <2>2, <3>1 DEF SheetInv, Content, text, doc
      <4> QED
        BY <1>6, <1>9, <2>3, <4>1, ConcatEmptySeq
    <3>2. CASE opts.format # "pac"
      <4>1. ink.sheet = Existing \o body
        BY <1>1, <1>2, <1>4, <1>9, <2>2, <3>2 DEF SheetInv, Content, body
      <4>2. text = closing
        BY <1>1, <1>3, <3>2, OptsFacts
      <4> QED
        BY <1>6, <1>9, <2>3, <4>1, <4>2
    <3> QED
      BY <3>1, <3>2
  <2>5. \A p \in 1..pass : emitted[p] \in Chosen(p)
    BY <2>1
  <2>6. DocumentAsPromised'
    BY <1>1, <1>2, <1>7, <1>9, <2>4, <2>5, EndsWell DEF doc
  <2> QED
    BY <1>2, <1>6, <1>7, <1>9, <2>6, EndingStep
<1> QED
  BY <1>8, <1>9

\* The fallback pass does not start.
LEMMA NotStartedStep ==
    ASSUME OutputInv, NEW how \in {"cancelled", "error"}, NotStarted(how)
    PROVE  OutputInv'
<1> DEFINE body == Body(Written)
           doc == Document(Written)
<1>1. /\ OutputTypeOK /\ SinkInv /\ PassInv /\ CountInv /\ StopInv /\ ReadInv /\ PickInv /\ SheetInv
      /\ opts \in Invocations
  BY DEF OutputInv, OutputTypeOK
<1>2. /\ at = "between" /\ at' = "done" /\ result' = how /\ stopped' = (how = "cancelled")
      /\ ink' = ink /\ failed' = failed
      /\ opts' = opts /\ pass' = pass /\ cap' = cap /\ fault' = fault
      /\ emitted' = emitted /\ kept' = kept
      /\ UNCHANGED <<opts, progress, supply, held, fault, emitted, kept>>
  BY DEF NotStarted, EndsAs, progress
<1>3. /\ SinkFor(ink') /\ failed' \in BOOLEAN /\ stopped' \in BOOLEAN
      /\ fault = "none" => ~failed' /\ ~stopped
      /\ result' \in {"none", "finished", "cancelled", "error"}
  BY <1>1, <1>2 DEF SinkInv, OutputTypeOK, StopInv
<1>4. DocumentAsPromised'
  <2>1. CASE fault # "none" \/ how = "error"
    BY <1>1, <1>2, <2>1, EndsBadly
  <2>2. CASE fault = "none" /\ how = "cancelled"
    <3>1. pass = 1 /\ opts.chained /\ kept = <<>> /\ OnePac
      BY <1>1, <1>2, <2>2 DEF PassInv, StopInv, OnePac
    <3>2. ink.sheet = Content
      <4>1. ink.buffer = <<>> /\ ink.sheet \in Seq(Token)
        BY <1>1, <1>2 DEF SinkInv, OutputTypeOK
      <4>2. Flow(ink) = ink.sheet
        BY <4>1, ConcatEmptySeq DEF Flow
      <4> QED
        BY <1>1, <1>2, <2>2, <3>1, <4>2 DEF SheetInv
    <3>3. \/ opts.format = "json" /\ ink.sheet = Existing \o body
          \/ ink.sheet = Existing \o doc
      <4>1. CASE opts.format = "pac"
        BY <1>2, <3>2, <4>1 DEF Content
      <4>2. CASE opts.format = "json"
        BY <1>2, <3>2, <4>2 DEF Content
      <4>3. CASE opts.format \in {"lines", "csv"}
        <5>1. body \in Seq(Token) /\ doc = body \o Closing(Written) /\ Closing(Written) = <<>>
          BY <1>1, <4>3, WrittenRows, BodyFacts DEF Closing
        <5>2. doc = body
          BY <5>1, ConcatEmptySeq
        <5>3. ink.sheet = Existing \o body
          BY <1>2, <3>2, <4>3 DEF Content
        <5> HIDE DEF body, doc
        <5> QED
          BY <5>2, <5>3
      <4> QED
        BY <1>1, <4>1, <4>2, <4>3, OptsFacts
    <3> HIDE DEF body, doc
    <3> QED
      BY <1>1, <1>2, <2>2, <3>1, <3>3, EndsWell DEF body, doc
  <2> QED
    BY <2>1, <2>2
<1> QED
  BY <1>2, <1>3, <1>4, EndingStep

\* The file fills up or the reader of the pipe goes away.
LEMMA BreaksStep ==
    ASSUME OutputInv, NEW kind \in {"full", "closed"}, Breaks(kind)
    PROVE  OutputInv'
<1>1. /\ OutputTypeOK /\ SinkInv /\ PassInv /\ CountInv /\ StopInv /\ ReadInv /\ PickInv /\ SheetInv
  BY DEF OutputInv
<1>2. /\ fault = "none" /\ at # "done" /\ (kind = "closed" => ~ToFile) /\ fault' = kind
      /\ opts' = opts /\ at' = at /\ pass' = pass /\ taken' = taken /\ cap' = cap /\ items' = items
      /\ supply' = supply /\ held' = held /\ ink' = ink /\ failed' = failed /\ stopped' = stopped
      /\ result' = result /\ emitted' = emitted /\ kept' = kept
  BY DEF Breaks, progress
<1>3. OutputTypeOK'
  BY <1>1, <1>2 DEF OutputTypeOK
<1>4. SinkInv'
  BY <1>1, <1>2, SameOptions DEF SinkInv, SinkFor
<1>5. PassInv' /\ CountInv'
  BY <1>1, <1>2 DEF PassInv, CountInv
<1>6. StopInv'
  BY <1>1, <1>2, SameOptions DEF StopInv
<1>7. ReadInv'
  BY <1>1, <1>2, SameOptions, SamePass DEF ReadInv
<1>8. PickInv'
  BY <1>2 DEF PickInv
<1>9. SheetInv'
  <2>1. Existing' = Existing /\ Body(Written)' = Body(Written) /\ Document(Written)' = Document(Written)
        /\ (OnePac' <=> OnePac)
    <3>1. Written' = Written
      BY <1>2 DEF Written
    <3> QED
      BY <1>2, <3>1, SameOptions DEF OnePac
  <2>2. Content' = Content
    BY <1>2, <2>1 DEF Content
  <2> QED
    BY <1>1, <1>2, <2>1, <2>2 DEF SheetInv
<1>10. DocumentAsPromised'
  BY <1>2 DEF DocumentAsPromised
<1> QED
  BY <1>3, <1>4, <1>5, <1>6, <1>7, <1>8, <1>9, <1>10 DEF OutputInv

\* A fallback pass is due only if rows are missing.
LEMMA ShortFacts ==
    ASSUME NEW passed, Short(passed)
    PROVE  IF opts.capped THEN opts.limit = 0 \/ items < opts.limit
           ELSE passed = 0 \/ (opts.limit > 0 /\ passed < opts.limit)
<1>1. Q!HasAnyQuota(Requested) <=> opts.capped
  <2>1. DOMAIN Requested = {1} /\ Requested[1].capped = opts.capped
    BY DEF Requested
  <2> QED
    BY <2>1 DEF Q!HasAnyQuota, Q!Slots
<1> QED
  BY <1>1 DEF Short, Q!NeedsFallback

\* What is left of the limit.
LEMMA MaxWithZero ==
    ASSUME NEW d \in Nat
    PROVE  Max({0, d}) = d
<1>1. d \in {0, d} /\ \A y \in {0, d} : d >= y
  OBVIOUS
<1>2. \A x \in {0, d} : (\A y \in {0, d} : x >= y) => x = d
  OBVIOUS
<1> QED
  BY <1>1, <1>2 DEF Max

\* A pass that has read nothing has collected nothing.
LEMMA NothingRead ==
    ASSUME NEW src \in Seq(Row)
    PROVE  /\ src = SubSeq(src, 1, Len(src)) /\ 0 <= Len(src)
           /\ <<>> = Matching(SubSeq(src, 1, 0)) /\ AllWanted(<<>>) /\ Len(<<>>) = 0 /\ <<>> \in Seq(Row)
<1>1. Len(src) \in Nat /\ <<>> \in Seq(Row) /\ Len(<<>>) = 0
  BY LenProperties
<1>2. SubSeq(src, 1, 0) = <<>>
  BY SubSeqEmpty
<1>3. 1..Len(<<>>) = {}
  BY <1>1
<1>4. AllWanted(<<>>)
  BY <1>3 DEF AllWanted
<1>5. src = SubSeq(src, 1, Len(src))
  BY SubSeqFull
<1>6. Matching(SubSeq(src, 1, 0)) = <<>>
  BY <1>2, MatchingOfNone
<1> QED
  BY <1>1, <1>4, <1>5, <1>6

\* The fallback pass starts with what the first one left of the limit.
LEMMA GoesOnStep == ASSUME OutputInv, GoesOn PROVE OutputInv'
<1>1. /\ OutputTypeOK /\ SinkInv /\ PassInv /\ CountInv /\ StopInv /\ ReadInv /\ PickInv /\ SheetInv
      /\ opts \in Invocations
  BY DEF OutputInv, OutputTypeOK
<1>2. PICK passed \in Passed :
        /\ Short(passed)
        /\ cap' = IF opts.limit = 0 THEN 0
                  ELSE Max({0, opts.limit - (IF opts.capped THEN items ELSE passed)})
  BY DEF GoesOn
<1>3. /\ at = "between" /\ at' = "open" /\ pass' = 2 /\ supply' = opts.found[2] /\ taken' = 0 /\ held' = <<>>
      /\ failed' = FALSE /\ stopped' = FALSE
      /\ opts' = opts /\ items' = items /\ ink' = ink /\ fault' = fault /\ result' = result
      /\ emitted' = emitted /\ kept' = kept
  BY DEF GoesOn
<1>4. /\ pass = 1 /\ opts.chained /\ emitted[2] = <<>> /\ emitted[1] \in Seq(Row) /\ Len(emitted[1]) \in Nat
      /\ opts.limit \in Nat /\ taken \in Nat /\ Len(emitted[1]) <= taken /\ items \in Nat
      /\ Len(emitted[2]) = 0
      /\ opts.found[2] \in Seq(Row)
      /\ items = IF opts.format = "pac" THEN 0 ELSE Len(emitted[1])
  <2>1. pass = 1 /\ opts.chained /\ emitted[2] = <<>> /\ Len(emitted[2]) = 0
    BY <1>1, <1>3, EmptySeq DEF PassInv
  <2>2. emitted[1] \in Seq(Row) /\ Len(emitted[1]) \in Nat
    BY <1>1, WrittenRows
  <2>3. taken \in Nat /\ Len(emitted[1]) <= taken /\ items \in Nat
    BY <1>1, <2>1 DEF OutputTypeOK, ReadInv
  <2>4. opts.limit \in Nat /\ opts.found[2] \in Seq(Row)
    BY <1>1, OptsFacts
  <2>5. items = IF opts.format = "pac" THEN 0 ELSE Len(emitted[1])
    BY <1>1, <2>1, <2>2 DEF CountInv
  <2> QED
    BY <2>1, <2>2, <2>3, <2>4, <2>5
<1>5. cap' \in Nat /\ (opts.limit > 0 => cap' > 0 /\ (opts.format # "pac" => Len(emitted[1]) + cap' <= opts.limit))
  <2>1. CASE opts.limit = 0
    BY <1>2, <2>1
  <2>2. CASE opts.limit # 0
    <3> DEFINE used == IF opts.capped THEN items ELSE passed
               d == opts.limit - used
    <3>1. passed \in Nat /\ taken <= passed
      BY <1>4 DEF Passed
    <3>2. used < opts.limit /\ used \in Nat /\ (opts.format # "pac" => Len(emitted[1]) <= used)
      <4>1. CASE opts.capped
        BY <1>2, <1>4, <2>2, <4>1, ShortFacts
      <4>2. CASE ~opts.capped
        <5>1. passed < opts.limit
          BY <1>2, <1>4, <2>2, <4>2, ShortFacts
        <5> QED
          BY <1>4, <3>1, <4>2, <5>1
      <4> QED
        BY <4>1, <4>2
    <3>3. cap' = Max({0, d})
      BY <1>2, <2>2
    <3> HIDE DEF used
    <3>4. d \in Nat /\ d > 0
      BY <1>4, <3>2
    <3>5. cap' = d
      BY <3>3, <3>4, MaxWithZero
    <3> QED
      BY <1>4, <3>2, <3>4, <3>5
  <2> QED
    BY <2>1, <2>2
<1>6. Supplied' = opts.found[2]
  BY <1>3 DEF Supplied
<1>7. /\ supply' = SubSeq(Supplied', 1, Len(Supplied')) /\ 0 <= Len(Supplied')
      /\ <<>> = Matching(SubSeq(Supplied', 1, 0)) /\ AllWanted(<<>>) /\ Len(<<>>) = 0 /\ <<>> \in Seq(Row)
  BY <1>3, <1>4, <1>6, NothingRead
<1>8. OutputTypeOK'
  <2>1. supply' \in Seq(Row) /\ held' \in Seq(Row) /\ taken' \in Nat /\ cap' \in Nat
    BY <1>3, <1>4, <1>5, <1>7
  <2>2. pass' \in 1..2
    BY <1>3
  <2>3. failed' \in BOOLEAN /\ stopped' \in BOOLEAN
    BY <1>3, Zenon
  <2> QED
    BY <1>1, <1>3, <2>1, <2>2, <2>3 DEF OutputTypeOK
<1>9. SinkInv'
  BY <1>1, <1>3, SameSink DEF SinkInv
<1>10. PassInv'
  BY <1>3, <1>4, <1>5 DEF PassInv
<1>11. CountInv'
  BY <1>1, <1>3, <1>4, <1>5 DEF CountInv
<1>12. StopInv'
  BY <1>1, <1>3 DEF StopInv
<1>13. ReadInv'
  BY <1>3, <1>4, <1>7 DEF ReadInv
<1>14. PickInv'
  BY <1>1, <1>3, SameOptions DEF PickInv
<1>15. SheetInv'
  <2>1. Existing' = Existing /\ Body(Written)' = Body(Written)
    <3>1. Written' = Written
      BY <1>3 DEF Written
    <3> QED
      BY <1>3, <3>1, SameOptions
  <2>2. opts.format # "pac" => Content' = Content /\ OnePac
    BY <1>3, <2>1 DEF Content, OnePac
  <2>3. OnePac' => opts.format # "pac"
    BY <1>3 DEF OnePac
  <2> QED
    BY <1>1, <1>3, <2>2, <2>3 DEF SheetInv
<1>16. DocumentAsPromised'
  BY <1>3 DEF DocumentAsPromised
<1> QED
  BY <1>8, <1>9, <1>10, <1>11, <1>12, <1>13, <1>14, <1>15, <1>16 DEF OutputInv

\* The invariant holds before the file is opened.
LEMMA OutputInitInv == OutputInit => OutputInv
<1> SUFFICES ASSUME OutputInit PROVE OutputInv
  OBVIOUS
<1>1. /\ opts \in Invocations
      /\ at = "open" /\ pass = 1 /\ supply = opts.found[1] /\ taken = 0 /\ held = <<>>
      /\ cap = opts.limit /\ items = 0
      /\ ink = [sheet |-> opts.before, buffer |-> <<>>, waiting |-> 0, lost |-> FALSE]
      /\ fault = "none" /\ failed = FALSE /\ stopped = FALSE /\ result = "none"
      /\ emitted = <<<<>>, <<>>>> /\ kept = <<>>
  BY DEF OutputInit
<1>2. /\ opts.limit \in Nat /\ opts.before \in Seq(Token) /\ opts.found[1] \in Seq(Row)
  BY <1>1, OptsFacts
<1>3. Supplied = opts.found[1]
  BY <1>1 DEF Supplied
<1>4. /\ supply = SubSeq(Supplied, 1, Len(Supplied)) /\ 0 <= Len(Supplied)
      /\ <<>> = Matching(SubSeq(Supplied, 1, 0)) /\ AllWanted(<<>>) /\ Len(<<>>) = 0 /\ <<>> \in Seq(Row)
  BY <1>1, <1>2, <1>3, NothingRead
<1>5. emitted \in [1..2 -> Seq(Row)] /\ emitted[1] = <<>> /\ emitted[2] = <<>>
  <2>1. \A a \in Seq(Row) : <<a, a>> \in [1..2 -> Seq(Row)]
    OBVIOUS
  <2> QED
    BY <1>1, <1>4, <2>1
<1>6. ink \in Ink /\ ink.sheet = opts.before /\ ink.buffer = <<>> /\ ink.lost = FALSE
  BY <1>1, <1>2 DEF Ink
<1>7. OutputTypeOK
  <2>1. ink \in [sheet : Seq(Token), buffer : Seq(Token), waiting : Nat, lost : BOOLEAN]
    BY <1>6 DEF Ink
  <2>2. supply \in Seq(Row) /\ held \in Seq(Row) /\ kept \in Seq(Row)
    BY <1>1, <1>2, <1>4
  <2>3. taken \in Nat /\ cap \in Nat /\ items \in Nat /\ pass \in 1..2
    BY <1>1, <1>2
  <2> HIDE DEF OutputInit
  <2> QED
    BY ONLY <1>1, <1>5, <2>1, <2>2, <2>3 DEF OutputTypeOK
<1>8. SinkInv
  BY <1>1, <1>6 DEF SinkInv, SinkFor
<1>9. PassInv /\ CountInv /\ StopInv
  BY <1>1, <1>2, <1>4, <1>5 DEF PassInv, CountInv, StopInv
<1>10. ReadInv
  BY <1>1, <1>4, <1>5 DEF ReadInv
<1>11. PickInv /\ SheetInv /\ DocumentAsPromised
  BY <1>1, <1>6 DEF PickInv, SheetInv, DocumentAsPromised
<1> QED
  BY <1>7, <1>8, <1>9, <1>10, <1>11 DEF OutputInv

\* Every step keeps the invariant.
LEMMA OutputStepInv ==
    ASSUME OutputInv, [OutputNext]_outputVars
    PROVE  OutputInv'
<1>1. CASE UNCHANGED outputVars
  <2>1. /\ opts' = opts /\ at' = at /\ pass' = pass /\ taken' = taken /\ cap' = cap /\ items' = items
        /\ supply' = supply /\ held' = held /\ ink' = ink /\ fault' = fault /\ failed' = failed
        /\ stopped' = stopped /\ result' = result /\ emitted' = emitted /\ kept' = kept
    BY <1>1 DEF outputVars, progress
  <2>2. Written' = Written
    BY <2>1 DEF Written
  <2>3. /\ Existing' = Existing /\ Body(Written)' = Body(Written) /\ Document(Written)' = Document(Written)
        /\ (OnePac' <=> OnePac) /\ Content' = Content
    BY <2>1, <2>2, SameOptions DEF OnePac, Content
  <2>4. \A p : Chosen(p)' = Chosen(p)
    BY <2>1, SameOptions DEF Chosen
  <2>5. OutputTypeOK' /\ PassInv' /\ CountInv'
    BY <2>1 DEF OutputInv, OutputTypeOK, PassInv, CountInv
  <2>6. SinkInv'
    BY <2>1, SameSink DEF OutputInv, SinkInv
  <2>7. StopInv' /\ ReadInv'
    BY <2>1, SameOptions, SamePass DEF OutputInv, StopInv, ReadInv
  <2>8. PickInv'
    <3>1. Gathered' = Gathered
      BY <2>1, SamePass DEF Gathered
    <3> QED
      BY <2>1, <2>4, <3>1, SameOptions, SamePass DEF OutputInv, PickInv
  <2>9. SheetInv'
    BY <2>1, <2>3 DEF OutputInv, SheetInv
  <2>10. DocumentAsPromised'
    BY <2>1, <2>2, <2>3, <2>4, SameOptions DEF OutputInv, DocumentAsPromised
  <2> QED
    BY <2>5, <2>6, <2>7, <2>8, <2>9, <2>10 DEF OutputInv
<1>2. CASE OutputNext
  BY <1>2, OpensStep, OpenFailsStep, CollectsStep, CollectEndsStep, CollectCutStep, HeadsStep, SkipsStep,
     EmitsStep, GathersStep, RowsEndStep, RowsCutStep, ClosesStep, ClosesPacStep, ClosesChainStep,
     GoesOnStep, NotStartedStep, BreaksStep
     DEF OutputNext
<1> QED
  BY <1>1, <1>2

\* The inductive invariant: at every place of process_result and run_find, what arrived and what
\* waits is the document of the rows handed on so far, and those are the rows that order, limit
\* and filters choose from what was read.
THEOREM OutputInvariant == OutputSpec => []OutputInv
<1>1. OutputInit => OutputInv
  BY OutputInitInv
<1>2. OutputInv /\ [OutputNext]_outputVars => OutputInv'
  BY OutputStepInv
<1> QED
  BY <1>1, <1>2, PTL DEF OutputSpec

\* Every variable of the writer keeps its type.
THEOREM OutputTypes == OutputSpec => []OutputTypeOK
<1>1. OutputInv => OutputTypeOK
  BY DEF OutputInv
<1> QED
  BY <1>1, OutputInvariant, PTL

\* However the rows come, the buffer pours out and the run ends, the file holds one document of
\* the rows that were promised, or after a fault the front of it; a PAC that Ctrl+C ended and a
\* PAC of two passes are excepted.
THEOREM DocumentKept == OutputSpec => []DocumentAsPromised
<1>1. OutputInv => DocumentAsPromised
  BY DEF OutputInv
<1> QED
  BY <1>1, OutputInvariant, PTL
=============================================================================
