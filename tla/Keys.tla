-------------------------------- MODULE Keys --------------------------------
(***************************************************************************)
(* The key map of the interactive screen (src/cli/tui/event.rs): which key   *)
(* means what, given what is open.  A key is a string, its character or its  *)
(* name.  A context is                                                       *)
(*   [screen, purpose, help, confirm, pending, count]                        *)
(* where purpose, of the open prompt, and count, the number typed so far,    *)
(* are sets of at most one element; so is every result.                      *)
(***************************************************************************)
EXTENDS Integers, Sequences, FiniteSets

Named == {"up", "down", "pgup", "pgdn", "enter", "esc", "backspace", "ctrl c", "ctrl other"}
Digits == {"0", "1", "2", "3", "4", "5", "6", "7", "8", "9"}
MaxHints == 5

\* Scope::applies: the help panel, a question, a prompt, or the screen below them.
Applies(scope, context) ==
    IF context.help THEN scope = "help"
    ELSE IF context.confirm THEN scope = "confirm"
    ELSE IF context.purpose # {} THEN scope = "input"
    ELSE scope \in {"screen", context.screen}

Binding(keys, action, scope, hint) == [keys |-> keys, action |-> action, scope |-> scope, hint |-> hint]
Keymap ==
    <<Binding({"?"}, "ToggleHelp", "screen", FALSE), Binding({"esc"}, "Back", "screen", FALSE),
      Binding({"up", "k"}, "ScrollUp", "screen", FALSE),
      Binding({"down", "j"}, "ScrollDown", "screen", FALSE),
      Binding({"pgup"}, "PageUp", "screen", FALSE), Binding({"pgdn"}, "PageDown", "screen", FALSE),
      Binding({"g"}, "PrefixG", "screen", FALSE), Binding({"G"}, "GotoBottom", "screen", FALSE),
      Binding(Digits, "Count", "screen", FALSE),
      Binding({"p"}, "PauseToggle", "running", TRUE), Binding({"c"}, "CancelRun", "running", TRUE),
      Binding({"s"}, "SortCycle", "screen", TRUE), Binding({"/"}, "EditFilter", "screen", TRUE),
      Binding({"e"}, "Export", "screen", TRUE), Binding({"d"}, "ToggleDetail", "screen", TRUE),
      Binding({"enter"}, "DrillIn", "screen", FALSE), Binding({"S"}, "OrderToggle", "screen", FALSE),
      Binding({"x"}, "ClearFilter", "screen", FALSE), Binding({"r"}, "Rerun", "done", TRUE),
      Binding({"enter"}, "Submit", "input", FALSE), Binding({"up"}, "ScrollUp", "input", FALSE),
      Binding({"down"}, "ScrollDown", "input", FALSE), Binding({"esc"}, "Cancel", "input", TRUE),
      Binding({"backspace"}, "Backspace", "input", FALSE), Binding({"printable"}, "Text", "input", FALSE),
      Binding({"y", "Y"}, "ConfirmYes", "confirm", TRUE), Binding({"n", "N"}, "ConfirmNo", "confirm", TRUE),
      Binding({"esc", "?"}, "ToggleHelp", "help", TRUE),
      Binding({"down", "j", "pgdn"}, "ScrollDown", "help", TRUE),
      Binding({"up", "k", "pgup"}, "ScrollUp", "help", FALSE)>>

\* resolve_key: an event is [press, ctrl, alt, code].  With Ctrl only characters count, their case
\* does not; with Alt nothing does.
Resolve(event) ==
    {key \in {event.code} : event.press /\ ~event.ctrl /\ ~event.alt}
    \cup {IF code \in {"c", "C"} THEN "ctrl c" ELSE "ctrl other" :
             code \in {code \in {event.code} \ Named : event.press /\ event.ctrl}}

\* binding_for: the first row of an active scope that has the key.
Claims(binding, key) == key \in binding.keys \/ ("printable" \in binding.keys /\ key \notin Named)
BindingFor(key, context) ==
    LET claiming == {i \in DOMAIN Keymap : Applies(Keymap[i].scope, context) /\ Claims(Keymap[i], key)}
    IN  {i \in claiming : \A n \in claiming : i <= n}
Bound(key, context) == {Keymap[i].action : i \in BindingFor(key, context)}

\* action_for: what the table says comes last.  The character and the digit of Text and Count are
\* the key's.
ActionFor(key, context) ==
    IF key = "ctrl c" THEN {"Interrupt"}
    ELSE IF context.confirm THEN {IF key \in {"y", "Y"} THEN "ConfirmYes" ELSE "ConfirmNo"}
    ELSE IF context.help
         THEN IF Bound(key, context) = {} THEN {"ToggleHelp"} ELSE Bound(key, context)
    ELSE IF context.count # {} /\ key = "G" THEN {"GotoCount"}
    ELSE IF context.pending /\ key = "g"
         THEN {IF context.count # {} THEN "GotoCount" ELSE "GotoTop"}
    ELSE Bound(key, context)

\* hints: the rows of the footer; a number being typed takes its place.
Hints(context) ==
    LET advertised == {i \in DOMAIN Keymap : Keymap[i].hint /\ Applies(Keymap[i].scope, context)}
    IN  {i \in advertised : context.count = {} /\ Cardinality({n \in advertised : n < i}) < MaxHints}

\* bindings_on: what the help panel says of a surface.
BindingsOn(scope) == {i \in DOMAIN Keymap : Keymap[i].scope = scope}
=============================================================================
