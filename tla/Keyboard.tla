------------------------------ MODULE Keyboard ------------------------------
(***************************************************************************)
(* kbd_handler (input.c) event by event: the modifiers it keeps in         *)
(* func_key, the three keymaps, the break-in key, and what Linux's own     *)
(* keyboard driver believes is pressed, since an event goes to the         *)
(* debugger or to Linux.  A session of the debugger is a start and an end. *)
(***************************************************************************)
EXTENDS Integers, FiniteSets

CONSTANTS
  Codes,   \* the key codes of the keyboard
  MaxHeld  \* bound: keys held down at once

ASSUME CodesAssumption == Codes \subseteq 0 .. 767   \* KEY_MAX
ASSUME HeldAssumption  == MaxHeld \in Nat

VARIABLES
  down,          \* the keys that are held down
  func_key,      \* the modifiers kbd_handler believes are held down
  running_state, \* ice.running_state
  linuxDown,     \* the keys Linux believes are held down
  typed,         \* the character the last event put into keyq, "none" without
  blurred,       \* history: modifiers of which two keys have been held at once,
                 \* or one before the module was loaded, until all are released
  atBreak        \* history: linuxDown when the last break-in was requested

kbdVars == <<down, func_key, running_state, linuxDown, typed, blurred, atBreak>>

\* include/input.h
ICE_KEYUP    == 0
ICE_KEYDOWN  == 1
REPEAT       == 2   \* the value of Linux's autorepeat events
ModifierKeys == [CTRL |-> {29, 97}, SHIFT |-> {42, 54}, ALT |-> {56, 100}]
Modifiers    == DOMAIN ModifierKeys
ENTER        == "ENTER"

-----------------------------------------------------------------------------
\* keymap[3][128] as the flat memory that a code of 128 and more runs through;
\* of the characters only those are told apart that anything depends on.  The
\* source fills 112 of the 128 entries of a layer, C the others with NUL.
AltChars == {3, 5, 8, 9, 10, 11, 12, 27}
KeymapByte(i) ==
  LET layer == i \div 128  pos == i % 128 IN
  IF i >= 3 * 128 THEN {"q", "other", "NUL", ENTER}   \* what lies behind it
  ELSE IF pos >= 112 THEN {"NUL"}
  ELSE IF pos = 28 THEN {ENTER}
  ELSE IF layer = 2 /\ pos \notin AltChars THEN {"NUL"}
  ELSE IF i = 16 THEN {"q"}
  ELSE {"other"}
Keymap(layer, code) == KeymapByte(128 * layer + code)

\* Mutant: the release of Shift is not noticed.
FuncKey_KeepsShift(code, value) ==
  LET own == {f \in Modifiers : code \in ModifierKeys[f]} IN
  CASE value = ICE_KEYDOWN -> func_key \cup own
    [] value = ICE_KEYUP   -> func_key \ (own \ {"SHIFT"})
    [] OTHER               -> func_key
\* The first half of kbd_handler.
FuncKey(code, value) ==
  LET own == {f \in Modifiers : code \in ModifierKeys[f]} IN
  CASE value = ICE_KEYDOWN -> func_key \cup own
    [] value = ICE_KEYUP   -> func_key \ own
    [] OTHER               -> func_key

\* Mutant: the value of the event is not tested: releasing Q is a hotkey.
MayBeHotkey_AnyValue(code, value) == "CTRL" \in FuncKey(code, value) /\ "q" \in Keymap(0, code)
MayBeHotkey(code, value) ==
  /\ "CTRL" \in FuncKey(code, value)
  /\ "q" \in Keymap(0, code)
  /\ value = ICE_KEYDOWN
MustBeHotkey(code, value) == MayBeHotkey(code, value) /\ Keymap(0, code) = {"q"}

\* The keymap that the modifiers choose in a session.
Layer(mods) == IF "SHIFT" \in mods THEN 1 ELSE IF "ALT" \in mods THEN 2 ELSE 0

-----------------------------------------------------------------------------
\* fake_kbd_event hands an event to Linux.
ToLinux(code, value) ==
  linuxDown' = CASE value = ICE_KEYDOWN -> linuxDown \cup {code}
                 [] value = ICE_KEYUP   -> linuxDown \ {code}
                 [] OTHER               -> linuxDown

\* Mutant: fake_kbd_event does not test running_state: Linux gets presses, too.
KeyToDebugger_Passes(code, value) ==
  /\ running_state # "NOT_RUNNING"
  /\ typed' = "none"
  /\ IF value = ICE_KEYDOWN THEN ToLinux(code, value) ELSE UNCHANGED linuxDown
  /\ UNCHANGED <<running_state, atBreak>>

\* kbd_handler while the debugger is not engaged: the hotkey, or Linux's event.
KeyToLinux(code, value) ==
  /\ running_state = "NOT_RUNNING"
  /\ \/ /\ MayBeHotkey(code, value)
        /\ running_state' = "ENTERING" /\ atBreak' = linuxDown
        /\ UNCHANGED linuxDown
     \/ /\ ~MustBeHotkey(code, value)
        /\ ToLinux(code, value)
        /\ UNCHANGED <<running_state, atBreak>>
  /\ typed' = "none"

\* kbd_handler while it is engaged: the event ends here.
KeyToDebugger(code, value) ==
  /\ running_state # "NOT_RUNNING"
  /\ IF value # ICE_KEYUP
     THEN typed' \in Keymap(Layer(FuncKey(code, value)), code % 256)
     ELSE typed' = "none"
  /\ UNCHANGED <<running_state, linuxDown, atBreak>>

\* A key goes down, repeats or goes up.
Event(code, value) ==
  /\ CASE value = ICE_KEYDOWN -> code \notin down /\ Cardinality(down) < MaxHeld
       [] OTHER               -> code \in down
  /\ down' = CASE value = ICE_KEYDOWN -> down \cup {code}
               [] value = ICE_KEYUP   -> down \ {code}
               [] OTHER               -> down
  /\ func_key' = FuncKey(code, value)
  /\ blurred' = {f \in Modifiers : \/ ModifierKeys[f] \subseteq down'
                                   \/ f \in blurred /\ ModifierKeys[f] \cap down' # {}}
  /\ KeyToLinux(code, value) \/ KeyToDebugger(code, value)

Idle == UNCHANGED <<down, func_key, linuxDown, blurred, atBreak>> /\ typed' = "none"
SessionStart == running_state = "ENTERING" /\ running_state' = "RUNNING" /\ Idle
SessionEnd   == running_state = "RUNNING" /\ running_state' = "NOT_RUNNING" /\ Idle

\* The module is loaded, perhaps with keys held that only Linux has heard of.
KbdInit ==
  /\ down \in SUBSET Codes /\ Cardinality(down) <= MaxHeld
  /\ func_key = {} /\ linuxDown = down /\ atBreak = {}
  /\ blurred = {f \in Modifiers : ModifierKeys[f] \cap down # {}}
  /\ running_state = "NOT_RUNNING" /\ typed = "none"

KbdNext ==
  \/ \E code \in Codes, value \in {ICE_KEYUP, ICE_KEYDOWN, REPEAT} : Event(code, value)
  \/ SessionStart \/ SessionEnd

KbdSpec == KbdInit /\ [][KbdNext]_kbdVars
-----------------------------------------------------------------------------
\* The variables hold what their C types and the code allow.
KbdTypeOK ==
  /\ down \subseteq Codes /\ linuxDown \subseteq Codes /\ atBreak \subseteq Codes
  /\ func_key \subseteq Modifiers /\ blurred \subseteq Modifiers
  /\ running_state \in {"NOT_RUNNING", "ENTERING", "RUNNING"}
  /\ typed \in {"none", "q", "other", "NUL", ENTER}

\* kbd_handler takes a modifier for held only while one of its keys is, and
\* overlooks one only if both its keys have been held at once, for it keeps one
\* bit for two keys, which the first release clears, or if the press came before
\* the module did; and only until all its keys are up.
ModifiersAgree ==
  /\ KbdTypeOK
  /\ \A f \in Modifiers :
    LET held == ModifierKeys[f] \cap down # {} IN
    /\ f \in func_key => held
    /\ held /\ f \notin blurred => f \in func_key

\* A key that Linux takes for pressed though it is not was pressed when a
\* break-in was requested, and its release went to the debugger.  (Ctrl is one.)
StuckOnlyByBreak == linuxDown \ down \subseteq atBreak

\* kbd_handler reads the keymaps with codes that do not fit them, unmasked for
\* the hotkey and with eight bits for a session's characters.  All the same only
\* Q pressed with Ctrl held breaks in, but for codes of 384 and more, which read
\* behind all keymaps.  The NULs that cut the command line short (module
\* CommandLine) are typed with Alt held, with a key for whose code a layer has
\* no entry (the last 16 of each), or with Shift held and a low byte of 128 and
\* more, which runs from the second layer into Alt's.
KeymapOverrun ==
  [][/\ running_state = "NOT_RUNNING" /\ running_state' # "NOT_RUNNING" =>
          \E k \in down' \ down : (k = 16 \/ k >= 384) /\ down \cap {29, 97} # {}
     /\ typed' = "NUL" =>
          \/ down' \cap {56, 100} # {}
          \/ \E k \in down' : k % 128 >= 112
          \/ down' \cap {42, 54} # {} /\ \E k \in down' : k % 256 >= 128]_kbdVars
=============================================================================
