----------------------------- MODULE KeyDecode -----------------------------
(***************************************************************************)
(* What keyboard.cpp makes of scan codes: the codes of pressed and released*)
(* keys, and the keyboard's own answers to LED commands, wait in           *)
(* keycode_buffer; the daemon follows the modifiers and passes keys on; a  *)
(* reader turns a key into a character with the modifiers of that moment.  *)
(* Who runs when, and how the threads wait, is in Keyboard.                *)
(***************************************************************************)
EXTENDS Integers, Sequences, FiniteSets, TLC

CONSTANTS
  Codes,       (* make codes of the keys somebody presses                  *)
  CodePlaces,  (* codes keycode_buffer holds                               *)
  MaxMoves     (* bound: how often keys go down or up                      *)

ASSUME KeyDecodeAssumption == Codes \subseteq 1..127 /\ CodePlaces \in Nat \ {0} /\ MaxMoves \in Nat

Modifier == {"shift", "ctrl", "alt"}
Answer == 250              \* KYBRD_ERR_ACK, 0xFA
TableSize == 83            \* entries of _kybrd_scancode_std

VARIABLES
  down,            (* the keys that are down, by make code                  *)
  capitals,        (* whether the user has switched capitals on             *)
  keycodes,        (* keycode_buffer                                        *)
  answers,         (* bytes the keyboard has still to answer with           *)
  flags,           (* _shift, _ctrl, _alt, _capslock, _numlock, _scrolllock *)
  passed,          (* the key passed to the reader last, and what was meant *)
  moves,           (* how often keys have gone down or up                   *)
  stray            (* history: what keeps the flags from following the keys *)

typistVars == <<down, capitals, moves>>
decodeVars == <<typistVars, keycodes, answers, flags, passed, stray>>

-----------------------------------------------------------------------------
(* Keys: KEYCODE and _kybrd_scancode_std *)

Key == {"LSHIFT", "RSHIFT", "LCTRL", "RCTRL", "LALT", "RALT",
        "CAPSLOCK", "KP_NUMLOCK", "SCROLLLOCK", "letter", "digit", "sign", "other"}

Letters == (16..25) \cup (30..38) \cup (44..50)
Digits == (2..11) \cup {72, 74, 75, 76}                   \* the keypad's included
Signs == {12, 26, 27, 39, 40, 41, 43, 51, 52, 53, 77}     \* those shift changes

_kybrd_scancode_std(c) ==
  CASE c = 29 -> "LCTRL"     [] c = 42 -> "LSHIFT"     [] c = 54 -> "RSHIFT"
    [] c = 56 -> "RALT"      [] c = 58 -> "CAPSLOCK"   [] c = 69 -> "KP_NUMLOCK"
    [] c = 70 -> "SCROLLLOCK"
    [] c \in Letters -> "letter" [] c \in Digits -> "digit" [] c \in Signs -> "sign"
    [] OTHER -> "other"

\* What reading the table gives: beyond its end, whatever lies there.
KeysAt(c) == IF c < TableSize THEN {_kybrd_scancode_std(c)} ELSE Key

ModifierOf(key) ==
  CASE key \in {"LSHIFT", "RSHIFT"} -> {"shift"}
    [] key \in {"LCTRL", "RCTRL"} -> {"ctrl"}
    [] key \in {"LALT", "RALT"} -> {"alt"}
    [] OTHER -> {}

LockOf(key) ==
  CASE key = "CAPSLOCK" -> {"caps"} [] key = "KP_NUMLOCK" -> {"num"}
    [] key = "SCROLLLOCK" -> {"scroll"} [] OTHER -> {}

\* Flags as they are after some of them have been turned over.
Toggled(f, locks) == (f \ locks) \cup (locks \ f)

-----------------------------------------------------------------------------
(* The keyboard, and keyboard_callback *)

\* A code is queued, with what the user means by it, or dropped.
Enqueue(byte, meant, pair) ==
  /\ keycodes' = IF Len(keycodes) < CodePlaces
                   THEN Append(keycodes, [byte |-> byte, meant |-> meant]) ELSE keycodes
  /\ stray' = stray \cup pair \cup (IF Len(keycodes) < CodePlaces THEN {} ELSE {"dropped"})

\* What the user means by a key: what it would be with the keys that are down.
ModifiersHeld == UNION {ModifierOf(_kybrd_scancode_std(c)) : c \in down}
Meant(key) ==
  IF \/ key = "letter" /\ ("shift" \in ModifiersHeld) # capitals
     \/ key \in {"digit", "sign"} /\ "shift" \in ModifiersHeld
    THEN "upper" ELSE "lower"

Press(c) ==
  /\ c \notin down /\ moves < MaxMoves
  /\ down' = down \cup {c}
  /\ capitals' = (capitals # (c = 58))
  /\ moves' = moves + 1
  /\ Enqueue(c, Meant(_kybrd_scancode_std(c)),
            IF ModifierOf(_kybrd_scancode_std(c)) \cap ModifiersHeld = {} THEN {} ELSE {"pair"})
  /\ UNCHANGED <<answers, flags, passed>>

Release(c) ==
  /\ c \in down /\ moves < MaxMoves
  /\ down' = down \ {c}
  /\ moves' = moves + 1
  /\ Enqueue(c + 128, "lower", {})
  /\ UNCHANGED <<capitals, answers, flags, passed>>

\* The keyboard acknowledges a byte it was sent, with an interrupt.
Acknowledge ==
  /\ answers > 0
  /\ answers' = answers - 1
  /\ Enqueue(Answer, "lower", {})
  /\ UNCHANGED <<typistVars, flags, passed>>

-----------------------------------------------------------------------------
(* keyboard_irq *)

Oldest == Head(keycodes)

\* A code the table has no entry for.  A key that comes up only clears modifiers:
\* while none is set it does no harm.
Strays(byte) ==
  stray
    \cup (IF byte < 128 /\ byte >= TableSize THEN {"make"} ELSE {})
    \cup (IF byte >= 128 + TableSize /\ flags \cap Modifier # {} THEN {"break"} ELSE {})

\* What kybrd_set_leds sends, each byte when the controller can take it.
kybrd_set_leds == <<"SET_LED", "leds">>

\* A key comes up.  Error codes have bit 7 set and are taken for released keys:
\* the switch that looks for them compares what is left without it.
DealRelease ==
  /\ keycodes # <<>> /\ Oldest.byte >= 128
  /\ keycodes' = Tail(keycodes)
  /\ \E key \in KeysAt(Oldest.byte - 128) : flags' = flags \ ModifierOf(key)
  /\ stray' = Strays(Oldest.byte)
  /\ passed' = IF flags' = flags THEN passed ELSE <<>>
  /\ UNCHANGED <<typistVars, answers>>

\* Faulty form of DealPress: a lock is switched on and never off.
DealPressSticky ==
  /\ keycodes # <<>> /\ Oldest.byte < 128
  /\ keycodes' = Tail(keycodes)
  /\ \E key \in KeysAt(Oldest.byte) :
       /\ flags' = flags \cup ModifierOf(key) \cup LockOf(key)
       /\ answers' = IF LockOf(key) = {} THEN answers ELSE answers + Len(kybrd_set_leds)
       /\ passed' = <<[key |-> key, meant |-> Oldest.meant]>>
  /\ stray' = Strays(Oldest.byte)
  /\ UNCHANGED typistVars

\* A key goes down: modifiers are set, locks turned over and shown, and the key
\* passed on to the reader, as the last one.
DealPress ==
  /\ keycodes # <<>> /\ Oldest.byte < 128
  /\ keycodes' = Tail(keycodes)
  /\ \E key \in KeysAt(Oldest.byte) :
       /\ flags' = Toggled(flags \cup ModifierOf(key), LockOf(key))
       /\ answers' = IF LockOf(key) = {} THEN answers ELSE answers + Len(kybrd_set_leds)
       /\ passed' = <<[key |-> key, meant |-> Oldest.meant]>>
  /\ stray' = Strays(Oldest.byte)
  /\ UNCHANGED typistVars

-----------------------------------------------------------------------------
(* The readers *)

\* Faulty form of kybrd_key_to_ascii: with both shift and capitals, upper case.
AsciiEither(key) ==
  IF key = "letter"
    THEN IF {"shift", "caps"} \cap flags # {} THEN "upper" ELSE "lower"
    ELSE IF key \in {"digit", "sign"} /\ "shift" \in flags THEN "upper" ELSE "lower"

\* A letter is upper case with either of shift and capitals but not both; shift
\* alone decides about digits and signs.
kybrd_key_to_ascii(key) ==
  IF key = "letter"
    THEN IF ("shift" \in flags) # ("caps" \in flags) THEN "upper" ELSE "lower"
    ELSE IF key \in {"digit", "sign"} /\ "shift" \in flags THEN "upper" ELSE "lower"

\* keyboard_fancy_function draws the key it has read.
DrawKey ==
  /\ passed # <<>>
  /\ passed' = <<>>
  /\ UNCHANGED <<typistVars, keycodes, answers, flags, stray>>

-----------------------------------------------------------------------------
\* init_keyboard, which ends by switching the LEDs off.
DecodeInit ==
  /\ down = {} /\ capitals = FALSE /\ moves = 0
  /\ keycodes = <<>> /\ answers = Len(kybrd_set_leds)
  /\ flags = {} /\ passed = <<>> /\ stray = {}

DecodeNext ==
  \/ DealPress \/ DealRelease \/ Acknowledge \/ DrawKey
  \/ \E c \in Codes : Press(c) \/ Release(c)

DecodeSpec == DecodeInit /\ [][DecodeNext]_decodeVars

-----------------------------------------------------------------------------
(* Properties *)

\* The modifiers lie about no key once the daemon has caught up: a modifier is
\* set when a key for it is down and clear when none is, and capitals are as the
\* user switched them, unless codes were dropped or read from beyond the table
\* (the answers to LED commands are, which clear some modifier that is set) or two keys for one modifier are in play.
ModifiersFollowKeys ==
  keycodes = <<>> =>
    /\ stray = {} => flags \cap Modifier = ModifiersHeld
    /\ stray \cap {"dropped", "make"} = {} => (("caps" \in flags) <=> capitals)

\* A key that is read before the daemon deals with another change of modifiers
\* becomes the character that was meant when it was pressed, however many codes
\* were queued then ("only when either of shift or caps is pressed (but not
\* simultaneously) do uppercase").
WritesWhatWasMeant ==
  stray = {} /\ passed # <<>> => kybrd_key_to_ascii(passed[1].key) = passed[1].meant
=============================================================================
