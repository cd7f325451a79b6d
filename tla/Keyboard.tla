------------------------------- MODULE Keyboard -------------------------------
(***************************************************************************)
(* From the keyboard's bytes to characters: kbd_event of the atkbd module, *)
(* which decodes scan codes in the keyboard interrupt, and kbd_listen of   *)
(* the vtty module, which keeps the map of keys that are down and turns    *)
(* presses into characters.                                                *)
(*                                                                         *)
(* A key sends its scan code when it goes down (and again while it is      *)
(* held) and F0 and its scan code when it goes up; keys of the second map  *)
(* send E0 before either.  Events arrive in the order of the bytes, as     *)
(* Event shows; the keyboard itself is external.                           *)
(***************************************************************************)
EXTENDS Integers, SequencesExt

CONSTANTS MaxBytes   \* bound: bytes sent

KeyboardAssumption == MaxBytes \in Nat

(* One key for each way they are treated. *)
Keys == {"KEY_A", "KEY_LEFTSHIFT", "KEY_CAPSLOCK", "KEY_RIGHTCTRL", "KEY_PRINTSCREEN"}
Toggles == {"KEY_CAPSLOCK"}

(* The keys of the keyboard: also one that has no virtual key. *)
Sleep == "Sleep"
RealKeys == Keys \cup {Sleep}
Extended == {"KEY_RIGHTCTRL", "KEY_PRINTSCREEN", Sleep}

(* scancode_map: the two maps, in which what is not listed is 0.  The codes *)
(* of the keyboard are those of the maps.                                   *)
KEY_UNKNOWN == "KEY_UNKNOWN"
single_scancode_map ==
  [sc14 |-> "KEY_LEFTCTRL", sc1C |-> "KEY_A", sc12 |-> "KEY_LEFTSHIFT",
   sc58 |-> "KEY_CAPSLOCK", sc7C |-> "KEY_KASTERISK", sc3F |-> KEY_UNKNOWN]
multi_scancode_map ==
  [sc14 |-> "KEY_RIGHTCTRL", sc1C |-> KEY_UNKNOWN, sc12 |-> KEY_UNKNOWN,
   sc58 |-> KEY_UNKNOWN, sc7C |-> "KEY_PRINTSCREEN", sc3F |-> KEY_UNKNOWN]
scancode_map(multi, sc) ==
  IF multi THEN multi_scancode_map[sc] ELSE single_scancode_map[sc]

VARIABLES
  atkbd_state, atkbd_multibyte,   \* of kbd_event
  keymap,                         \* of kbd_listen
  wire,                           \* bytes of a code still to be sent
  held,                           \* the keys that are really down
  toggled,                        \* the toggles that should be on
  sent,                           \* history: bytes sent
  seen,                           \* history: keys pressed after the first code
  capsLost,                       \* history: was Caps Lock the first code?
  wrong                           \* history: was a wrong character typed?

vars == <<atkbd_state, atkbd_multibyte, keymap, wire, held, toggled, sent, seen,
          capsLost, wrong>>

Init ==
  /\ atkbd_state = "KEY_RELEASED" /\ atkbd_multibyte = FALSE
  /\ keymap = [k \in Keys |-> FALSE]
  /\ wire = <<>> /\ held = {} /\ toggled = {} /\ sent = 0 /\ seen = {}
  /\ capsLost = FALSE /\ wrong = FALSE

-----------------------------------------------------------------------------
(* vkey_convert: which of the tables the character comes from. *)
vkey_convert(map) ==
  IF map["KEY_LEFTSHIFT"] THEN "vkey_shift"
  ELSE IF map["KEY_CAPSLOCK"] THEN "vkey_caps"
  ELSE IF map["KEY_RIGHTCTRL"] THEN "vkey_ctrl"
  ELSE "vkey_std"

(* kbd_listen: the key map after an event. *)
kbd_listen(key, pressed) ==
  IF key \notin Keys THEN keymap
  ELSE IF key \in Toggles
  THEN [keymap EXCEPT ![key] = IF pressed THEN ~ @ ELSE @]
  ELSE [keymap EXCEPT ![key] = pressed]

(* The table the character should come from. *)
RightTable ==
  vkey_convert([k \in Keys |-> IF k \in Toggles THEN k \in toggled ELSE k \in held])

(* The event of a byte that completes a code, handled. *)
Deliver(key, pressed) ==
  /\ keymap' = kbd_listen(key, pressed)
  /\ wrong' = (wrong \/ (key = "KEY_A" /\ pressed /\ vkey_convert(keymap) # RightTable))

(* Variant: the prefix is not forgotten. *)
ForgetOnlyRelease ==
  atkbd_state' = "KEY_PRESSED" /\ UNCHANGED atkbd_multibyte

(* After a complete code. *)
Forget == atkbd_state' = "KEY_PRESSED" /\ atkbd_multibyte' = FALSE

(* kbd_event on the next byte.  Print Screen sends two codes, of which the  *)
(* first is dropped, and is always taken for released.                      *)
kbd_event ==
  /\ wire # <<>>
  /\ LET sc  == Head(wire)
         key == scancode_map(atkbd_multibyte, sc) IN
     CASE sc = "E0" -> atkbd_multibyte' = TRUE
                       /\ UNCHANGED <<atkbd_state, keymap, wrong>>
       [] sc = "F0" -> atkbd_state' = "KEY_RELEASED"
                       /\ UNCHANGED <<atkbd_multibyte, keymap, wrong>>
       [] sc = "sc12" /\ atkbd_multibyte -> Forget /\ UNCHANGED <<keymap, wrong>>
       [] OTHER -> /\ Deliver(key, atkbd_state = "KEY_PRESSED" /\ key # "KEY_PRINTSCREEN")
                   /\ Forget
  /\ wire' = Tail(wire)
  /\ UNCHANGED <<held, toggled, sent, seen, capsLost>>

-----------------------------------------------------------------------------
(* The keyboard: a key goes down, repeats or goes up. *)
Prefix(k, up) ==
  (IF k \in Extended THEN <<"E0">> ELSE <<>>) \o (IF up THEN <<"F0">> ELSE <<>>)
Bytes(k, up) ==
  CASE k = "KEY_A"           -> Prefix(k, up) \o <<"sc1C">>
    [] k = "KEY_LEFTSHIFT"   -> Prefix(k, up) \o <<"sc12">>
    [] k = "KEY_CAPSLOCK"    -> Prefix(k, up) \o <<"sc58">>
    [] k = "KEY_RIGHTCTRL"   -> Prefix(k, up) \o <<"sc14">>
    [] k = Sleep             -> Prefix(k, up) \o <<"sc3F">>
    [] k = "KEY_PRINTSCREEN" ->
         Prefix(k, up) \o <<"sc12">> \o Prefix(k, up) \o <<"sc7C">>

KeyDown(k) ==
  /\ wire = <<>> /\ sent + Len(Bytes(k, FALSE)) <= MaxBytes
  /\ k \in Toggles => k \notin held
  /\ wire' = Bytes(k, FALSE) /\ sent' = sent + Len(Bytes(k, FALSE))
  /\ held' = held \cup {k}
  /\ toggled' = IF k \notin Toggles THEN toggled
                ELSE IF k \in toggled THEN toggled \ {k} ELSE toggled \cup {k}
  /\ capsLost' = (capsLost \/ (sent = 0 /\ k \in Toggles))
  /\ seen' = IF sent = 0 THEN seen ELSE seen \cup {k}
  /\ UNCHANGED <<atkbd_state, atkbd_multibyte, keymap, wrong>>

KeyUp(k) ==
  /\ wire = <<>> /\ k \in held /\ sent + Len(Bytes(k, TRUE)) <= MaxBytes
  /\ wire' = Bytes(k, TRUE) /\ sent' = sent + Len(Bytes(k, TRUE))
  /\ held' = held \ {k}
  /\ UNCHANGED <<atkbd_state, atkbd_multibyte, keymap, toggled, seen, capsLost, wrong>>

Next == kbd_event \/ \E k \in RealKeys : KeyDown(k) \/ KeyUp(k)

Spec == Init /\ [][Next]_vars

-----------------------------------------------------------------------------
TypeOK ==
  /\ atkbd_state \in {"KEY_PRESSED", "KEY_RELEASED"} /\ atkbd_multibyte \in BOOLEAN
  /\ keymap \in [Keys -> BOOLEAN] /\ held \subseteq RealKeys /\ toggled \subseteq Toggles
  /\ Len(wire) <= 6

(* No key is stuck: between two codes, a key the map has as down is down.   *)
NoStuckKey ==
  wire = <<>> => \A k \in Keys \ Toggles : keymap[k] => k \in held

(* The map is right for every key pressed after the first code.  The very   *)
(* first code is taken for a release, because atkbd_state starts as 0,      *)
(* which is KEY_RELEASED.                                                   *)
MapIsRight ==
  wire = <<>> =>
    \A k \in (seen \cap Keys) \ (Toggles \cup {"KEY_PRINTSCREEN"}) :
      keymap[k] = (k \in held)

(* A press takes its character from the table of the modifiers that are     *)
(* down, unless one of them was the first code of all.                      *)
TypesRight ==
  [][held \subseteq seen /\ ~ capsLost => wrong' = wrong]_vars
=============================================================================
