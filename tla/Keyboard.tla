------------------------------ MODULE Keyboard ------------------------------
(***************************************************************************)
(* The PS/2 keyboard driver, kernel/drivers/char/ps2_keyboard.c: the       *)
(* interrupt handler decodes scan code set 1 byte by byte and puts         *)
(* characters in a ring; a reader takes them out with interrupts on, so an *)
(* interrupt may fall between its load and its store.  A typist, with the  *)
(* keyboard's own byte stream, is the environment.                         *)
(***************************************************************************)
EXTENDS Ring, FiniteSets

CONSTANTS Key,               \* the keys typed, a subset of DOMAIN Code
          KBD_BUFFER_SIZE,
          MaxHeld,           \* bound: keys held down at once
          NoChar             \* '\0', and a reader that has loaded nothing

Shift == {"LSHIFT", "RSHIFT"}
Ctrl == {"LCTRL", "RCTRL"}
Alt == {"LALT", "RALT"}
Extended == {"RCTRL", "RALT", "KPSLASH"}
Letter == {"A"}
Printing == {"A", "SLASH"}

(* Set 1; the keypad's slash shares the code of the slash, the right Ctrl  *)
(* and Alt those of the left ones.                                         *)
Code == [LSHIFT |-> 42, RSHIFT |-> 54, LCTRL |-> 29, RCTRL |-> 29, LALT |-> 56, RALT |-> 56,
         CAPS |-> 58, A |-> 30, SLASH |-> 53, KPSLASH |-> 53]

(* The forms that the modifiers give a character, and what a key does. *)
FormName == {"control", "shifted", "plain"}
Way == {"down", "up"}

ASSUME KeyboardAssumption ==
    /\ Key \subseteq DOMAIN Code /\ KBD_BUFFER_SIZE \in Nat \ {0}
    /\ NoChar \notin Printing
    /\ \A k \in Printing, f \in FormName : <<k, f>> # NoChar
    /\ \A k \in Key, way \in Way : <<k, way>> # NoChar

ACK == 250                   \* PS2_KBD_ACK
RESEND == 254                \* PS2_KBD_RESEND
Answer == {ACK, RESEND, 252} \* and an error

VARIABLES
    g_kbd_buffer, g_kbd_head, g_kbd_tail,
    kbd,             \* the modifier flags and the prefix flag
    loaded,          \* what kbd_buffer_pop has read and not yet taken
    setup,           \* ps2_keyboard_init: byte being sent, retries, waits
    owed,            \* answers the keyboard has yet to give
    wire,            \* bytes of the keyboard not yet taken
    event,           \* the key event whose bytes are on the wire
    held, caps,      \* the typist: keys down, state of Caps Lock
    lapse,           \* one Ctrl key was lifted, and the other is still down
    typed            \* the characters typed and kept, not yet read

ringVars == <<g_kbd_buffer, g_kbd_head>>
typistVars == <<event, held, caps, lapse, typed>>
kbdVars == <<ringVars, g_kbd_tail, kbd, loaded, setup, owed, wire, typistVars>>

ps2_keyboard_init ==
    /\ g_kbd_buffer = [i \in 0..(KBD_BUFFER_SIZE - 1) |-> NoChar]
    /\ g_kbd_head = 0 /\ g_kbd_tail = 0
    /\ kbd = [left_shift |-> FALSE, right_shift |-> FALSE, shift |-> FALSE, ctrl |-> FALSE,
              alt |-> FALSE, caps_lock |-> FALSE, extended_prefix |-> FALSE]
    /\ loaded = NoChar
    /\ setup = [byte |-> 1, pc |-> "write", retries |-> 0, attempts |-> 0]
    /\ owed = 0 /\ wire = <<>>
    /\ event = NoChar /\ held = {} /\ caps = FALSE /\ lapse = FALSE /\ typed = <<>>

-----------------------------------------------------------------------------
(* The bytes F5, F0, 01, F4, each to be acknowledged: three tries for a    *)
(* command, one for its argument.  ps2_keyboard_init goes on whether or    *)
(* not it succeeds, and interrupts are off until it returns.               *)
LastByte == 4
Tries(byte) == IF byte = 3 THEN 1 ELSE 3
MaxAttempts == 4

setupDone == [byte |-> 0, pc |-> "ready", retries |-> 0, attempts |-> 0]
Ready == setup = setupDone

(* ps2_write_data: the controller may not become ready to take the byte. *)
WriteData ==
    /\ setup.pc = "write"
    /\ \/ setup' = setupDone /\ UNCHANGED owed
       \/ setup' = [setup EXCEPT !.pc = "await", !.attempts = 0] /\ owed' = owed + 1
    /\ UNCHANGED <<ringVars, g_kbd_tail, kbd, loaded, wire, typistVars>>

acknowledged ==
    IF setup.byte = LastByte THEN setupDone
    ELSE [byte |-> setup.byte + 1, pc |-> "write", retries |-> 0, attempts |-> 0]
refused ==
    IF setup.retries + 1 = Tries(setup.byte) THEN setupDone
    ELSE [setup EXCEPT !.pc = "write", !.retries = @ + 1]

(* One turn of ps2_expect_ack: no answer in time, or the next one. *)
ps2_expect_ack ==
    /\ setup.pc = "await"
    /\ \/ wire = <<>> /\ setup' = refused /\ UNCHANGED wire
       \/ /\ wire # <<>> /\ wire' = Tail(wire)
          /\ setup' = CASE Head(wire) = ACK -> acknowledged
                       [] Head(wire) = RESEND /\ setup.attempts + 1 < MaxAttempts
                            -> [setup EXCEPT !.attempts = @ + 1]
                       [] OTHER -> refused
    /\ UNCHANGED <<ringVars, g_kbd_tail, kbd, loaded, owed, typistVars>>

(* The keyboard answers a byte, perhaps after the driver has given up. *)
KeyboardAnswers ==
    /\ owed > 0 /\ owed' = owed - 1
    /\ \E a \in Answer : wire' = Append(wire, a)
    /\ UNCHANGED <<ringVars, g_kbd_tail, kbd, loaded, setup, typistVars>>

-----------------------------------------------------------------------------

(* The character a code has in the tables, here named after its key. *)
plain(code) == LET K == {k \in DOMAIN Code \ Extended : Code[k] = code}
               IN  IF K \subseteq Printing /\ K # {} THEN CHOOSE k \in K : TRUE
                   ELSE NoChar
kbd_is_alpha(k) == k \in Letter

(* Mutant: one flag for both shift keys. *)
shift_from_last(k, left, right, released) == ~released

(* One of two shift keys may be released while the other is down. *)
shift_after(k, left, right, released) == left \/ right

kbd_update_modifiers(k, code, released, extended) ==
    LET left == IF code = Code.LSHIFT THEN ~released ELSE k.left_shift
        right == IF code = Code.RSHIFT THEN ~released ELSE k.right_shift
        shifts == {Code[s] : s \in Shift}
    IN  [k EXCEPT
           !.ctrl = IF code = Code.LCTRL THEN ~released ELSE @,
           !.alt = IF code = Code.LALT THEN ~released ELSE @,
           !.left_shift = IF extended THEN @ ELSE left,
           !.right_shift = IF extended THEN @ ELSE right,
           !.shift = IF extended \/ code \notin shifts THEN @
                     ELSE shift_after(k, left, right, released),
           !.caps_lock = IF code = Code.CAPS /\ ~extended /\ ~released THEN ~@ ELSE @]

(* A character is its key and the form the modifiers give it. *)
Form(letter, shift, lock, ctrl) ==
    IF letter /\ ctrl THEN "control"
    ELSE IF (IF letter THEN lock # shift ELSE shift) THEN "shifted" ELSE "plain"

kbd_translate_make_scancode(k, code) ==
    LET p == plain(code)
    IN  IF p = NoChar THEN NoChar
        ELSE <<p, Form(kbd_is_alpha(p), k.shift, k.caps_lock, k.ctrl)>>

Advance(i) == (i + 1) % KBD_BUFFER_SIZE

buffer_full(head, tail) == Advance(head) = tail

kbd_buffer_push(ch) ==
    IF ch = NoChar \/ buffer_full(g_kbd_head, g_kbd_tail)
    THEN UNCHANGED <<g_kbd_buffer, g_kbd_head>>
    ELSE /\ g_kbd_buffer' = [g_kbd_buffer EXCEPT ![g_kbd_head] = ch]
         /\ g_kbd_head' = Advance(g_kbd_head)

(* ps2_keyboard_on_irq, kbd_handle_scancode.  An interrupt without data,   *)
(* or with a byte of the mouse, changes nothing.                           *)
on_irq_prefix(byte) ==
    /\ byte \in {224, 225}
    /\ kbd' = [kbd EXCEPT !.extended_prefix = TRUE]
    /\ UNCHANGED ringVars

on_irq_code(byte) ==
    LET released == byte >= 128
        extended == kbd.extended_prefix
        after == kbd_update_modifiers(kbd, byte % 128, released, extended)
    IN  /\ byte \notin {224, 225}
        /\ kbd' = [after EXCEPT !.extended_prefix = FALSE]
        /\ kbd_buffer_push(IF released \/ extended THEN NoChar
                           ELSE kbd_translate_make_scancode(after, byte % 128))

(* The typist's side of it.  The two Ctrl keys share a flag in the driver: *)
(* when one is lifted while the other is held, Ctrl is over until a Ctrl   *)
(* key sends its code again.                                               *)
CtrlDown == held \cap Ctrl # {} /\ ~lapse

(* A printing key that sent its code has typed the character that the keys *)
(* held, that Ctrl and Caps Lock give it, kept when there is room.         *)
Typed ==
    IF /\ event # NoChar /\ Len(wire) = 1
       /\ event[1] \in Printing /\ event[2] = "down"
       /\ Len(typed) < KBD_BUFFER_SIZE - 1
    THEN Append(typed, <<event[1], Form(event[1] \in Letter, held \cap Shift # {}, caps,
                                        CtrlDown)>>)
    ELSE typed

ps2_keyboard_on_irq ==
    /\ Ready /\ wire # <<>> /\ wire' = Tail(wire)
    /\ on_irq_prefix(Head(wire)) \/ on_irq_code(Head(wire))
    /\ typed' = Typed
    /\ event' = IF Len(wire) = 1 THEN NoChar ELSE event
    /\ UNCHANGED <<g_kbd_tail, loaded, setup, owed, held, caps, lapse>>

(* kbd_buffer_pop, for ps2_keyboard_getchar and each turn of               *)
(* ps2_keyboard_read: an interrupt may come between the two steps.         *)
PopLoad ==
    /\ Ready /\ loaded = NoChar /\ g_kbd_head # g_kbd_tail
    /\ loaded' = g_kbd_buffer[g_kbd_tail]
    /\ UNCHANGED <<ringVars, g_kbd_tail, kbd, setup, owed, wire, typistVars>>

PopAdvance ==
    /\ loaded # NoChar
    /\ g_kbd_tail' = Advance(g_kbd_tail)
    /\ loaded' = NoChar
    /\ typed' = Tail(typed)
    /\ UNCHANGED <<ringVars, kbd, setup, owed, wire, event, held, caps, lapse>>

(* The typist, once the keyboard has answered.  A key that is held sends   *)
(* its code again and again, Caps Lock too.                                *)
Press(k) ==
    /\ k \in held \/ Cardinality(held) < MaxHeld
    /\ event' = <<k, "down">>
    /\ held' = held \cup {k}
    /\ caps' = IF k = "CAPS" THEN ~caps ELSE caps
    /\ lapse' = (lapse /\ k \notin Ctrl)

LiftKey(k) ==
    /\ k \in held
    /\ event' = <<k, "up">>
    /\ held' = held \ {k}
    /\ lapse' = IF k \in Ctrl THEN (held \ {k}) \cap Ctrl # {} ELSE lapse
    /\ UNCHANGED caps

(* E0 goes before an extended code, bit 7 is set in a release. *)
ScanCode(k, way) == Code[k] + IF way = "up" THEN 128 ELSE 0

KeyEvent(k, way) ==
    /\ Ready /\ owed = 0 /\ wire = <<>>
    /\ (way = "down" /\ Press(k)) \/ (way = "up" /\ LiftKey(k))
    /\ wire' = IF k \in Extended THEN <<224, ScanCode(k, way)>> ELSE <<ScanCode(k, way)>>
    /\ UNCHANGED <<ringVars, g_kbd_tail, kbd, loaded, setup, owed, typed>>

KeyboardNext ==
    \/ WriteData \/ ps2_expect_ack \/ KeyboardAnswers
    \/ \E k \in Key, way \in Way : KeyEvent(k, way)
    \/ ps2_keyboard_on_irq \/ PopLoad \/ PopAdvance

KeyboardSpec == ps2_keyboard_init /\ [][KeyboardNext]_kbdVars

-----------------------------------------------------------------------------
(* What the reader will get is what was typed: the ring holds, in order,   *)
(* the character that each code of a printing key gives with the Shift     *)
(* keys physically held, but for those typed into a full ring; a reader    *)
(* interrupted in kbd_buffer_pop still returns the oldest one, and answers *)
(* that come too late for ps2_keyboard_init type nothing                   *)
(* (kbd_handle_scancode, kbd_update_modifiers, kbd_buffer_push,            *)
(* kbd_buffer_pop).  Two modifiers are not those of the keys held: Ctrl    *)
(* ends when either Ctrl key is lifted, the other one held or not, and     *)
(* Caps Lock changes with every code of its key, so that holding it down   *)
(* flips it again at each repeat.                                          *)
TypedIsRead ==
    /\ Len(typed) = (g_kbd_head - g_kbd_tail) % KBD_BUFFER_SIZE
    /\ \A i \in 1..Len(typed) :
          g_kbd_buffer[(g_kbd_tail + i - 1) % KBD_BUFFER_SIZE] = typed[i]
    /\ loaded # NoChar => loaded = Head(typed)

-----------------------------------------------------------------------------
(* The inductive invariant behind TypedIsRead.  The ring, from the reader's*)
(* index on, is what was typed.                                            *)
RingHolds ==
    /\ g_kbd_tail \in 0..(KBD_BUFFER_SIZE - 1) /\ g_kbd_head \in 0..(KBD_BUFFER_SIZE - 1)
    /\ DOMAIN g_kbd_buffer = 0..(KBD_BUFFER_SIZE - 1)
    /\ typed \in Seq(Printing \X FormName) /\ Len(typed) < KBD_BUFFER_SIZE
    /\ TailAgrees(g_kbd_tail, Len(typed), g_kbd_head, KBD_BUFFER_SIZE)
    /\ typed = Contents(g_kbd_buffer, g_kbd_tail, Len(typed), KBD_BUFFER_SIZE)
    /\ loaded # NoChar => typed # <<>> /\ loaded = Head(typed)

(* The flags are those of a set of keys, of Ctrl and of Caps Lock. *)
FlagsAre(keys, ctrl, lock, prefix) ==
    /\ kbd \in [left_shift : BOOLEAN, right_shift : BOOLEAN, shift : BOOLEAN, ctrl : BOOLEAN,
                alt : BOOLEAN, caps_lock : BOOLEAN, extended_prefix : BOOLEAN]
    /\ kbd.left_shift <=> "LSHIFT" \in keys
    /\ kbd.right_shift <=> "RSHIFT" \in keys
    /\ kbd.shift <=> keys \cap Shift # {}
    /\ kbd.ctrl <=> ctrl
    /\ kbd.caps_lock <=> lock
    /\ kbd.extended_prefix <=> prefix

(* The driver is a key event behind the typist: while the bytes of the     *)
(* event are on the wire, the flags are those of the keys and of Ctrl      *)
(* before it.                                                              *)
Behind(k, way, keys, ctrl) ==
    LET lock == IF k = "CAPS" /\ way = "down" THEN ~caps ELSE caps
    IN  /\ event = <<k, way>>
        /\ held = IF way = "down" THEN keys \cup {k} ELSE keys \ {k}
        /\ CtrlDown <=> IF k \in Ctrl THEN way = "down" ELSE ctrl
        /\ \/ /\ k \in Extended /\ wire = <<224, ScanCode(k, way)>>
              /\ FlagsAre(keys, ctrl, lock, FALSE)
           \/ wire = <<ScanCode(k, way)>> /\ FlagsAre(keys, ctrl, lock, k \in Extended)

FlagsFollow ==
    /\ held \in SUBSET Key /\ caps \in BOOLEAN
    /\ IF event = NoChar
       THEN wire \in Seq(Answer) /\ FlagsAre(held, CtrlDown, caps, FALSE)
       ELSE /\ Ready /\ owed = 0
            /\ \E k \in Key, way \in Way, keys \in SUBSET Key, ctrl \in BOOLEAN :
                  Behind(k, way, keys, ctrl)

KeyboardInv == RingHolds /\ FlagsFollow /\ owed \in Nat

=============================================================================
