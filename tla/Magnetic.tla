------------------------------ MODULE Magnetic ------------------------------
(***************************************************************************)
(* The magnetic card reader driver (magnetic.c) edge by edge: two          *)
(* interrupts, a state machine, five-bit characters with odd parity, least *)
(* significant bit first, and a longitudinal redundancy check (LRC).       *)
(*                                                                         *)
(* A character is the number of its four data bits; the driver stores it   *)
(* as (data & 0x0F) | 0x30.  content[] is the sequence of the characters   *)
(* added, so content_index is its length, and what follows reads as zero.  *)
(***************************************************************************)
EXTENDS Rtos, Integers, Sequences, FiniteSets

CONSTANTS ID_SIZE,    \* digits of a card number
          Symbols,    \* bit patterns of the characters on the cards in use
          MaxChars,   \* bound: characters on a track
          MaxCards,   \* bound: cards put through the reader
          MaxResets   \* bound: calls of enable_reading

ASSUME MagneticAssumption ==
  /\ ID_SIZE \in Nat \ {0}
  /\ Symbols \subseteq [1..5 -> {0, 1}]
  /\ MaxChars \in Nat /\ MaxCards \in Nat /\ MaxResets \in Nat

VARIABLES
  current_state,     \* of the state machine
  current_character, \* the bits loaded so far
  content, reading_state, reading,
  error,             \* error # NO_ERROR
  magnetic_updated_sem,
  disabling,         \* Task2 is between the two stores of disable_reading
  cards, resets      \* for the bounds

fsmVars == <<current_state, current_character, content, reading_state, error>>
vars    == <<fsmVars, reading, magnetic_updated_sem, disabling, cards, resets>>

SS == 11   \* ';'
FS == 13   \* '='
ES == 15   \* '?'

Collecting == {"expecting_SS", "pan", "additional_data", "expecting_LRC"}
State == {"initial", "enabled", "expecting_disable", "error"} \cup Collecting

TypeOK ==
  /\ current_state \in State
  /\ current_character \in UNION {[1..n -> {0, 1}] : n \in 0..5}
  /\ content \in Seq(0..15) /\ Len(content) <= MaxChars
  /\ reading_state \in {"UNINITIALIZED", "DISABLED", "WAITING", "READING",
                        "INVALID_DATA", "NEW_VALID_DATA"}
  /\ reading \in BOOLEAN /\ error \in BOOLEAN /\ disabling \in BOOLEAN
  /\ magnetic_updated_sem \in Sem
  /\ cards \in 0..MaxCards /\ resets \in 0..MaxResets

Init ==
  /\ current_state = "initial" /\ current_character = <<>> /\ content = <<>>
  /\ reading_state = "UNINITIALIZED" /\ reading = FALSE /\ error = FALSE
  /\ magnetic_updated_sem = NewSem /\ disabling = FALSE
  /\ cards = 0 /\ resets = 0

Announce == magnetic_updated_sem' = OSSemPost1(magnetic_updated_sem)
Silent   == UNCHANGED magnetic_updated_sem

-----------------------------------------------------------------------------
(* Characters *)

Ones(w) == Cardinality({k \in DOMAIN w : w[k] = 1})

current_character_valid_parity(w) == Ones(w) % 2 = 1

character2char(w) == w[1] + 2 * w[2] + 4 * w[3] + 8 * w[4]

DataBit(c, k) == (c \div 2^k) % 2

\* Mutant: the LRC is not compared.
LRCIgnored(s, c) == TRUE

\* The exclusive or of the characters equals the LRC character.
LRCMatches(s, c) ==
  \A k \in 0..3 :
    DataBit(c, k) = Cardinality({i \in DOMAIN s : DataBit(s[i], k) = 1}) % 2

-----------------------------------------------------------------------------
(* Actions of the state machine's edges *)

add_character_to_content(c) ==
  content' = Append(content, c) /\ current_character' = <<>>

clean_message ==
  /\ content' = <<>> /\ error' = FALSE /\ reading_state' = "READING"
  /\ Announce

\* SS_expected, data_after_LRC, finished_early and a bad LRC differ only in the
\* code of the error.
Reject ==
  /\ error' = TRUE /\ reading_state' = "INVALID_DATA"
  /\ UNCHANGED content

\* Mutant: after a bad LRC the machine waits for the card to leave.
validate_LRC_stays(w) ==
  IF LRCMatches(content, character2char(w))
    THEN /\ current_state' = "expecting_disable"
         /\ add_character_to_content(character2char(w))
         /\ UNCHANGED <<reading_state, error>> /\ Silent
    ELSE /\ current_state' = "expecting_disable"
         /\ Reject /\ current_character' = w /\ Announce

validate_LRC(w) ==
  IF LRCMatches(content, character2char(w))
    THEN /\ current_state' = "expecting_disable"
         /\ add_character_to_content(character2char(w))
         /\ UNCHANGED <<reading_state, error>> /\ Silent
    ELSE /\ current_state' = "error"
         /\ Reject /\ current_character' = w /\ Announce

\* The states pan and additional_data keep every character; FS and ES lead on.
Collect(w) ==
  LET c == character2char(w) IN
  /\ current_state' = CASE current_state = "expecting_SS" -> "pan"
                        [] current_state = "pan" /\ c = FS -> "additional_data"
                        [] current_state = "additional_data" /\ c = ES -> "expecting_LRC"
                        [] OTHER -> current_state
  /\ add_character_to_content(c)
  /\ UNCHANGED <<reading_state, error>> /\ Silent

Character(w) ==
  \/ current_state = "expecting_LRC" /\ validate_LRC(w)
  \/ /\ current_state = "expecting_SS" /\ character2char(w) # SS
     /\ current_state' = "error" /\ current_character' = w /\ Reject /\ Announce
  \/ /\ current_state = "expecting_SS" => character2char(w) = SS
     /\ current_state # "expecting_LRC" /\ Collect(w)

\* A character of the wrong parity is an error nobody is told about.
add_data_to_current_character(bit) ==
  LET w == Append(current_character, bit) IN
  \/ /\ Len(w) < 5 /\ current_character' = w
     /\ UNCHANGED <<current_state, content, reading_state, error>> /\ Silent
  \/ Len(w) >= 5 /\ current_character_valid_parity(w) /\ Character(w)
  \/ /\ Len(w) >= 5 /\ ~current_character_valid_parity(w)
     /\ current_state' = "error" /\ current_character' = w /\ Reject /\ Silent

-----------------------------------------------------------------------------
(* Interrupts *)

\* The bits a card may deliver next.
OnCard(bit) ==
  \E s \in Symbols : \A k \in 1..Len(current_character) + 1 :
    k \in DOMAIN s => s[k] = Append(current_character, bit)[k]

clock_falling_edge(bit) ==
  /\ reading
  /\ \/ /\ current_state = "enabled" /\ bit = 1
        /\ current_state' = "expecting_SS" /\ current_character' = <<1>>
        /\ UNCHANGED <<content, reading_state, error>> /\ Silent
     \/ /\ current_state \in Collecting
        /\ OnCard(bit) /\ Len(content) < MaxChars
        /\ add_data_to_current_character(bit)
     \/ /\ current_state = "expecting_disable" /\ bit = 1
        /\ current_state' = "error" /\ Reject /\ UNCHANGED current_character /\ Announce
  /\ UNCHANGED <<reading, disabling, cards, resets>>

\* The enable line falls when a card enters and rises when it leaves.
CardIn ==
  /\ reading /\ current_state = "initial"
  /\ cards < MaxCards /\ cards' = cards + 1
  /\ current_state' = "enabled" /\ clean_message
  /\ UNCHANGED <<current_character, reading, disabling, resets>>

CardOut ==
  /\ reading /\ current_state' = "initial"
  /\ \/ /\ current_state \in {"enabled"} \cup Collecting
        /\ Reject /\ Announce
     \/ /\ current_state = "expecting_disable"
        /\ reading_state' = "NEW_VALID_DATA" /\ UNCHANGED <<content, error>> /\ Announce
     \/ /\ current_state = "error"
        /\ UNCHANGED <<content, reading_state, error>> /\ Silent
  /\ UNCHANGED <<current_character, reading, disabling, cards, resets>>

-----------------------------------------------------------------------------
(* Calls of the client, Task2 *)

reset_FSM ==
  /\ content' = <<>> /\ error' = FALSE /\ current_character' = <<>>
  /\ current_state' = "initial"
  /\ Announce

init_magnetic ==
  /\ reading_state = "UNINITIALIZED"
  /\ reset_FSM /\ reading_state' = "DISABLED" /\ reading' = FALSE
  /\ UNCHANGED <<disabling, cards, resets>>

enable_reading ==
  /\ ~reading /\ reading_state # "UNINITIALIZED"
  /\ resets < MaxResets /\ resets' = resets + 1
  /\ reset_FSM /\ reading_state' = "WAITING" /\ reading' = TRUE
  /\ UNCHANGED <<disabling, cards>>

\* The two stores of disable_reading; edges may come between them.
disable_reading_state ==
  /\ reading
  /\ reading_state' = "DISABLED" /\ disabling' = TRUE
  /\ UNCHANGED <<current_state, current_character, content, error, reading,
                 magnetic_updated_sem, cards, resets>>

disable_reading_flag ==
  /\ reading' = FALSE /\ disabling' = FALSE
  /\ UNCHANGED <<fsmVars, magnetic_updated_sem, cards, resets>>

pend_updated ==
  /\ reading
  /\ magnetic_updated_sem' = OSSemPend(magnetic_updated_sem, "Task2")
  /\ UNCHANGED <<fsmVars, reading, disabling, cards, resets>>

Call ==
  /\ "Task2" \notin magnetic_updated_sem.wait
  /\ \/ /\ ~disabling
        /\ init_magnetic \/ enable_reading \/ disable_reading_state \/ pend_updated
     \/ disabling /\ disable_reading_flag

Next == (\E bit \in {0, 1} : clock_falling_edge(bit)) \/ CardIn \/ CardOut \/ Call

Spec == Init /\ [][Next]_vars

-----------------------------------------------------------------------------
(* Properties *)

\* The number get_data_ma makes of content[]: ID_SIZE digits after the start
\* sentinel, the ones not read yet as zero.
Digit(i) == IF i + 1 \in DOMAIN content THEN content[i + 1] ELSE 0

Digits == {0} \cup {character2char(s) : s \in Symbols}

Contract ==
  INSTANCE CardReader WITH
    FirstDigit <- Digits,
    OtherDigits <- [2..ID_SIZE -> Digits],
    ZEROS <- [i \in 2..ID_SIZE |-> 0],
    reader <-
      [reading |-> reading, state |-> reading_state, error |-> error,
       content |-> [head |-> Digit(1), tail |-> [i \in 2..ID_SIZE |-> Digit(i)]],
       track |-> CASE current_state = "initial" -> "idle"
                   [] current_state = "error" -> "error"
                   [] current_state = "expecting_disable" -> "complete"
                   [] OTHER -> "characters"]

(* Edge by edge, the driver does only what CardReader promises its client:  *)
(* the same announcements, the same results and the same moments at which   *)
(* content[] may change under a reader of it.                               *)
DriverKeepsContract == Contract!ReaderSpec

(* A reference for the state machine: a start sentinel, a field separator,  *)
(* later an end sentinel as the last character but one, and an LRC that     *)
(* makes the count of ones in every bit position even.                      *)
WellFormed(s) ==
  /\ Len(s) >= 4 /\ s[1] = SS /\ s[Len(s) - 1] = ES
  /\ \E i \in 2..Len(s) - 2 : s[i] = FS /\ \A j \in i + 1..Len(s) - 2 : s[j] # ES
  /\ \A k \in 0..3 : Cardinality({i \in DOMAIN s : DataBit(s[i], k) = 1}) % 2 = 0

(* What the driver offers as new valid data is a well-formed track, and     *)
(* get_data will not return NULL for it.                                    *)
ValidIsWellFormed ==
  reading_state = "NEW_VALID_DATA" => WellFormed(content) /\ ~error
=============================================================================
