--------------------------- MODULE MagneticProofs ---------------------------
(***************************************************************************)
(* What the magnetic card reader driver offers as a card is a well-formed  *)
(* track, and it keeps its contract with the application, for every set    *)
(* of cards and every number of swipes.                                    *)
(***************************************************************************)
EXTENDS Magnetic, FiniteSetTheorems, TLAPS

\* The start sentinel has been read.
Started(s) == Len(s) >= 1 /\ s[1] = SS

\* Somewhere before `last' a field separator, and no end sentinel after it.
Separated(s, last) ==
  \E i \in 2..last : s[i] = FS /\ \A j \in i + 1..last : s[j] # ES

ReaderTypes == current_character \in Seq({0, 1}) /\ content \in Seq(Nat)

\* What each state of the machine knows of the track read so far.
TrackOfState ==
  /\ current_state \in {"enabled", "expecting_SS"} => content = <<>>
  /\ current_state \in {"pan", "additional_data", "expecting_LRC"} => Started(content)
  /\ current_state = "additional_data" => Separated(content, Len(content))
  /\ current_state = "expecting_LRC" =>
       content[Len(content)] = ES /\ Separated(content, Len(content) - 1)
  /\ current_state = "expecting_disable" => WellFormed(content)

\* A swipe in progress has met no error, and what is offered stays until the
\* next card enters.
Offered ==
  /\ current_state \in {"enabled", "expecting_disable"} \cup Collecting => error = FALSE
  /\ reading_state = "NEW_VALID_DATA" =>
       current_state = "initial" /\ WellFormed(content) /\ error = FALSE

ReaderInv == ReaderTypes /\ TrackOfState /\ Offered

\* A character of five or more bits is a number.
LEMMA CharacterIsNumber ==
  ASSUME NEW w \in Seq({0, 1}), Len(w) >= 5
  PROVE  character2char(w) \in Nat
<1>1. w[1] \in {0, 1} /\ w[2] \in {0, 1} /\ w[3] \in {0, 1} /\ w[4] \in {0, 1}
  OBVIOUS
<1>2. PICK b1 \in Nat, b2 \in Nat, b3 \in Nat, b4 \in Nat :
        b1 = w[1] /\ b2 = w[2] /\ b3 = w[3] /\ b4 = w[4]
  BY <1>1
<1>3. b1 + 2 * b2 + 4 * b3 + 8 * b4 \in Nat  OBVIOUS
<1> QED  BY <1>2, <1>3 DEF character2char

\* What Append does.
LEMMA Appending ==
  ASSUME NEW s \in Seq(Nat), NEW c \in Nat
  PROVE  /\ Append(s, c) \in Seq(Nat) /\ Len(s) \in Nat
         /\ Len(Append(s, c)) = Len(s) + 1 /\ Append(s, c)[Len(s) + 1] = c
         /\ \A i \in 1..Len(s) : Append(s, c)[i] = s[i]
OBVIOUS

\* Later characters change neither the start nor the separator.
LEMMA AppendKeeps ==
  ASSUME NEW s \in Seq(Nat), NEW c \in Nat
  PROVE  /\ Started(s) => Started(Append(s, c))
         /\ Separated(s, Len(s)) => Separated(Append(s, c), Len(s))
         /\ Separated(s, Len(s)) /\ c # ES => Separated(Append(s, c), Len(s) + 1)
<1> DEFINE t == Append(s, c)
<1>1. /\ t \in Seq(Nat) /\ Len(s) \in Nat
      /\ Len(t) = Len(s) + 1 /\ t[Len(s) + 1] = c
      /\ \A i \in 1..Len(s) : t[i] = s[i]
  BY Appending
<1> HIDE DEF t
<1>2. Started(s) => Started(t)  BY <1>1 DEF Started
<1>3. ASSUME Separated(s, Len(s))
      PROVE  Separated(t, Len(s)) /\ (c # ES => Separated(t, Len(s) + 1))
  <2>1. PICK i \in 2..Len(s) : s[i] = FS /\ \A j \in i + 1..Len(s) : s[j] # ES
    BY <1>3 DEF Separated
  <2>2. i \in 1..Len(s) /\ i \in 2..Len(s) + 1 /\ i \in Nat  BY <1>1
  <2>3. t[i] = FS  BY <1>1, <2>1, <2>2
  <2>4. \A j \in i + 1..Len(s) : t[j] # ES
    <3> TAKE j \in i + 1..Len(s)
    <3>1. j \in 1..Len(s)  BY <1>1, <2>2
    <3> QED  BY <1>1, <2>1, <3>1
  <2>5. Separated(t, Len(s))  BY <2>3, <2>4 DEF Separated
  <2>6. ASSUME c # ES PROVE Separated(t, Len(s) + 1)
    <3>1. \A j \in i + 1..Len(s) + 1 : t[j] # ES
      <4> TAKE j \in i + 1..Len(s) + 1
      <4>1. j = Len(s) + 1 \/ j \in i + 1..Len(s)  
        <5>1. Len(s) \in Nat  BY <1>1
        <5> QED  BY <5>1, <2>2
      <4> QED  BY <1>1, <2>4, <2>6, <4>1
    <3> QED  BY <2>2, <2>3, <3>1 DEF Separated
  <2> QED  BY <2>5, <2>6
<1> QED  BY <1>2, <1>3 DEF t

\* A separator that has just been read.
LEMMA SeparatorRead ==
  ASSUME NEW s \in Seq(Nat), Started(s)
  PROVE  Separated(Append(s, FS), Len(s) + 1)
<1>1. FS \in Nat  BY DEF FS
<1>2. Len(s) \in Nat /\ Append(s, FS)[Len(s) + 1] = FS  BY <1>1, Appending
<1>3. Len(s) >= 1  BY DEF Started
<1>4. Len(s) + 1 \in 2..Len(s) + 1 /\ (Len(s) + 1) + 1..Len(s) + 1 = {}
  BY <1>2, <1>3
<1> QED  BY <1>2, <1>4 DEF Separated

\* An LRC character that matches makes every bit position even.
LEMMA LRCMakesEven ==
  ASSUME NEW s \in Seq(Nat), NEW c \in Nat, LRCMatches(s, c), NEW k \in 0..3
  PROVE  Cardinality({i \in DOMAIN Append(s, c) : DataBit(Append(s, c)[i], k) = 1}) % 2 = 0
<1> DEFINE t == Append(s, c)
           old == {i \in DOMAIN s : DataBit(s[i], k) = 1}
           new == {i \in DOMAIN t : DataBit(t[i], k) = 1}
           n == Len(s) + 1
<1>1. /\ t \in Seq(Nat) /\ Len(s) \in Nat
      /\ Len(t) = n /\ t[n] = c /\ \A i \in 1..Len(s) : t[i] = s[i]
  BY Appending
<1>2. DOMAIN s = 1..Len(s) /\ DOMAIN t = 1..n  BY <1>1
<1>3. 1..n = (1..Len(s)) \cup {n} /\ n \notin 1..Len(s)  BY <1>1
<1>4. DataBit(c, k) = Cardinality(old) % 2  BY DEF LRCMatches
<1> HIDE DEF t, n
<1>5. new = IF DataBit(c, k) = 1 THEN old \cup {n} ELSE old
  BY <1>1, <1>2, <1>3
<1>6. IsFiniteSet(old) /\ n \notin old
  <2>1. IsFiniteSet(1..Len(s))  BY <1>1, FS_Interval
  <2>2. old \in SUBSET (1..Len(s))  BY <1>2
  <2> QED  BY <1>3, <2>1, <2>2, FS_Subset
<1> HIDE DEF old, new
<1>7. Cardinality(old) \in Nat  BY <1>6, FS_CardinalityType
<1>8. Cardinality(old \cup {n}) = Cardinality(old) + 1  BY <1>6, FS_AddElement
<1>9. PICK m \in Nat : m = Cardinality(old)  BY <1>7
<1>10. CASE m % 2 = 1
  <2>1. Cardinality(new) = m + 1  BY <1>4, <1>5, <1>8, <1>9, <1>10
  <2>2. (m + 1) % 2 = 0  BY <1>10
  <2>3. Cardinality(new) % 2 = 0  BY <2>1, <2>2
  <2> QED  BY <2>3 DEF new, t
<1>11. CASE m % 2 = 0
  <2>1. DataBit(c, k) # 1  BY <1>4, <1>9, <1>11
  <2>2. Cardinality(new) % 2 = 0  BY <1>5, <1>9, <1>11, <2>1
  <2> QED  BY <2>2 DEF new, t
<1>12. m % 2 \in {0, 1}  OBVIOUS
<1> QED  BY <1>10, <1>11, <1>12

\* The track is well formed when its LRC matches.
LEMMA LRCCompletes ==
  ASSUME NEW s \in Seq(Nat), NEW c \in Nat, LRCMatches(s, c),
         Started(s), s[Len(s)] = ES, Separated(s, Len(s) - 1)
  PROVE  WellFormed(Append(s, c))
<1> DEFINE t == Append(s, c)
<1>1. /\ t \in Seq(Nat) /\ Len(s) \in Nat /\ Len(t) = Len(s) + 1
      /\ \A i \in 1..Len(s) : t[i] = s[i]
  BY Appending
<1>2. \A k \in 0..3 : Cardinality({i \in DOMAIN t : DataBit(t[i], k) = 1}) % 2 = 0
  BY LRCMakesEven
<1> HIDE DEF t
<1>3. PICK i \in 2..Len(s) - 1 : s[i] = FS /\ \A j \in i + 1..Len(s) - 1 : s[j] # ES
  BY DEF Separated
<1>4. Len(t) >= 4 /\ Len(t) - 1 = Len(s) /\ Len(t) - 2 = Len(s) - 1 /\ i \in 1..Len(s)
      /\ 1 \in 1..Len(s) /\ Len(s) \in 1..Len(s)
  <2>1. PICK n : n = Len(s)  OBVIOUS
  <2>2. n \in Nat /\ Len(t) = n + 1  BY <1>1, <2>1
  <2>3. i \in 2..n - 1  BY <2>1
  <2>4. n + 1 >= 4 /\ (n + 1) - 1 = n /\ (n + 1) - 2 = n - 1  BY <2>2, <2>3
  <2>5. i \in 1..n /\ 1 \in 1..n /\ n \in 1..n  BY <2>2, <2>3
  <2> QED  BY <2>1, <2>2, <2>4, <2>5
<1>5. t[1] = SS /\ t[Len(t) - 1] = ES /\ t[i] = FS  BY <1>1, <1>3, <1>4 DEF Started
<1>6. \A j \in i + 1..Len(t) - 2 : t[j] # ES
  <2> TAKE j \in i + 1..Len(t) - 2
  <2>1. j \in i + 1..Len(s) - 1 /\ j \in 1..Len(s)  BY <1>1, <1>4
  <2> QED  BY <1>1, <1>3, <2>1
<1>7. i \in 2..Len(t) - 2  BY <1>4
<1> QED  BY <1>2, <1>4, <1>5, <1>6, <1>7 DEF WellFormed, t


\* Every complete character leads to a state that knows the longer track.
LEMMA CollectStep ==
  ASSUME ReaderInv, NEW w \in Seq({0, 1}), Len(w) >= 5, Collect(w),
         current_state \in Collecting, current_state # "expecting_LRC",
         current_state = "expecting_SS" => character2char(w) = SS
  PROVE  ReaderInv'
<1>1. PICK c \in Nat : c = character2char(w)  BY CharacterIsNumber
<1>2. content \in Seq(Nat)  BY DEF ReaderInv, ReaderTypes
<1>3. PICK s \in Seq(Nat) : s = content  BY <1>2
<1>4. /\ content' = Append(s, c) /\ current_character' = <<>>
      /\ UNCHANGED <<reading_state, error>>
  BY <1>1, <1>3 DEF Collect, add_character_to_content
<1>5. ReaderTypes'
  <2>1. Append(s, c) \in Seq(Nat)  OBVIOUS
  <2>2. <<>> \in Seq({0, 1})  OBVIOUS
  <2> QED  BY <1>4, <2>1, <2>2 DEF ReaderTypes
<1>6. reading_state # "NEW_VALID_DATA" /\ error = FALSE
  BY DEF ReaderInv, Offered, Collecting
<1>7. Offered'  BY <1>4, <1>6 DEF Offered
<1>8. Len(Append(s, c)) = Len(s) + 1 /\ Len(s) \in Nat  OBVIOUS
<1>9. CASE current_state = "expecting_SS"
  <2>1. current_state' = "pan" /\ c = SS  BY <1>1, <1>9 DEF Collect
  <2>2. s = <<>>  BY <1>3, <1>9 DEF ReaderInv, TrackOfState
  <2>3. Started(Append(s, c))  BY <2>1, <2>2 DEF Started
  <2> QED  BY <1>4, <1>5, <1>7, <2>1, <2>3 DEF ReaderInv, TrackOfState
<1>10. CASE current_state = "pan"
  <2>1. Started(s)  BY <1>3, <1>10 DEF ReaderInv, TrackOfState
  <2>2. Started(Append(s, c))  BY <2>1, AppendKeeps
  <2>3. CASE c = FS
    <3>1. current_state' = "additional_data"  BY <1>1, <1>10, <2>3 DEF Collect
    <3>2. Separated(Append(s, c), Len(Append(s, c)))  BY <1>8, <2>1, <2>3, SeparatorRead
    <3> QED  BY <1>4, <1>5, <1>7, <2>2, <3>1, <3>2 DEF ReaderInv, TrackOfState
  <2>4. CASE c # FS
    <3>1. current_state' = "pan"  BY <1>1, <1>10, <2>4 DEF Collect
    <3> QED  BY <1>4, <1>5, <1>7, <2>2, <3>1 DEF ReaderInv, TrackOfState
  <2> QED  BY <2>3, <2>4
<1>11. CASE current_state = "additional_data"
  <2>1. Started(s) /\ Separated(s, Len(s))
    BY <1>3, <1>11 DEF ReaderInv, TrackOfState
  <2>2. Started(Append(s, c))  BY <2>1, AppendKeeps
  <2>3. CASE c = ES
    <3>1. current_state' = "expecting_LRC"  BY <1>1, <1>11, <2>3 DEF Collect
    <3>2. Len(Append(s, c)) - 1 = Len(s)  BY <1>8
    <3>3. Separated(Append(s, c), Len(Append(s, c)) - 1)  BY <2>1, <3>2, AppendKeeps
    <3>4. Append(s, c)[Len(Append(s, c))] = ES  BY <1>8, <2>3, Appending
    <3> QED  BY <1>4, <1>5, <1>7, <2>2, <3>1, <3>3, <3>4 DEF ReaderInv, TrackOfState
  <2>4. CASE c # ES
    <3>1. current_state' = "additional_data"  BY <1>1, <1>11, <2>4 DEF Collect
    <3>2. Separated(Append(s, c), Len(Append(s, c)))  BY <1>8, <2>1, <2>4, AppendKeeps
    <3> QED  BY <1>4, <1>5, <1>7, <2>2, <3>1, <3>2 DEF ReaderInv, TrackOfState
  <2> QED  BY <2>3, <2>4
<1> QED  BY <1>9, <1>10, <1>11 DEF Collecting

\* After an error the driver offers nothing.
LEMMA RejectStep ==
  ASSUME ReaderInv, Reject, current_state' \in {"error", "initial"},
         current_character' \in Seq({0, 1})
  PROVE  ReaderInv'
<1>1. ReaderTypes'  BY DEF ReaderInv, ReaderTypes, Reject
<1>2. TrackOfState'  BY DEF TrackOfState
<1>3. Offered'  BY DEF Offered, Reject, Collecting
<1> QED  BY <1>1, <1>2, <1>3 DEF ReaderInv

\* A complete character with the right parity.
LEMMA CharacterStep ==
  ASSUME ReaderInv, NEW w \in Seq({0, 1}), Len(w) >= 5, Character(w),
         current_state \in Collecting
  PROVE  ReaderInv'
<1>1. CASE current_state = "expecting_LRC" /\ validate_LRC(w)
  <2>1. CASE ~LRCMatches(content, character2char(w))
    <3>1. current_state' = "error" /\ Reject /\ current_character' = w
      BY <1>1, <2>1 DEF validate_LRC
    <3> QED  BY <3>1, RejectStep
  <2>2. CASE LRCMatches(content, character2char(w))
    <3>1. PICK c \in Nat : c = character2char(w)  BY CharacterIsNumber
    <3>2. content \in Seq(Nat)  BY DEF ReaderInv, ReaderTypes
    <3>3. PICK s \in Seq(Nat) : s = content  BY <3>2
    <3>4. /\ current_state' = "expecting_disable" /\ content' = Append(s, c)
          /\ current_character' = <<>> /\ UNCHANGED <<reading_state, error>>
      BY <1>1, <2>2, <3>1, <3>3 DEF validate_LRC, add_character_to_content
    <3>5. Started(s) /\ s[Len(s)] = ES /\ Separated(s, Len(s) - 1)
      BY <1>1, <3>3 DEF ReaderInv, TrackOfState
    <3>6. WellFormed(Append(s, c))  BY <2>2, <3>1, <3>3, <3>5, LRCCompletes
    <3>7. reading_state # "NEW_VALID_DATA" /\ error = FALSE
      BY DEF ReaderInv, Offered, Collecting
    <3>8. ReaderTypes'
      <4>1. Append(s, c) \in Seq(Nat) /\ <<>> \in Seq({0, 1})  OBVIOUS
      <4> QED  BY <3>4, <4>1 DEF ReaderTypes
    <3>9. TrackOfState' /\ Offered'
      BY <3>4, <3>6, <3>7 DEF TrackOfState, Offered
    <3> QED  BY <3>8, <3>9 DEF ReaderInv
  <2> QED  BY <2>1, <2>2
<1>2. CASE current_state' = "error" /\ current_character' = w /\ Reject
  BY <1>2, RejectStep
<1>3. CASE /\ current_state = "expecting_SS" => character2char(w) = SS
           /\ current_state # "expecting_LRC" /\ Collect(w)
  BY <1>3, CollectStep
<1> QED  BY <1>1, <1>2, <1>3 DEF Character

\* The interrupt of the clock line.
LEMMA ClockStep ==
  ASSUME ReaderInv, NEW bit \in {0, 1}, clock_falling_edge(bit)
  PROVE  ReaderInv'
<1>1. current_character \in Seq({0, 1}) /\ content \in Seq(Nat)
  BY DEF ReaderInv, ReaderTypes
<1>2. CASE /\ current_state = "enabled" /\ current_state' = "expecting_SS"
           /\ current_character' = <<1>> /\ UNCHANGED <<content, reading_state, error>>
  <2>1. <<1>> \in Seq({0, 1})  OBVIOUS
  <2>2. ReaderTypes'  BY <1>1, <1>2, <2>1 DEF ReaderTypes
  <2>3. content = <<>> /\ error = FALSE /\ reading_state # "NEW_VALID_DATA"
    BY <1>2 DEF ReaderInv, TrackOfState, Offered
  <2> QED  BY <1>2, <2>2, <2>3 DEF ReaderInv, TrackOfState, Offered
<1>3. CASE current_state \in Collecting /\ add_data_to_current_character(bit)
  <2>1. Append(current_character, bit) \in Seq({0, 1})  BY <1>1
  <2>2. PICK w \in Seq({0, 1}) : w = Append(current_character, bit)  BY <2>1
  <2>3. CASE /\ current_character' = w
             /\ UNCHANGED <<current_state, content, reading_state, error>>
    <3>1. ReaderTypes'  BY <1>1, <2>3 DEF ReaderTypes
    <3>2. TrackOfState' /\ Offered'  BY <2>3 DEF ReaderInv, TrackOfState, Offered
    <3> QED  BY <3>1, <3>2 DEF ReaderInv
  <2>4. CASE Len(w) >= 5 /\ Character(w)
    BY <1>3, <2>4, CharacterStep
  <2>5. CASE current_state' = "error" /\ current_character' = w /\ Reject
    BY <2>5, RejectStep
  <2> QED  BY <1>3, <2>2, <2>3, <2>4, <2>5 DEF add_data_to_current_character
<1>4. CASE current_state' = "error" /\ Reject /\ UNCHANGED current_character
  BY <1>1, <1>4, RejectStep
<1> QED  BY <1>2, <1>3, <1>4 DEF clock_falling_edge

\* A reset forgets the track.
LEMMA ResetStep ==
  ASSUME reset_FSM, reading_state' # "NEW_VALID_DATA"
  PROVE  ReaderInv'
<1>1. /\ content' = <<>> /\ error' = FALSE /\ current_character' = <<>>
      /\ current_state' = "initial"
  BY DEF reset_FSM
<1>2. <<>> \in Seq(Nat) /\ <<>> \in Seq({0, 1})  OBVIOUS
<1> QED  BY <1>1, <1>2 DEF ReaderInv, ReaderTypes, TrackOfState, Offered

\* Every step keeps ReaderInv.
LEMMA ReaderStep == ASSUME ReaderInv, [Next]_vars PROVE ReaderInv'
<1>1. ReaderTypes /\ TrackOfState /\ Offered  BY DEF ReaderInv
<1>2. ASSUME NEW bit \in {0, 1}, clock_falling_edge(bit) PROVE ReaderInv'
  BY <1>2, ClockStep
<1>3. CASE CardIn
  <2>1. /\ current_state' = "enabled" /\ content' = <<>> /\ error' = FALSE
        /\ reading_state' = "READING" /\ UNCHANGED current_character
    BY <1>3 DEF CardIn, clean_message
  <2>2. <<>> \in Seq(Nat)  OBVIOUS
  <2> QED  BY <1>1, <2>1, <2>2 DEF ReaderInv, ReaderTypes, TrackOfState, Offered
<1>4. CASE CardOut
  <2>1. current_state' = "initial" /\ UNCHANGED current_character  BY <1>4 DEF CardOut
  <2>2. CASE Reject
    BY <1>1, <2>1, <2>2, RejectStep DEF ReaderTypes
  <2>3. CASE /\ current_state = "expecting_disable"
             /\ reading_state' = "NEW_VALID_DATA" /\ UNCHANGED <<content, error>>
    BY <1>1, <2>1, <2>3 DEF ReaderInv, ReaderTypes, TrackOfState, Offered
  <2>4. CASE /\ current_state = "error" /\ UNCHANGED <<content, reading_state, error>>
    <3>1. reading_state # "NEW_VALID_DATA"  BY <1>1, <2>4 DEF Offered
    <3>2. ReaderTypes'  BY <1>1, <2>1, <2>4 DEF ReaderTypes
    <3>3. TrackOfState'  BY <2>1 DEF TrackOfState
    <3>4. Offered'  BY <2>1, <2>4, <3>1 DEF Offered, Collecting
    <3> QED  BY <3>2, <3>3, <3>4 DEF ReaderInv
  <2> QED  BY <1>4, <2>2, <2>3, <2>4 DEF CardOut
<1>5. CASE Call
  <2>1. CASE init_magnetic  BY <2>1, ResetStep DEF init_magnetic
  <2>2. CASE enable_reading  BY <2>2, ResetStep DEF enable_reading
  <2>3. CASE disable_reading_state
    BY <1>1, <2>3
    DEF disable_reading_state, ReaderInv, ReaderTypes, TrackOfState, Offered
  <2>4. CASE disable_reading_flag \/ pend_updated
    BY <1>1, <2>4
    DEF disable_reading_flag, pend_updated, fsmVars, ReaderInv, ReaderTypes, TrackOfState,
        Offered
  <2> QED  BY <1>5, <2>1, <2>2, <2>3, <2>4 DEF Call
<1>6. CASE UNCHANGED vars
  BY <1>1, <1>6 DEF vars, fsmVars, ReaderInv, ReaderTypes, TrackOfState, Offered
<1> QED  BY <1>2, <1>3, <1>4, <1>5, <1>6 DEF Next

(* Every state of the machine of magnetic.c knows what track has led to it: *)
(* no order of edges, cards, errors and calls of the client breaks that.    *)
THEOREM ReaderInvariant == Spec => []ReaderInv
<1>1. Init => ReaderInv
  <2> SUFFICES ASSUME Init PROVE ReaderInv
    OBVIOUS
  <2>1. /\ content = <<>> /\ error = FALSE /\ current_character = <<>>
        /\ current_state = "initial" /\ reading_state = "UNINITIALIZED"
    BY DEF Init
  <2>2. <<>> \in Seq(Nat) /\ <<>> \in Seq({0, 1})  OBVIOUS
  <2> QED  BY <2>1, <2>2 DEF ReaderInv, ReaderTypes, TrackOfState, Offered
<1>2. ReaderInv /\ [Next]_vars => ReaderInv'  BY ReaderStep
<1> QED  BY <1>1, <1>2, PTL DEF Spec

(* When magnetic.c announces NEW_VALID_DATA, content[] holds a well-formed  *)
(* track with a matching LRC and no error is pending, however the card was  *)
(* pulled, stopped or followed by the next one.                             *)
THEOREM OfferedCardIsWellFormed == Spec => []ValidIsWellFormed
<1>1. ReaderInv => ValidIsWellFormed
  BY Zenon DEF ReaderInv, Offered, ValidIsWellFormed
<1> QED  BY <1>1, ReaderInvariant, PTL

-----------------------------------------------------------------------------
(* The contract of the driver with its client *)

\* The state of the contract, as Contract maps it.
Number == [head |-> Digit(1), tail |-> [i \in 2..ID_SIZE |-> Digit(i)]]
Phase  == CASE current_state = "initial" -> "idle"
            [] current_state = "error" -> "error"
            [] current_state = "expecting_disable" -> "complete"
            [] OTHER -> "characters"
View   == [reading |-> reading, state |-> reading_state, error |-> error,
           content |-> Number, track |-> Phase]

\* What the contract needs beside ReaderInv: only characters of cards are
\* stored, and a character is complete at its fifth bit.
ContractInv ==
  /\ current_character \in Seq({0, 1}) /\ content \in Seq(Digits)
  /\ current_state \in Collecting => Len(current_character) <= 4

\* The fields of a view, and how a step changes them.
LEMMA ViewFields ==
  /\ View.reading = reading /\ View.state = reading_state /\ View.error = error
  /\ View.content = Number /\ View.track = Phase
BY DEF View

\* The contract posts the semaphore as the driver does.
LEMMA SamePost ==
  ASSUME Announce
  PROVE  Contract!Updated
BY DEF Announce, Contract!Updated, OSSemPost1, Contract!OSSemPost1, First, Contract!First,
       Prio, Contract!Prio, Task, Contract!Task

LEMMA SamePend ==
  ASSUME magnetic_updated_sem' = OSSemPend(magnetic_updated_sem, "Task2")
  PROVE  magnetic_updated_sem' = Contract!OSSemPend(magnetic_updated_sem, "Task2")
BY DEF OSSemPend, Contract!OSSemPend

\* A cleared content[] reads as zeros, and any other as digits of cards.
LEMMA Cleared == ASSUME content = <<>> PROVE Number = Contract!BlankId
<1>1. \A i \in Nat : i + 1 \notin DOMAIN content  OBVIOUS
<1>2. \A i \in Nat : Digit(i) = 0  BY <1>1 DEF Digit
<1>3. \A i \in 2..ID_SIZE : i \in Nat  BY MagneticAssumption
<1>4. [i \in 2..ID_SIZE |-> Digit(i)] = [i \in 2..ID_SIZE |-> 0]  BY <1>2, <1>3
<1>5. Digit(1) = 0  BY <1>2
<1> QED  BY <1>4, <1>5 DEF Number, Contract!BlankId, Contract!ZERO

LEMMA NumberIsId == ASSUME content \in Seq(Digits) PROVE Number \in Contract!Id
<1>1. \A i \in DOMAIN content : content[i] \in Digits  OBVIOUS
<1>2. 0 \in Digits  BY DEF Digits
<1>3. \A i : Digit(i) \in Digits  BY <1>1, <1>2 DEF Digit
<1> QED  BY <1>3, Zenon DEF Number, Contract!Id

\* The contract's steps in terms of the view.
LEMMA ContractSteps ==
  /\ Contract!ReaderInit <=>
       /\ View = [reading |-> FALSE, state |-> "UNINITIALIZED", error |-> FALSE,
                  content |-> Contract!BlankId, track |-> "idle"]
       /\ magnetic_updated_sem = Contract!NewSem
  /\ Contract!TrackStart <=>
       /\ View.reading /\ View.track = "idle"
       /\ View' = [View EXCEPT !.track = "characters", !.state = "READING",
                               !.error = FALSE, !.content = Contract!BlankId]
       /\ Contract!Updated
  /\ \A c : Contract!TrackRead(c) <=>
       /\ View.reading /\ View.track = "characters"
       /\ View' = [View EXCEPT !.content = c] /\ UNCHANGED magnetic_updated_sem
  /\ \A c : Contract!TrackComplete(c) <=>
       /\ View.reading /\ View.track = "characters"
       /\ View' = [View EXCEPT !.track = "complete", !.content = c]
       /\ UNCHANGED magnetic_updated_sem
  /\ \A announced : Contract!TrackFail(announced) <=>
       /\ View.reading /\ View.track \in {"characters", "complete"}
       /\ announced \/ View.track = "characters"
       /\ View' = [View EXCEPT !.track = "error", !.error = TRUE, !.state = "INVALID_DATA"]
       /\ IF announced THEN Contract!Updated ELSE UNCHANGED magnetic_updated_sem
  /\ Contract!TrackUnfinished <=>
       /\ View.reading /\ View.track = "characters"
       /\ View' = [View EXCEPT !.track = "idle", !.error = TRUE, !.state = "INVALID_DATA"]
       /\ Contract!Updated
  /\ Contract!TrackLeave <=>
       /\ View.reading /\ View.track = "error"
       /\ View' = [View EXCEPT !.track = "idle"] /\ UNCHANGED magnetic_updated_sem
  /\ Contract!TrackValid <=>
       /\ View.reading /\ View.track = "complete"
       /\ View' = [View EXCEPT !.track = "idle", !.state = "NEW_VALID_DATA"]
       /\ Contract!Updated
  /\ Contract!init_magnetic <=>
       /\ View.state = "UNINITIALIZED"
       /\ View' = [reading |-> FALSE, state |-> "DISABLED", error |-> FALSE,
                   content |-> Contract!BlankId, track |-> "idle"]
       /\ Contract!Updated
  /\ Contract!enable_reading <=>
       /\ View' = [reading |-> TRUE, state |-> "WAITING", error |-> FALSE,
                   content |-> Contract!BlankId, track |-> "idle"]
       /\ Contract!Updated
  /\ Contract!disable_reading_state <=>
       View' = [View EXCEPT !.state = "DISABLED"] /\ UNCHANGED magnetic_updated_sem
  /\ Contract!disable_reading_flag <=>
       View' = [View EXCEPT !.reading = FALSE] /\ UNCHANGED magnetic_updated_sem
  /\ Contract!pend_updated <=>
       /\ magnetic_updated_sem' = Contract!OSSemPend(magnetic_updated_sem, "Task2")
       /\ UNCHANGED View
  /\ Contract!ReaderCall <=>
       /\ "Task2" \notin magnetic_updated_sem.wait
       /\ \/ Contract!init_magnetic
          \/ View.state # "UNINITIALIZED" /\ ~View.reading /\ Contract!enable_reading
          \/ Contract!disable_reading_state \/ Contract!disable_reading_flag
          \/ Contract!pend_updated
  /\ UNCHANGED Contract!readerVars <=> UNCHANGED <<View, magnetic_updated_sem>>
BY Zenon DEF Contract!ReaderInit, Contract!TrackStart, Contract!TrackRead, Contract!TrackComplete,
       Contract!TrackFail, Contract!TrackUnfinished, Contract!TrackLeave,
       Contract!TrackValid, Contract!init_magnetic, Contract!enable_reading,
       Contract!disable_reading_state, Contract!disable_reading_flag,
       Contract!pend_updated, Contract!ReaderCall,
       Contract!readerVars, View, Number, Phase

\* A view with some of its fields replaced.
LEMMA ViewReplaced ==
  /\ [View EXCEPT !.track = "characters", !.state = "READING",
                  !.error = FALSE, !.content = Contract!BlankId]
       = [reading |-> reading, state |-> "READING", error |-> FALSE,
          content |-> Contract!BlankId, track |-> "characters"]
  /\ \A c :
     [View EXCEPT !.content = c]
       = [reading |-> reading, state |-> reading_state, error |-> error,
          content |-> c, track |-> Phase]
  /\ \A c :
     [View EXCEPT !.track = "complete", !.content = c]
       = [reading |-> reading, state |-> reading_state, error |-> error,
          content |-> c, track |-> "complete"]
  /\ \A t :
     [View EXCEPT !.track = t, !.error = TRUE, !.state = "INVALID_DATA"]
       = [reading |-> reading, state |-> "INVALID_DATA", error |-> TRUE,
          content |-> Number, track |-> t]
  /\ [View EXCEPT !.track = "idle"]
       = [reading |-> reading, state |-> reading_state, error |-> error,
          content |-> Number, track |-> "idle"]
  /\ [View EXCEPT !.track = "idle", !.state = "NEW_VALID_DATA"]
       = [reading |-> reading, state |-> "NEW_VALID_DATA", error |-> error,
          content |-> Number, track |-> "idle"]
  /\ [View EXCEPT !.state = "DISABLED"]
       = [reading |-> reading, state |-> "DISABLED", error |-> error,
          content |-> Number, track |-> Phase]
  /\ [View EXCEPT !.reading = FALSE]
       = [reading |-> FALSE, state |-> reading_state, error |-> error,
          content |-> Number, track |-> Phase]
<1> DEFINE field == {"reading", "state", "error", "content", "track"}
<1>1. ASSUME NEW y, DOMAIN y = field, y = [f \in DOMAIN y |-> y[f]]
      PROVE  y = [reading |-> y.reading, state |-> y.state, error |-> y.error,
                  content |-> y.content, track |-> y.track]
  BY <1>1
<1>2. [View EXCEPT !.track = "characters", !.state = "READING",
                   !.error = FALSE, !.content = Contract!BlankId]
        = [reading |-> reading, state |-> "READING", error |-> FALSE,
           content |-> Contract!BlankId, track |-> "characters"]
  <2> DEFINE y == [View EXCEPT !.track = "characters", !.state = "READING",
                         !.error = FALSE, !.content = Contract!BlankId]
  <2>1. DOMAIN y = field /\ y = [f \in DOMAIN y |-> y[f]]  BY DEF View
  <2>2. y.reading = reading /\ y.state = "READING" /\ y.error = FALSE
        /\ y.content = Contract!BlankId /\ y.track = "characters"
    BY DEF View
  <2> HIDE DEF y
  <2>3. y = [reading |-> reading, state |-> "READING", error |-> FALSE,
             content |-> Contract!BlankId, track |-> "characters"]
    BY <1>1, <2>1, <2>2
  <2> QED  BY <2>3 DEF y
<1>3. ASSUME NEW c
      PROVE  [View EXCEPT !.content = c]
               = [reading |-> reading, state |-> reading_state, error |-> error,
                  content |-> c, track |-> Phase]
  <2> DEFINE y == [View EXCEPT !.content = c]
  <2>1. DOMAIN y = field /\ y = [f \in DOMAIN y |-> y[f]]  BY DEF View
  <2>2. y.reading = reading /\ y.state = reading_state /\ y.error = error
        /\ y.content = c /\ y.track = Phase
    BY DEF View
  <2> HIDE DEF y
  <2>3. y = [reading |-> reading, state |-> reading_state, error |-> error,
             content |-> c, track |-> Phase]
    BY <1>1, <2>1, <2>2
  <2> QED  BY <2>3 DEF y
<1>4. ASSUME NEW c
      PROVE  [View EXCEPT !.track = "complete", !.content = c]
               = [reading |-> reading, state |-> reading_state, error |-> error,
                  content |-> c, track |-> "complete"]
  <2> DEFINE y == [View EXCEPT !.track = "complete", !.content = c]
  <2>1. DOMAIN y = field /\ y = [f \in DOMAIN y |-> y[f]]  BY DEF View
  <2>2. y.reading = reading /\ y.state = reading_state /\ y.error = error
        /\ y.content = c /\ y.track = "complete"
    BY DEF View
  <2> HIDE DEF y
  <2>3. y = [reading |-> reading, state |-> reading_state, error |-> error,
             content |-> c, track |-> "complete"]
    BY <1>1, <2>1, <2>2
  <2> QED  BY <2>3 DEF y
<1>5. ASSUME NEW t
      PROVE  [View EXCEPT !.track = t, !.error = TRUE, !.state = "INVALID_DATA"]
               = [reading |-> reading, state |-> "INVALID_DATA", error |-> TRUE,
                  content |-> Number, track |-> t]
  <2> DEFINE y == [View EXCEPT !.track = t, !.error = TRUE, !.state = "INVALID_DATA"]
  <2>1. DOMAIN y = field /\ y = [f \in DOMAIN y |-> y[f]]  BY DEF View
  <2>2. y.reading = reading /\ y.state = "INVALID_DATA" /\ y.error = TRUE
        /\ y.content = Number /\ y.track = t
    BY DEF View
  <2> HIDE DEF y
  <2>3. y = [reading |-> reading, state |-> "INVALID_DATA", error |-> TRUE,
             content |-> Number, track |-> t]
    BY <1>1, <2>1, <2>2
  <2> QED  BY <2>3 DEF y
<1>6. [View EXCEPT !.track = "idle"]
        = [reading |-> reading, state |-> reading_state, error |-> error,
           content |-> Number, track |-> "idle"]
  <2> DEFINE y == [View EXCEPT !.track = "idle"]
  <2>1. DOMAIN y = field /\ y = [f \in DOMAIN y |-> y[f]]  BY DEF View
  <2>2. y.reading = reading /\ y.state = reading_state /\ y.error = error
        /\ y.content = Number /\ y.track = "idle"
    BY DEF View
  <2> HIDE DEF y
  <2>3. y = [reading |-> reading, state |-> reading_state, error |-> error,
             content |-> Number, track |-> "idle"]
    BY <1>1, <2>1, <2>2
  <2> QED  BY <2>3 DEF y
<1>7. [View EXCEPT !.track = "idle", !.state = "NEW_VALID_DATA"]
        = [reading |-> reading, state |-> "NEW_VALID_DATA", error |-> error,
           content |-> Number, track |-> "idle"]
  <2> DEFINE y == [View EXCEPT !.track = "idle", !.state = "NEW_VALID_DATA"]
  <2>1. DOMAIN y = field /\ y = [f \in DOMAIN y |-> y[f]]  BY DEF View
  <2>2. y.reading = reading /\ y.state = "NEW_VALID_DATA" /\ y.error = error
        /\ y.content = Number /\ y.track = "idle"
    BY DEF View
  <2> HIDE DEF y
  <2>3. y = [reading |-> reading, state |-> "NEW_VALID_DATA", error |-> error,
             content |-> Number, track |-> "idle"]
    BY <1>1, <2>1, <2>2
  <2> QED  BY <2>3 DEF y
<1>8. [View EXCEPT !.state = "DISABLED"]
        = [reading |-> reading, state |-> "DISABLED", error |-> error,
           content |-> Number, track |-> Phase]
  <2> DEFINE y == [View EXCEPT !.state = "DISABLED"]
  <2>1. DOMAIN y = field /\ y = [f \in DOMAIN y |-> y[f]]  BY DEF View
  <2>2. y.reading = reading /\ y.state = "DISABLED" /\ y.error = error
        /\ y.content = Number /\ y.track = Phase
    BY DEF View
  <2> HIDE DEF y
  <2>3. y = [reading |-> reading, state |-> "DISABLED", error |-> error,
             content |-> Number, track |-> Phase]
    BY <1>1, <2>1, <2>2
  <2> QED  BY <2>3 DEF y
<1>9. [View EXCEPT !.reading = FALSE]
        = [reading |-> FALSE, state |-> reading_state, error |-> error,
           content |-> Number, track |-> Phase]
  <2> DEFINE y == [View EXCEPT !.reading = FALSE]
  <2>1. DOMAIN y = field /\ y = [f \in DOMAIN y |-> y[f]]  BY DEF View
  <2>2. y.reading = FALSE /\ y.state = reading_state /\ y.error = error
        /\ y.content = Number /\ y.track = Phase
    BY DEF View
  <2> HIDE DEF y
  <2>3. y = [reading |-> FALSE, state |-> reading_state, error |-> error,
             content |-> Number, track |-> Phase]
    BY <1>1, <2>1, <2>2
  <2> QED  BY <2>3 DEF y
<1> QED  BY <1>2, <1>3, <1>4, <1>5, <1>6, <1>7, <1>8, <1>9, Zenon

\* What is complete at the fifth bit is a character of a card.
LEMMA CharacterOnCard ==
  ASSUME ContractInv, current_state \in Collecting, NEW bit \in {0, 1}, OnCard(bit),
         Len(Append(current_character, bit)) >= 5
  PROVE  character2char(Append(current_character, bit)) \in Digits
<1>1. current_character \in Seq({0, 1}) /\ Len(current_character) <= 4  BY DEF ContractInv
<1>2. Len(current_character) = 4
  <2>1. Len(Append(current_character, bit)) = Len(current_character) + 1  BY <1>1
  <2>2. PICK n \in Nat : n = Len(current_character)  BY <1>1
  <2>3. n <= 4 /\ n + 1 >= 5  BY <1>1, <2>1, <2>2
  <2>4. n = 4  BY <2>3
  <2> QED  BY <2>2, <2>4
<1>3. PICK s \in Symbols : \A k \in 1..5 :
        k \in DOMAIN s => s[k] = Append(current_character, bit)[k]
  BY <1>2 DEF OnCard
<1>4. DOMAIN s = 1..5  BY MagneticAssumption
<1> DEFINE w == Append(current_character, bit)
<1>5. s[1] = w[1] /\ s[2] = w[2] /\ s[3] = w[3] /\ s[4] = w[4]
  <2>1. 1 \in 1..5 /\ 2 \in 1..5 /\ 3 \in 1..5 /\ 4 \in 1..5  OBVIOUS
  <2> QED  BY <1>3, <1>4, <2>1
<1> HIDE DEF w
<1>6. character2char(w) = character2char(s)  BY <1>5 DEF character2char
<1>7. character2char(s) \in Digits  BY DEF Digits
<1> QED  BY <1>6, <1>7 DEF w

\* content[] is kept, cleared, or longer by the character w of a card.
Stores(w) ==
  \/ UNCHANGED content \/ content' = <<>>
  \/ character2char(w) \in Digits /\ content' = Append(content, character2char(w))

\* The bits loaded are kept, started anew, or become w; a state that collects
\* characters has no more than four.
Loads(w) ==
  /\ UNCHANGED current_character \/ current_character' \in {<<>>, <<1>>, w}
  /\ current_state' \in Collecting =>
       \/ current_character' \in {<<>>, <<1>>}
       \/ current_character' = w /\ Len(w) <= 4
       \/ UNCHANGED current_character /\ current_state \in Collecting

\* ContractInv holds of a step that stores a character of a card, or none.
LEMMA ContractKept ==
  ASSUME ContractInv, NEW w \in Seq({0, 1}), Stores(w), Loads(w)
  PROVE  ContractInv'
<1>1. current_character \in Seq({0, 1}) /\ content \in Seq(Digits)  BY DEF ContractInv
<1>2. <<>> \in Seq({0, 1}) /\ <<1>> \in Seq({0, 1}) /\ <<>> \in Seq(Digits)  OBVIOUS
<1>3. \A c \in Digits : Append(content, c) \in Seq(Digits)  BY <1>1
<1>4. content' \in Seq(Digits)  BY <1>1, <1>2, <1>3 DEF Stores
<1>5. current_character' \in Seq({0, 1})  BY <1>1, <1>2 DEF Loads
<1>6. Len(<<>>) <= 4 /\ Len(<<1>>) <= 4  OBVIOUS
<1>7. current_state' \in Collecting => Len(current_character') <= 4
  BY <1>6 DEF ContractInv, Loads
<1> QED  BY <1>4, <1>5, <1>7 DEF ContractInv

\* ContractInv is kept by every step.
LEMMA ContractInvStep == ASSUME ContractInv, [Next]_vars PROVE ContractInv'
<1>1. current_character \in Seq({0, 1}) /\ content \in Seq(Digits)  BY DEF ContractInv
<1>2. ASSUME NEW bit \in {0, 1}, clock_falling_edge(bit) PROVE ContractInv'
  <2>1. Append(current_character, bit) \in Seq({0, 1})  BY <1>1
  <2>2. PICK w \in Seq({0, 1}) : w = Append(current_character, bit)  BY <2>1
  <2>5. CASE /\ current_character' = <<1>> /\ UNCHANGED <<content, reading_state, error>>
    BY <2>5, ContractKept DEF Stores, Loads
  <2>6. CASE /\ current_state \in Collecting /\ OnCard(bit)
             /\ add_data_to_current_character(bit)
    <3>1. CASE Len(w) < 5 /\ current_character' = w /\ UNCHANGED <<content, reading_state>>
      <4>1. Len(w) <= 4  BY <3>1
      <4> QED  BY <3>1, <4>1, ContractKept DEF Stores, Loads
    <3>2. CASE current_state' = "error" /\ current_character' = w /\ Reject
      BY <3>2, ContractKept DEF Stores, Loads, Reject, Collecting
    <3>3. CASE Len(w) >= 5 /\ Character(w)
      <4>1. character2char(w) \in Digits  BY <2>2, <2>6, <3>3, CharacterOnCard
      <4>2. CASE current_state' = "error" /\ current_character' = w /\ Reject
        BY <4>2, ContractKept DEF Stores, Loads, Reject, Collecting
      <4>3. CASE add_character_to_content(character2char(w)) /\ UNCHANGED reading_state
        BY <4>1, <4>3, ContractKept DEF Stores, Loads, add_character_to_content
      <4> QED  BY <3>3, <4>2, <4>3 DEF Character, Collect, validate_LRC
    <3> QED  BY <2>2, <2>6, <3>1, <3>2, <3>3 DEF add_data_to_current_character
  <2>7. CASE current_state' = "error" /\ Reject /\ UNCHANGED current_character
    BY <2>2, <2>7, ContractKept DEF Stores, Loads, Reject, Collecting
  <2> QED  BY <1>2, <2>5, <2>6, <2>7 DEF clock_falling_edge
<1>3. <<>> \in Seq({0, 1})  OBVIOUS
<1>4. CASE CardIn
  BY <1>3, <1>4, ContractKept DEF Stores, Loads, CardIn, clean_message, Collecting
<1>5. CASE CardOut
  <2>1. current_state' = "initial" /\ UNCHANGED <<current_character, content>>
    BY <1>5 DEF CardOut, Reject
  <2> QED  BY <1>3, <2>1, ContractKept DEF Stores, Loads, Collecting
<1>6. CASE Call
  <2>1. CASE init_magnetic
    BY <1>3, <2>1, ContractKept DEF Stores, Loads, init_magnetic, reset_FSM, Collecting
  <2>2. CASE enable_reading
    BY <1>3, <2>2, ContractKept DEF Stores, Loads, enable_reading, reset_FSM, Collecting
  <2>3. CASE disable_reading_state
    BY <1>3, <2>3, ContractKept DEF Stores, Loads, disable_reading_state
  <2>4. CASE disable_reading_flag \/ pend_updated
    BY <2>4 DEF disable_reading_flag, pend_updated, fsmVars, ContractInv
  <2> QED  BY <1>6, <2>1, <2>2, <2>3, <2>4 DEF Call
<1>7. CASE UNCHANGED vars
  BY <1>7 DEF vars, fsmVars, ContractInv
<1> QED  BY <1>2, <1>4, <1>5, <1>6, <1>7 DEF Next

\* The phase of the track in each state of the machine.
LEMMA Phases ==
  /\ current_state = "initial" => Phase = "idle"
  /\ current_state = "error" => Phase = "error"
  /\ current_state = "expecting_disable" => Phase = "complete"
  /\ current_state \in {"enabled"} \cup Collecting => Phase = "characters"
BY DEF Phase, Collecting

LEMMA PhasesNext ==
  /\ current_state' = "initial" => Phase' = "idle"
  /\ current_state' = "error" => Phase' = "error"
  /\ current_state' = "expecting_disable" => Phase' = "complete"
  /\ current_state' \in {"enabled"} \cup Collecting => Phase' = "characters"
BY DEF Phase, Collecting

\* The number is a function of content[].
LEMMA NumberUnchanged == ASSUME UNCHANGED content PROVE Number' = Number
BY DEF Number, Digit

LEMMA ClearedNext == ASSUME content' = <<>> PROVE Number' = Contract!BlankId
<1>1. \A i \in Nat : i + 1 \notin DOMAIN content'  OBVIOUS
<1>2. \A i \in Nat : Digit(i)' = 0  BY <1>1 DEF Digit
<1>3. \A i \in 2..ID_SIZE : i \in Nat  BY MagneticAssumption
<1>4. [i \in 2..ID_SIZE |-> Digit(i)'] = [i \in 2..ID_SIZE |-> 0]  BY <1>2, <1>3
<1>5. Digit(1)' = 0  BY <1>2
<1> QED  BY <1>4, <1>5 DEF Number, Contract!BlankId, Contract!ZERO

LEMMA NumberIsIdNext == ASSUME content' \in Seq(Digits) PROVE Number' \in Contract!Id
<1>1. \A i \in DOMAIN content' : content'[i] \in Digits  OBVIOUS
<1>2. 0 \in Digits  BY DEF Digits
<1>3. \A i : Digit(i)' \in Digits  BY <1>1, <1>2 DEF Digit
<1> QED  BY <1>3, Zenon DEF Number, Contract!Id

LEMMA ViewNext ==
  View' = [reading |-> reading', state |-> reading_state', error |-> error',
           content |-> Number', track |-> Phase']
BY DEF View

ContractNext == Contract!ReaderInterrupt \/ Contract!ReaderCall

\* An error met while the card is in the reader.
LEMMA FailStep ==
  ASSUME reading, UNCHANGED reading, Reject, current_state' = "error",
         current_state \in {"enabled", "expecting_disable"} \cup Collecting,
         \/ Announce
         \/ current_state # "expecting_disable" /\ Silent
  PROVE  ContractNext
<1>1. error' = TRUE /\ reading_state' = "INVALID_DATA" /\ Number' = Number /\ Phase' = "error"
  BY NumberUnchanged, PhasesNext DEF Reject
<1>2. Phase \in {"characters", "complete"}
      /\ (current_state # "expecting_disable" => Phase = "characters")
  BY Phases
<1>3. View' = [View EXCEPT !.track = "error", !.error = TRUE, !.state = "INVALID_DATA"]
  <2>1. View' = [reading |-> reading, state |-> "INVALID_DATA", error |-> TRUE,
                 content |-> Number, track |-> "error"]
    BY <1>1, ViewNext
  <2> QED  BY <2>1, ViewReplaced, Zenon
<1>4. CASE Announce
  <2>1. Contract!TrackFail(TRUE)
    BY <1>2, <1>3, <1>4, ViewFields, SamePost, ContractSteps, Zenon
  <2> QED  BY <2>1 DEF ContractNext, Contract!ReaderInterrupt
<1>5. CASE current_state # "expecting_disable" /\ Silent
  <2>1. Contract!TrackFail(FALSE)
    BY <1>2, <1>3, <1>5, ViewFields, ContractSteps, Zenon DEF Silent
  <2> QED  BY <2>1 DEF ContractNext, Contract!ReaderInterrupt
<1> QED  BY <1>4, <1>5

\* A character is stored, the LRC included.
LEMMA StoreStep ==
  ASSUME reading, UNCHANGED <<reading, reading_state, error>>, Silent,
         current_state \in Collecting, content' \in Seq(Digits),
         current_state' \in {"expecting_disable"} \cup Collecting
  PROVE  ContractNext
<1>1. Phase = "characters"  BY Phases
<1>2. Number' \in Contract!Id  BY NumberIsIdNext
<1>3. CASE current_state' = "expecting_disable"
  <2>1. Phase' = "complete"  BY <1>3, PhasesNext
  <2>2. View' = [View EXCEPT !.track = "complete", !.content = Number']
    BY <2>1, ViewNext, ViewReplaced, Zenon
  <2>3. Contract!TrackComplete(Number')
    BY <1>1, <2>2, ViewFields, ContractSteps, Zenon DEF Silent
  <2> QED  BY <1>2, <2>3 DEF ContractNext, Contract!ReaderInterrupt
<1>4. CASE current_state' \in Collecting
  <2>1. Phase' = Phase  BY <1>1, <1>4, PhasesNext
  <2>2. View' = [View EXCEPT !.content = Number']
    BY <2>1, ViewNext, ViewReplaced, Zenon
  <2>3. Contract!TrackRead(Number')
    BY <1>1, <2>2, ViewFields, ContractSteps, Zenon DEF Silent
  <2> QED  BY <1>2, <2>3 DEF ContractNext, Contract!ReaderInterrupt
<1> QED  BY <1>3, <1>4

\* Every edge of the clock line is a step of the contract, or none.
LEMMA ClockRefines ==
  ASSUME ContractInv, ContractInv', NEW bit \in {0, 1}, clock_falling_edge(bit)
  PROVE  ContractNext \/ UNCHANGED <<View, magnetic_updated_sem>>
<1>1. reading /\ UNCHANGED reading  BY DEF clock_falling_edge
<1>2. content' \in Seq(Digits)  BY DEF ContractInv
<1>3. ASSUME current_state \in {"enabled"} \cup Collecting,
             current_state' \in Collecting, UNCHANGED <<content, reading_state, error>>, Silent
      PROVE  UNCHANGED <<View, magnetic_updated_sem>>
  <2>1. Number' = Number  BY <1>3, NumberUnchanged
  <2>2. Phase' = Phase  BY <1>3, Phases, PhasesNext
  <2> QED  BY <1>1, <1>3, <2>1, <2>2 DEF View, Silent
<1>4. CASE /\ current_state = "enabled" /\ current_state' = "expecting_SS"
           /\ UNCHANGED <<content, reading_state, error>> /\ Silent
  BY <1>3, <1>4 DEF Collecting
<1>5. CASE current_state \in Collecting /\ add_data_to_current_character(bit)
  <2>1. PICK w : w = Append(current_character, bit)  OBVIOUS
  <2>2. CASE UNCHANGED <<current_state, content, reading_state, error>> /\ Silent
    BY <1>3, <1>5, <2>2
  <2>3. CASE current_state' = "error" /\ Reject /\ (Announce \/ Silent)
    <3>1. current_state # "expecting_disable"  BY <1>5 DEF Collecting
    <3> QED  BY <1>1, <1>5, <2>3, <3>1, FailStep
  <2>4. CASE Character(w)
    <3>1. CASE current_state' = "error" /\ Reject /\ Announce
      BY <2>3, <3>1
    <3>2. CASE /\ current_state' \in {"expecting_disable"} \cup Collecting
               /\ UNCHANGED <<reading_state, error>> /\ Silent
      BY <1>1, <1>2, <1>5, <3>2, StoreStep
    <3>3. CASE current_state = "expecting_LRC" /\ validate_LRC(w)
      BY <3>1, <3>2, <3>3 DEF validate_LRC
    <3>4. CASE Collect(w)
      <4>1. current_state' \in Collecting  BY <1>5, <3>4 DEF Collect, Collecting
      <4> QED  BY <3>2, <3>4, <4>1 DEF Collect
    <3> QED  BY <2>4, <3>1, <3>3, <3>4 DEF Character
  <2> QED  BY <1>5, <2>1, <2>2, <2>3, <2>4 DEF add_data_to_current_character
<1>6. CASE /\ current_state = "expecting_disable" /\ current_state' = "error"
           /\ Reject /\ Announce
  BY <1>1, <1>6, FailStep
<1> QED  BY <1>4, <1>5, <1>6 DEF clock_falling_edge

\* A card enters or leaves.
LEMMA EnableRefines == ASSUME CardIn \/ CardOut PROVE ContractNext
<1>1. CASE CardIn
  <2>1. /\ reading /\ UNCHANGED reading /\ current_state = "initial"
        /\ current_state' = "enabled" /\ content' = <<>> /\ error' = FALSE
        /\ reading_state' = "READING" /\ Announce
    BY <1>1 DEF CardIn, clean_message
  <2>2. Phase = "idle" /\ Phase' = "characters" /\ Number' = Contract!BlankId
    BY <2>1, Phases, PhasesNext, ClearedNext
  <2>3. View' = [reading |-> reading, state |-> "READING", error |-> FALSE,
                 content |-> Contract!BlankId, track |-> "characters"]
    BY <2>1, <2>2, ViewNext
  <2>4. View' = [View EXCEPT !.track = "characters", !.state = "READING",
                             !.error = FALSE, !.content = Contract!BlankId]
    BY <2>3, ViewReplaced, Zenon
  <2>5. Contract!TrackStart
    BY <2>1, <2>2, <2>4, ViewFields, SamePost, ContractSteps, Zenon
  <2> QED  BY <2>5 DEF ContractNext, Contract!ReaderInterrupt
<1>2. CASE CardOut
  <2>1. reading /\ UNCHANGED reading /\ Phase' = "idle"
    BY <1>2, PhasesNext DEF CardOut
  <2>2. CASE current_state \in {"enabled"} \cup Collecting /\ Reject /\ Announce
    <3>1. Phase = "characters" /\ Number' = Number
      BY <2>2, Phases, NumberUnchanged DEF Reject
    <3>2. View' = [reading |-> reading, state |-> "INVALID_DATA", error |-> TRUE,
                   content |-> Number, track |-> "idle"]
      BY <2>1, <2>2, <3>1, ViewNext DEF Reject
    <3>3. View' = [View EXCEPT !.track = "idle", !.error = TRUE, !.state = "INVALID_DATA"]
      BY <3>2, ViewReplaced, Zenon
    <3>4. Contract!TrackUnfinished
      BY <2>1, <2>2, <3>1, <3>3, ViewFields, SamePost, ContractSteps, Zenon
    <3> QED  BY <3>4 DEF ContractNext, Contract!ReaderInterrupt
  <2>3. CASE /\ current_state = "expecting_disable" /\ Announce
             /\ reading_state' = "NEW_VALID_DATA" /\ UNCHANGED <<content, error>>
    <3>1. Phase = "complete" /\ Number' = Number  BY <2>3, Phases, NumberUnchanged
    <3>2. View' = [reading |-> reading, state |-> "NEW_VALID_DATA", error |-> error,
                   content |-> Number, track |-> "idle"]
      BY <2>1, <2>3, <3>1, ViewNext
    <3>3. View' = [View EXCEPT !.track = "idle", !.state = "NEW_VALID_DATA"]
      BY <3>2, ViewReplaced, Zenon
    <3>4. Contract!TrackValid
      BY <2>1, <2>3, <3>1, <3>3, ViewFields, SamePost, ContractSteps, Zenon
    <3> QED  BY <3>4 DEF ContractNext, Contract!ReaderInterrupt
  <2>4. CASE current_state = "error" /\ UNCHANGED <<content, reading_state, error>> /\ Silent
    <3>1. Phase = "error" /\ Number' = Number  BY <2>4, Phases, NumberUnchanged
    <3>2. View' = [reading |-> reading, state |-> reading_state, error |-> error,
                   content |-> Number, track |-> "idle"]
      BY <2>1, <2>4, <3>1, ViewNext
    <3>3. View' = [View EXCEPT !.track = "idle"]  BY <3>2, ViewReplaced, Zenon
    <3>4. Contract!TrackLeave
      BY <2>1, <2>4, <3>1, <3>3, ViewFields, ContractSteps, Zenon DEF Silent
    <3> QED  BY <3>4 DEF ContractNext, Contract!ReaderInterrupt
  <2> QED  BY <1>2, <2>2, <2>3, <2>4 DEF CardOut
<1> QED  BY <1>1, <1>2

\* A call of the client.
LEMMA CallRefines == ASSUME ContractInv, Call PROVE ContractNext
<1>1. "Task2" \notin magnetic_updated_sem.wait  BY DEF Call
<1>2. SUFFICES \/ Contract!init_magnetic
               \/ View.state # "UNINITIALIZED" /\ ~View.reading /\ Contract!enable_reading
               \/ Contract!disable_reading_state \/ Contract!disable_reading_flag
               \/ Contract!pend_updated
  BY <1>1, ContractSteps, Zenon DEF ContractNext
<1>3. ASSUME reset_FSM
      PROVE  /\ Number' = Contract!BlankId /\ Phase' = "idle" /\ error' = FALSE
             /\ Contract!Updated
  BY <1>3, ClearedNext, PhasesNext, SamePost DEF reset_FSM
<1>4. CASE init_magnetic
  <2>1. reading_state = "UNINITIALIZED" /\ reset_FSM
    BY <1>4 DEF init_magnetic
  <2>2. View' = [reading |-> FALSE, state |-> "DISABLED", error |-> FALSE,
                 content |-> Contract!BlankId, track |-> "idle"]
    BY <1>3, <1>4, <2>1, ViewNext DEF init_magnetic
  <2>3. Contract!init_magnetic  BY <1>3, <2>1, <2>2, ViewFields, ContractSteps, Zenon
  <2> QED  BY <2>3
<1>5. CASE enable_reading
  <2>1. reading_state # "UNINITIALIZED" /\ ~reading /\ reset_FSM
    BY <1>5 DEF enable_reading
  <2>2. View' = [reading |-> TRUE, state |-> "WAITING", error |-> FALSE,
                 content |-> Contract!BlankId, track |-> "idle"]
    BY <1>3, <1>5, <2>1, ViewNext DEF enable_reading
  <2>3. Contract!enable_reading  BY <1>3, <2>1, <2>2, ContractSteps, Zenon
  <2> QED  BY <2>1, <2>3, ViewFields, Zenon
<1>6. CASE disable_reading_state
  <2>1. Number' = Number /\ Phase' = Phase
    BY <1>6 DEF disable_reading_state, Number, Digit, Phase
  <2>2. View' = [reading |-> reading, state |-> "DISABLED", error |-> error,
                 content |-> Number, track |-> Phase]
    BY <1>6, <2>1, ViewNext DEF disable_reading_state
  <2>3. View' = [View EXCEPT !.state = "DISABLED"]
    BY <2>2, ViewReplaced, Zenon
  <2>4. UNCHANGED magnetic_updated_sem  BY <1>6 DEF disable_reading_state
  <2>5. Contract!disable_reading_state  BY <2>3, <2>4, ContractSteps, Zenon
  <2> QED  BY <2>5
<1>7. CASE disable_reading_flag
  <2>1. Number' = Number /\ Phase' = Phase
    BY <1>7 DEF disable_reading_flag, fsmVars, Number, Digit, Phase
  <2>2. View' = [reading |-> FALSE, state |-> reading_state, error |-> error,
                 content |-> Number, track |-> Phase]
    BY <1>7, <2>1, ViewNext DEF disable_reading_flag, fsmVars
  <2>3. View' = [View EXCEPT !.reading = FALSE]
    BY <2>2, ViewReplaced, Zenon
  <2>4. UNCHANGED magnetic_updated_sem  BY <1>7 DEF disable_reading_flag
  <2>5. Contract!disable_reading_flag  BY <2>3, <2>4, ContractSteps, Zenon
  <2> QED  BY <2>5
<1>8. CASE pend_updated
  <2>1. UNCHANGED View  BY <1>8 DEF pend_updated, fsmVars, View, Number, Digit, Phase
  <2>2. magnetic_updated_sem' = Contract!OSSemPend(magnetic_updated_sem, "Task2")
    BY <1>8, SamePend DEF pend_updated
  <2>3. Contract!pend_updated  BY <2>1, <2>2, ContractSteps, Zenon
  <2> QED  BY <2>3
<1> QED  BY <1>4, <1>5, <1>6, <1>7, <1>8 DEF Call

(* Edge by edge the driver of magnetic.c takes only the steps its client    *)
(* relies on: each clock or enable edge and each call, for every set of     *)
(* cards, announces, offers and changes content[] as CardReader says.       *)
THEOREM DriverImplementsReader == Spec => DriverKeepsContract
<1>1. Init => ContractInv
  <2>1. <<>> \in Seq({0, 1}) /\ <<>> \in Seq(Digits)  OBVIOUS
  <2> QED  BY <2>1 DEF Init, ContractInv, Collecting
<1>2. ContractInv /\ [Next]_vars => ContractInv'  BY ContractInvStep
<1>3. Init => Contract!ReaderInit
  <2> SUFFICES ASSUME Init PROVE Contract!ReaderInit
    OBVIOUS
  <2>1. Phase = "idle" /\ Number = Contract!BlankId  BY Phases, Cleared DEF Init
  <2>2. View = [reading |-> FALSE, state |-> "UNINITIALIZED", error |-> FALSE,
                content |-> Contract!BlankId, track |-> "idle"]
    BY <2>1 DEF Init, View
  <2>3. magnetic_updated_sem = Contract!NewSem  BY DEF Init, NewSem, Contract!NewSem
  <2> QED  BY <2>2, <2>3, ContractSteps, Zenon
<1>4. ContractInv /\ ContractInv' /\ [Next]_vars
        => [Contract!ReaderInterrupt \/ Contract!ReaderCall]_(Contract!readerVars)
  <2> SUFFICES ASSUME ContractInv, ContractInv', [Next]_vars
               PROVE  ContractNext \/ UNCHANGED <<View, magnetic_updated_sem>>
    BY ContractSteps, Zenon DEF ContractNext
  <2>1. ASSUME NEW bit \in {0, 1}, clock_falling_edge(bit)
        PROVE  ContractNext \/ UNCHANGED <<View, magnetic_updated_sem>>
    BY <2>1, ClockRefines
  <2>2. CASE CardIn \/ CardOut  BY <2>2, EnableRefines
  <2>3. CASE Call  BY <2>3, CallRefines
  <2>4. CASE UNCHANGED vars
    BY <2>4 DEF vars, fsmVars, View, Number, Digit, Phase
  <2> QED  BY <2>1, <2>2, <2>3, <2>4 DEF Next
<1> QED  BY <1>1, <1>2, <1>3, <1>4, PTL DEF Spec, DriverKeepsContract, Contract!ReaderSpec
=============================================================================
