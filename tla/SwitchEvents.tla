---------------------------- MODULE SwitchEvents ----------------------------
(***************************************************************************)
(* What the library makes of the packets of a network once they are        *)
(* decrypted: the switch events of src/src/CasambiBt/_switch.py and the    *)
(* unit states of _parseUnitStates in _client.py. A packet is a sequence   *)
(* of bytes; byte i of the code is data[i + 1] here.                       *)
(***************************************************************************)
EXTENDS Integers, Sequences, FiniteSetsExt

Nibble(b) == b % 16

Size(b) == ((b \div 16) % 16) + 1

(* The byte of the state of a button, ButtonEventType.                     *)
EventOf(b) == CASE b = 1 -> "PRESS" [] b = 2 -> "RELEASE" [] b = 9 -> "HOLD"
                [] b = 12 -> "RELEASE_AFTER_HOLD" [] OTHER -> "UNKNOWN"

(* The number of the button: a code for the messages of type 8; for type   *)
(* 16 the lower half of the parameter, or the upper one if that is 0.      *)
Button(type, param) ==
  IF type = 8 THEN ((Nibble(param) + 2) % 4) + 1
  ELSE IF Nibble(param) = 0 THEN param \div 16 ELSE Nibble(param)

(* _processSwitchMessage. "full" starts at the message for type 16.        *)
EventUnit_First(type, payload) == payload[1]    \* mutant: one layout for both types

EventUnit(type, payload) ==
  IF type = 16 /\ Len(payload) >= 3 THEN payload[3] ELSE payload[1]

Extra(type, payload) ==
  LET from == IF type = 16 /\ Len(payload) >= 3 THEN 4 ELSE 3
  IN  SubSeq(payload, from, Len(payload))

Event(type, payload, full) ==
  CASE type = 8 /\ Len(payload) = 1 -> "UNKNOWN"
    [] type = 8 /\ Len(payload) > 1 ->
         IF (payload[2] \div 2) % 2 = 1 THEN "RELEASE" ELSE "PRESS"
    [] type = 16 /\ Len(full) > 9 -> EventOf(full[10])
    [] OTHER ->
         LET extra == Extra(type, payload)
         IN  IF extra # <<>> /\ extra[1] = 18 THEN "RELEASE" ELSE "UNKNOWN"

SwitchEvent(type, param, payload, full) ==
  [unit |-> EventUnit(type, payload), button |-> Button(type, param),
   event |-> Event(type, payload, full)]

(* The message at a position: a byte that is no message type is skipped to *)
(* find the next one, an incomplete message ends the packet.               *)
NextMessage(data, pos) ==
  IF data[pos] > 128 THEN pos + 1 ELSE pos + 3 + Size(data[pos + 2])

Incomplete(data, pos) == data[pos] <= 128 /\ NextMessage(data, pos) - 1 > Len(data)

EventsAt(data, pos) ==
  IF data[pos] \notin {8, 16} THEN <<>>
  ELSE <<SwitchEvent(data[pos], data[pos + 2],
                     SubSeq(data, pos + 3, NextMessage(data, pos) - 1),
                     SubSeq(data, pos, Min({pos + 10, Len(data)})))>>

parseSwitchEvents(data) ==
  LET from[pos \in 1..(Len(data) + 17)] ==
        IF pos > Len(data) - 2 THEN <<>>
        ELSE IF Incomplete(data, pos) THEN <<>>
        ELSE EventsAt(data, pos) \o from[NextMessage(data, pos)]
  IN  IF data # <<>> /\ data[1] = 41 THEN <<>> ELSE from[1]

(* _parseUnitStates: the extra bytes and the padding the flags announce    *)
(* are skipped; a state that is cut short is delivered as it is.           *)
Bit(b, i) == (b \div 2 ^ i) % 2

Padding(flags) == (flags \div 64) % 4

StateStart(data, pos) ==
  pos + 3 + Bit(data[pos + 1], 2) + Bit(data[pos + 1], 3) + Bit(data[pos + 1], 4)

StateEnd(data, pos) == StateStart(data, pos) + Size(data[pos + 2]) - 1

StateAt(data, pos) ==
  [id     |-> data[pos],
   on     |-> Bit(data[pos + 1], 0) = 1,
   online |-> Bit(data[pos + 1], 1) = 1,
   state  |-> SubSeq(data, StateStart(data, pos), Min({StateEnd(data, pos), Len(data)}))]

NextState_NoPadding(data, pos) ==    \* mutant: the padding is not skipped
  StateEnd(data, pos) + 1

NextState(data, pos) == StateEnd(data, pos) + 1 + Padding(data[pos + 1])

parseUnitStates(data) ==
  LET from[pos \in 1..(Len(data) + 25)] ==
        IF pos > Len(data) - 3 THEN <<>>
        ELSE <<StateAt(data, pos)>> \o from[NextState(data, pos)]
  IN  from[1]
=============================================================================
