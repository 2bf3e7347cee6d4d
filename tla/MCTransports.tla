---------------------------- MODULE MCTransports ----------------------------
(* Two relays of one mesh, a unit of another, one whose advertisement is   *)
(* too old to name its mesh, some that send their service only, of 16 or   *)
(* 128 bits, one of them a relay, a stranger and a structure cut short.    *)
EXTENDS Transports

Addr(b) == [i \in 1..6 |-> b]
Service    == [kind |-> "service"]
LongService == [kind |-> "long"]
Names(net) == [kind |-> "mesh", head |-> [i \in 1..12 |-> i], mesh |-> net]
Foreign(body) == [kind |-> "other", body |-> body]

Adv(address, sent, rest) == [address |-> address, sent |-> sent, rest |-> rest]

RelayA   == Adv(Addr(161), <<Service, Names(Addr(1))>>, <<>>)
RelayB   == Adv(Addr(162), <<Foreign(<<1, 6>>), Names(Addr(1))>>, <<0, 7>>)
Other    == Adv(Addr(163), <<Service, Names(Addr(2))>>, <<5, 255, 195>>)
Old      == Adv(Addr(164), <<Service, [kind |-> "old", head |-> <<7, 7>>]>>, <<>>)
Bare     == Adv(Addr(165), <<Service>>, <<>>)
LongBare == Adv(Addr(168), <<LongService>>, <<>>)
Unnamed  == Adv(Addr(161), <<LongService>>, <<>>)
Stranger == Adv(Addr(166), <<Foreign(<<3, 10, 24, 77, 77>>), Foreign(<<6>> \o [i \in 1..16 |-> 77]), Foreign(<<255, 76, 0>> \o Addr(1))>>, <<>>)
Cut      == Adv(Addr(167), <<>>, <<22, 255, 195, 3, 1, 2>>)

MCScans == {<<>>, <<RelayA, RelayB, Stranger, Other, RelayA>>, <<Cut, Old, Bare, RelayB, RelayA>>,
            <<LongBare, Unnamed, RelayA>>}

Set(type, host, token, esphome_host, esp, ha) ==
  [type |-> type, host |-> host, token |-> token, esphome_host |-> esphome_host,
   aioesphomeapi |-> esp, homeassistant_api |-> ha]

MCConfigs ==
  {Set("default", FALSE, FALSE, h, e, FALSE) : h, e \in BOOLEAN}
  \cup {Set("esphome", h, FALSE, FALSE, e, FALSE) : h, e \in BOOLEAN}
  \cup {Set("homeassistant", h, TRUE, e, TRUE, a) : h, e, a \in BOOLEAN}
  \cup {Set("bleak", FALSE, FALSE, FALSE, FALSE, FALSE), Set("usb", TRUE, TRUE, TRUE, TRUE, TRUE)}
=============================================================================
