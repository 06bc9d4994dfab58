-------------------------- MODULE MCCommandOutput --------------------------
(* The commands of a startup and of a card read out, by both protocols: frames of one  *)
(* byte to nine, with and without a byte that nobody has written.                      *)
EXTENDS CommandOutput

CONSTANTS dev1, dev2

Is(proto, id, data) == [protocol |-> proto, id |-> id, data |-> data, control |-> FALSE]
Ack(proto) == [protocol |-> proto, id |-> 6, data |-> <<>>, control |-> TRUE]

set_ms_mode == Is("extended", 240, <<77>>)
si_card6_get == Is("basic", 97, <<6>>)

MCFrame == {set_ms_mode, si_card6_get, Ack("extended"), Ack("basic")}
MCSize == [f \in MCFrame |-> GetSize(f)]
MCFiller == {6, 255}
MCDevice == {dev1, dev2}
OneName == <<dev1>>
=============================================================================
