--------------------------- MODULE MCChannelInput ---------------------------
(* Two one_shot responses that share the command nak, as the startup and the
   readout expectations do, and a permanent one that shares one with the second. *)
EXTENDS ChannelInput

CONSTANTS mode, block, moved,     \* responses
          set_ms, data, removed, nak    \* commands

MCResponse == {mode, block, moved}
MCPermanent == {moved}
MCCommand == {set_ms, data, removed, nak}
MCAccepts == [r \in MCResponse |->
                CASE r = mode -> {set_ms, nak}
                  [] r = block -> {data, removed, nak}
                  [] r = moved -> {removed}]
=============================================================================
