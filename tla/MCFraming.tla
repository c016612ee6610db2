----------------------------- MODULE MCFraming -----------------------------
EXTENDS FramingProperties

(* PICTURE, a line that is its beginning, and a longer one that begins as  *)
(* it does; the longest answer fills response but for one byte.            *)
MCText ==
    [m \in ClientLines \cup Answers |->
        CASE m = "PICTURE" -> <<80, 73>>
          [] m = "PING" -> <<80>>
          [] m = "ROTATE" -> <<80, 84, 73>>
          [] m = "PICTURE_OK" -> <<80, 79>>
          [] m = "PICTURE_ERR" -> <<80, 79, 82>>
          [] m = "FWD_OK" -> <<80>>]
=============================================================================
