--------------------------- MODULE MCActionOutbox ---------------------------
(***************************************************************************)
(* Small instances of ActionOutbox.  The three commands are one of each    *)
(* way through the dispatcher: a tap arms the Unity bridge, a text passes  *)
(* the focus barrier before it arms, a restart does neither.               *)
(***************************************************************************)
EXTENDS ActionOutbox, TLC

MCSymmetry == Permutations(Serial) \cup Permutations(Request)

MCArmed == Command \cap {"tap", "text"}
MCVerified == Command \cap {"text"}

\* text and restart carry no payload: create keeps the same envelope for both.
MCEnvelopeOf == [c \in Command |-> IF c = "tap" THEN "point" ELSE "null"]
=============================================================================
