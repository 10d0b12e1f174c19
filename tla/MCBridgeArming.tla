--------------------------- MODULE MCBridgeArming ---------------------------
(* Two gestures of one device, a tap and a swipe; somebody else drags. *)
EXTENDS BridgeArming

CONSTANTS tap, swipe, drag

MCShapes  == {tap, swipe, drag}
MCShapeOf == <<tap, swipe>>
=============================================================================
