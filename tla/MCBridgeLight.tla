--------------------------- MODULE MCBridgeLight ---------------------------
(* Instance of BridgeLight: what a user does with one light, and the plug  *)
(* switched on meanwhile.                                                  *)
EXTENDS BridgeLight

Call(op, b, mireds, rgb, tenths) ==
  [op |-> op, brightness |-> b, mireds |-> mireds, rgb |-> rgb, tenths |-> tenths]

On == Call("on", None, None, None, 0)
Level == Call("on", 128, None, None, 0)
Tone == Call("on", 255, 370, None, 0)
Colour == Call("on", 40, None, 255, 0)
Fade == Call("on", 128, None, None, 2)
Drift == Call("on", None, 153, 200, 1)
Out == Call("off", None, None, None, 0)
FadeOut == Call("off", None, None, None, 2)
Scene == Call("effect", None, None, None, 0)

Asked(l, p) == [light |-> l, plug |-> p]

MCPrograms ==
  {Asked(<<Fade, Level, Out>>, <<>>), Asked(<<Tone, Out>>, <<>>), Asked(<<Colour, Tone>>, <<>>),
   Asked(<<Drift, FadeOut>>, <<>>), Asked(<<Fade, Scene>>, <<>>), Asked(<<On>>, <<TRUE>>)}
=============================================================================
