------------------------- MODULE MCComposeLexString -------------------------
EXTENDS ComposeLexString

(* 'a' (also a hex digit), '0', '1', 'x', '\\', '"' and '\n'. *)
MCAlphabet == {97, 48, 49, 120, 92, 34, 10}
=============================================================================
