--------------------------- MODULE MCComposeLoader --------------------------
EXTENDS ComposeLoader
=============================================================================
