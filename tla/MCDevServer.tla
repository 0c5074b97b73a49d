---------------------------- MODULE MCDevServer ----------------------------
EXTENDS DevServer, TLC

CONSTANTS b1

MCBrowser == {b1}
=============================================================================
