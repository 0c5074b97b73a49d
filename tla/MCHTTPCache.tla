---------------------------- MODULE MCHTTPCache ----------------------------
EXTENDS HTTPCache

CONSTANTS k1, k2, k3, t1

MCKey == {k1, k2, k3}
MCTag == {t1}
MCSize == {1, 3, 4}
MCAsked == {k1}
MCPrefix == {{k1, k2}}
=============================================================================
