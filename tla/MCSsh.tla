-------------------------------- MODULE MCSsh --------------------------------
EXTENDS Ssh

\* Two of them yield at the same time.
MCNodes == 1..2
===============================================================================
