---------------------------- MODULE MCCallbackList ----------------------------
EXTENDS CallbackList

\* One of the callbacks has no init and no terminate.
MCHookless == {2}
===============================================================================
