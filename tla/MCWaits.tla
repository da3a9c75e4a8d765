----------------------------- MODULE MCWaits -----------------------------
EXTENDS Waits

\* Two downloads may meet at one destination; an upload meets no other call.
MCMixes == {<<"save", "download">>, <<"upload">>}
=============================================================================
