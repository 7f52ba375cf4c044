----------------------------- MODULE MCDlmsPoll -----------------------------
(* DlmsPoll for TLC, and what the firmware's log says of its start.         *)
EXTENDS DlmsPoll

\* "Starting E570 DLMS poll task..." (main.c:386): the task app_main starts
\* polls the meter, so with a sound line it associates at some time.
MeterReached == <>(state = "CONNECTED")
=============================================================================
