---------------------------- MODULE MCDurableLog ----------------------------
EXTENDS DurableLog
CONSTANTS a, b
MCContent == {a, b}
MCGraph == <<a, b>>
NoHistory == <<disk, pending, ram, pc, cur, job, boot>>  \* sound for IndexVerified
MCDelta == {1, -1}
MCDeltaUp == {1}
=============================================================================
