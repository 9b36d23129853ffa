---------------------------- MODULE SpiffsRecovery ----------------------------
\* SPIFFS_check (spiffs_hydrogen.c) on the file system of SpiffsStore: after a
\* reset, which may come at any flash write of a call and at any of the check
\* itself, and on one that was not reset.
EXTENDS SpiffsStore, SpiffsCheck

\* Every pass runs; a reset may hit any of them.
SPIFFS_check ==
    /\ ~starved /\ (Unchecked \/ resets < MaxResets)
    /\ \E s \in {check(Current)} :
          \/ /\ Keep(s)
             /\ files' = IF Unchecked THEN Stored(s.page) ELSE files
             /\ possible' = {}
             /\ checked' = s.res
             /\ UNCHANGED resets
          \/ /\ ResetIn(s, IF Unchecked THEN possible ELSE {files})
             /\ UNCHANGED checked

RecoveryNext == Next \/ SPIFFS_check

RecoverySpec == Init /\ [][RecoveryNext]_vars

\* ---------------------------------- properties -----------------------------------

\* The steps in which a reset file system was checked and the check had room to work.
Checked == Unchecked /\ possible' = {} /\ ~starved'

\* The file was being emptied when the reset came.
Emptied(n) == files[n] # <<>> /\ \E g \in possible : n \in DOMAIN g /\ g[n] = <<>>

\* After a reset at any write of any call the check comes to an end, and meets only
\* pages it has a rule for.
CheckEnds == checked = "OK"

\* A file that is there after a reset and the check has the bytes it had before the
\* interrupted call or those the call may have given it: a check does not mix pages
\* or versions. A file that was being emptied may be left unreadable.
LeftIsRight == [][Checked =>
    \A n \in DOMAIN files' : \/ n \in DOMAIN files /\ Emptied(n)
                            \/ \E g \in possible : n \in DOMAIN g /\ g[n] = files'[n]]_vars

==============================================================================
