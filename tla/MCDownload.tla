----------------------------- MODULE MCDownload -----------------------------
(* Small instances of Download for TLC.                                    *)
EXTENDS Download

\* Nothing, a partial copy of the right or of another version, a copy with a
\* hole, and copies of any length up to one chunk too long.
AnyCopy == {NoFile, << >>, <<"right">>, <<"other">>, <<"right", "hole", "right">>,
            <<"other", "right", "right">>, <<"right", "right", "right">>,
            <<"right", "right", "right", "other">>}
=============================================================================
