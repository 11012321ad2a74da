----------------------------- MODULE MCPlayback -----------------------------
EXTENDS Playback

\* A recording of three frames in every condition, and one of a single frame.
MCRecordings ==
    [kind : {"footer", "eof", "cutframe", "cutheader"},
     stamps : {<<0, 1, 3>>, <<2>>}]
    \union [kind : {"cutheader", "footer", "noframes", "notrecord", "absent"},
            stamps : {<<>>}]

\* A recording whose third frame is cut, as a crash leaves it.
MCCutRecordings == [kind : {"cutframe"}, stamps : {<<0, 1, 3>>}]
=============================================================================
