---------------------------- MODULE MCCheckpoint ----------------------------
(***************************************************************************)
(* Small instances of Checkpoint: two URLs, of which the seed links to the *)
(* other, one or two runs of the process and at most one periodic save.    *)
(***************************************************************************)
EXTENDS Checkpoint, MCCoordinator

TwoURL == {a, b}
ChainWeb == [url \in TwoURL |->
    IF url = a THEN {PageOf(<<b>>, t1, none)} ELSE {PageOf(<<a>>, t2, none)}]
=============================================================================
