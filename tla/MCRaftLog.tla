------------------------------ MODULE MCRaftLog ------------------------------
(* Small instance of RaftLog for TLC. *)
EXTENDS RaftLog

MCHardStates == {[Term |-> 0, Vote |-> 0, Commit |-> 0]}
MCEmptyHardState == [Term |-> 0, Vote |-> 0, Commit |-> 0]
=============================================================================
