--------------------------- MODULE MCMemoryStorage ---------------------------
(* Small instance of MemoryStorage for TLC. *)
EXTENDS MemoryStorage

MCHardStates == {[Term |-> 0, Vote |-> 0, Commit |-> 0],
                 [Term |-> 1, Vote |-> 1, Commit |-> 1]}
MCEmptyHardState == [Term |-> 0, Vote |-> 0, Commit |-> 0]
=============================================================================
