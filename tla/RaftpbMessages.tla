--------------------------- MODULE RaftpbMessages ---------------------------
(***************************************************************************)
(* The messages of raft/raftpb/raft.pb.go.  For each message four tables   *)
(* say, separately, what its struct declares, what MarshalTo writes, what  *)
(* Size adds up and what Unmarshal accepts.  That the tables fit together  *)
(* is what module Codec checks.  Every message keeps unknown fields in     *)
(* XXX_unrecognized.  A case on a repeated number also takes wire type 2.  *)
(***************************************************************************)
EXTENDS Wire

\* Entry
EntryStruct ==
  [Term |-> Uint64, Index |-> Uint64, Type |-> Enum, Data |-> Bytes]
EntryMarshalTo ==
  <<Always("Type", <<\h8>>, "varint"), Always("Term", <<\h10>>, "varint"),
    Always("Index", <<\h18>>, "varint"), NonNil("Data", <<\h22>>, "bytes")>>
EntrySize ==
  <<Always("Type", 1, "varint"), Always("Term", 1, "varint"),
    Always("Index", 1, "varint"), NonNil("Data", 1, "bytes")>>
EntryUnmarshal ==
  {Case(1, 0, "Type", Enum), Case(2, 0, "Term", Uint64),
   Case(3, 0, "Index", Uint64), Case(4, 2, "Data", Bytes)}

\* SnapshotMetadata
SnapshotMetadataStruct ==
  [ConfState |-> Embedded("ConfState"), Index |-> Uint64, Term |-> Uint64]
SnapshotMetadataMarshalTo ==
  <<Always("ConfState", <<\ha>>, "ConfState"),
    Always("Index", <<\h10>>, "varint"), Always("Term", <<\h18>>, "varint")>>
SnapshotMetadataSize ==
  <<Always("ConfState", 1, "ConfState"), Always("Index", 1, "varint"),
    Always("Term", 1, "varint")>>
SnapshotMetadataUnmarshal ==
  {Case(1, 2, "ConfState", Embedded("ConfState")), Case(2, 0, "Index", Uint64),
   Case(3, 0, "Term", Uint64)}

\* Snapshot
SnapshotStruct == [Data |-> Bytes, Metadata |-> Embedded("SnapshotMetadata")]
SnapshotMarshalTo ==
  <<NonNil("Data", <<\ha>>, "bytes"),
    Always("Metadata", <<\h12>>, "SnapshotMetadata")>>
SnapshotSize ==
  <<NonNil("Data", 1, "bytes"), Always("Metadata", 1, "SnapshotMetadata")>>
SnapshotUnmarshal ==
  {Case(1, 2, "Data", Bytes),
   Case(2, 2, "Metadata", Embedded("SnapshotMetadata"))}

\* Message
MessageStruct ==
  [Type |-> Enum, To |-> Uint64, From |-> Uint64, Term |-> Uint64,
   LogTerm |-> Uint64, Index |-> Uint64, Entries |-> Repeated("Entry"),
   Commit |-> Uint64, Snapshot |-> Embedded("Snapshot"), Reject |-> Bool,
   RejectHint |-> Uint64, Context |-> Bytes]
MessageMarshalTo ==
  <<Always("Type", <<\h8>>, "varint"), Always("To", <<\h10>>, "varint"),
    Always("From", <<\h18>>, "varint"), Always("Term", <<\h20>>, "varint"),
    Always("LogTerm", <<\h28>>, "varint"), Always("Index", <<\h30>>, "varint"),
    Each("Entries", <<\h3a>>, "Entry"), Always("Commit", <<\h40>>, "varint"),
    Always("Snapshot", <<\h4a>>, "Snapshot"),
    Always("Reject", <<\h50>>, "bool"),
    Always("RejectHint", <<\h58>>, "varint"),
    NonNil("Context", <<\h62>>, "bytes")>>
MessageSize ==
  <<Always("Type", 1, "varint"), Always("To", 1, "varint"),
    Always("From", 1, "varint"), Always("Term", 1, "varint"),
    Always("LogTerm", 1, "varint"), Always("Index", 1, "varint"),
    Each("Entries", 1, "Entry"), Always("Commit", 1, "varint"),
    Always("Snapshot", 1, "Snapshot"), Always("Reject", 1, "bool"),
    Always("RejectHint", 1, "varint"), NonNil("Context", 1, "bytes")>>
MessageRouting ==
  {Case(1, 0, "Type", Enum), Case(2, 0, "To", Uint64),
   Case(3, 0, "From", Uint64), Case(4, 0, "Term", Uint64),
   Case(5, 0, "LogTerm", Uint64), Case(6, 0, "Index", Uint64)}
MessagePayload ==
  {Case(7, 2, "Entries", Repeated("Entry")), Case(8, 0, "Commit", Uint64),
   Case(9, 2, "Snapshot", Embedded("Snapshot")), Case(10, 0, "Reject", Bool)}
MessageHint == {Case(11, 0, "RejectHint", Uint64), Case(12, 2, "Context", Bytes)}

\* HardState
HardStateStruct == [Term |-> Uint64, Vote |-> Uint64, Commit |-> Uint64]
HardStateMarshalTo ==
  <<Always("Term", <<\h8>>, "varint"), Always("Vote", <<\h10>>, "varint"),
    Always("Commit", <<\h18>>, "varint")>>
HardStateSize ==
  <<Always("Term", 1, "varint"), Always("Vote", 1, "varint"),
    Always("Commit", 1, "varint")>>
HardStateUnmarshal ==
  {Case(1, 0, "Term", Uint64), Case(2, 0, "Vote", Uint64),
   Case(3, 0, "Commit", Uint64)}

\* ConfState
ConfStateStruct ==
  [Voters |-> Uint64s, Learners |-> Uint64s, VotersOutgoing |-> Uint64s,
   LearnersNext |-> Uint64s, AutoLeave |-> Bool]
ConfStateMarshalTo ==
  <<Each("Voters", <<\h8>>, "varint"), Each("Learners", <<\h10>>, "varint"),
    Each("VotersOutgoing", <<\h18>>, "varint"),
    Each("LearnersNext", <<\h20>>, "varint"),
    Always("AutoLeave", <<\h28>>, "bool")>>
ConfStateSize ==
  <<Each("Voters", 1, "varint"), Each("Learners", 1, "varint"),
    Each("VotersOutgoing", 1, "varint"), Each("LearnersNext", 1, "varint"),
    Always("AutoLeave", 1, "bool")>>
ConfStateVoters == {Case(1, 0, "Voters", Uint64s)}
ConfStateOthers ==
  {Case(2, 0, "Learners", Uint64s), Case(3, 0, "VotersOutgoing", Uint64s)}
ConfStateNext ==
  {Case(4, 0, "LearnersNext", Uint64s), Case(5, 0, "AutoLeave", Bool)}

\* ConfChange
ConfChangeStruct ==
  [Type |-> Enum, NodeID |-> Uint64, Context |-> Bytes, ID |-> Uint64]
ConfChangeMarshalTo ==
  <<Always("ID", <<\h8>>, "varint"), Always("Type", <<\h10>>, "varint"),
    Always("NodeID", <<\h18>>, "varint"),
    NonNil("Context", <<\h22>>, "bytes")>>
ConfChangeSize ==
  <<Always("ID", 1, "varint"), Always("Type", 1, "varint"),
    Always("NodeID", 1, "varint"), NonNil("Context", 1, "bytes")>>
ConfChangeUnmarshal ==
  {Case(1, 0, "ID", Uint64), Case(2, 0, "Type", Enum),
   Case(3, 0, "NodeID", Uint64), Case(4, 2, "Context", Bytes)}

\* ConfChangeSingle
ConfChangeSingleStruct == [Type |-> Enum, NodeID |-> Uint64]
ConfChangeSingleMarshalTo ==
  <<Always("Type", <<\h8>>, "varint"), Always("NodeID", <<\h10>>, "varint")>>
ConfChangeSingleSize ==
  <<Always("Type", 1, "varint"), Always("NodeID", 1, "varint")>>
ConfChangeSingleUnmarshal ==
  {Case(1, 0, "Type", Enum), Case(2, 0, "NodeID", Uint64)}

\* ConfChangeV2
ConfChangeV2Struct ==
  [Transition |-> Enum, Changes |-> Repeated("ConfChangeSingle"),
   Context |-> Bytes]
ConfChangeV2MarshalTo ==
  <<Always("Transition", <<\h8>>, "varint"),
    Each("Changes", <<\h12>>, "ConfChangeSingle"),
    NonNil("Context", <<\h1a>>, "bytes")>>
ConfChangeV2Size ==
  <<Always("Transition", 1, "varint"), Each("Changes", 1, "ConfChangeSingle"),
    NonNil("Context", 1, "bytes")>>
ConfChangeV2Unmarshal ==
  {Case(1, 0, "Transition", Enum),
   Case(2, 2, "Changes", Repeated("ConfChangeSingle")),
   Case(3, 2, "Context", Bytes)}
-----------------------------------------------------------------------------
RaftpbStructs ==
  [Entry |-> EntryStruct,
   SnapshotMetadata |-> SnapshotMetadataStruct,
   Snapshot |-> SnapshotStruct,
   Message |-> MessageStruct,
   HardState |-> HardStateStruct,
   ConfState |-> ConfStateStruct,
   ConfChange |-> ConfChangeStruct,
   ConfChangeSingle |-> ConfChangeSingleStruct,
   ConfChangeV2 |-> ConfChangeV2Struct]

RaftpbMarshalTo ==
  [Entry |-> EntryMarshalTo,
   SnapshotMetadata |-> SnapshotMetadataMarshalTo,
   Snapshot |-> SnapshotMarshalTo,
   Message |-> MessageMarshalTo,
   HardState |-> HardStateMarshalTo,
   ConfState |-> ConfStateMarshalTo,
   ConfChange |-> ConfChangeMarshalTo,
   ConfChangeSingle |-> ConfChangeSingleMarshalTo,
   ConfChangeV2 |-> ConfChangeV2MarshalTo]

RaftpbSize ==
  [Entry |-> EntrySize,
   SnapshotMetadata |-> SnapshotMetadataSize,
   Snapshot |-> SnapshotSize,
   Message |-> MessageSize,
   HardState |-> HardStateSize,
   ConfState |-> ConfStateSize,
   ConfChange |-> ConfChangeSize,
   ConfChangeSingle |-> ConfChangeSingleSize,
   ConfChangeV2 |-> ConfChangeV2Size]

RaftpbUnmarshal ==
  [Entry |-> EntryUnmarshal,
   SnapshotMetadata |-> SnapshotMetadataUnmarshal,
   Snapshot |-> SnapshotUnmarshal,
   Message |-> MessageRouting \cup MessagePayload \cup MessageHint,
   HardState |-> HardStateUnmarshal,
   ConfState |-> ConfStateVoters \cup ConfStateOthers \cup ConfStateNext,
   ConfChange |-> ConfChangeUnmarshal,
   ConfChangeSingle |-> ConfChangeSingleUnmarshal,
   ConfChangeV2 |-> ConfChangeV2Unmarshal]

RaftpbTypes == DOMAIN RaftpbStructs
=============================================================================
