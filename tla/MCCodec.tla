------------------------------ MODULE MCCodec -------------------------------
(***************************************************************************)
(* The messages of raftpb and of etcdserverpb, with the tables of both.    *)
(***************************************************************************)
EXTENDS Codec, RaftpbMessages, EtcdserverpbMessages, TLC

AllStructs == RaftpbStructs @@ EtcdStructs
AllMarshalTo == RaftpbMarshalTo @@ EtcdMarshalTo
AllSize == RaftpbSize @@ EtcdSize
AllUnmarshal == RaftpbUnmarshal @@ EtcdUnmarshal
AllTypes == RaftpbTypes \cup EtcdTypes
=============================================================================
