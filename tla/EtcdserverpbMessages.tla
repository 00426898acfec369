------------------------ MODULE EtcdserverpbMessages ------------------------
(***************************************************************************)
(* The messages of etcdserver/etcdserverpb (requests, responses and what   *)
(* is proposed to raft), of mvcc/mvccpb and of auth/authpb, as tables like *)
(* those of RaftpbMessages.  Request and Metadata are proto2 messages, the *)
(* others proto3: MarshalTo and Size leave out a field with a zero value.  *)
(***************************************************************************)
EXTENDS Wire

-----------------------------------------------------------------------------
\* etcdserver.pb.go

\* Request
RequestStruct ==
  [ID |-> Uint64, Method |-> String, Path |-> String, Val |-> String,
   Dir |-> Bool, PrevValue |-> String, PrevIndex |-> Uint64,
   PrevExist |-> BoolPtr, Expiration |-> Int64, Wait |-> Bool,
   Since |-> Uint64, Recursive |-> Bool, Sorted |-> Bool, Quorum |-> Bool,
   Time |-> Int64, Stream |-> Bool, Refresh |-> BoolPtr]
RequestMarshalTo ==
  <<Always("ID", <<\h8>>, "varint"), Always("Method", <<\h12>>, "bytes"),
    Always("Path", <<\h1a>>, "bytes"), Always("Val", <<\h22>>, "bytes"),
    Always("Dir", <<\h28>>, "bool"), Always("PrevValue", <<\h32>>, "bytes"),
    Always("PrevIndex", <<\h38>>, "varint"),
    NonNil("PrevExist", <<\h40>>, "bool"),
    Always("Expiration", <<\h48>>, "varint"), Always("Wait", <<\h50>>, "bool"),
    Always("Since", <<\h58>>, "varint"), Always("Recursive", <<\h60>>, "bool"),
    Always("Sorted", <<\h68>>, "bool"), Always("Quorum", <<\h70>>, "bool"),
    Always("Time", <<\h78>>, "varint"),
    Always("Stream", <<\h80, \h1>>, "bool"),
    NonNil("Refresh", <<\h88, \h1>>, "bool")>>
RequestSize ==
  <<Always("ID", 1, "varint"), Always("Method", 1, "bytes"),
    Always("Path", 1, "bytes"), Always("Val", 1, "bytes"),
    Always("Dir", 1, "bool"), Always("PrevValue", 1, "bytes"),
    Always("PrevIndex", 1, "varint"), NonNil("PrevExist", 1, "bool"),
    Always("Expiration", 1, "varint"), Always("Wait", 1, "bool"),
    Always("Since", 1, "varint"), Always("Recursive", 1, "bool"),
    Always("Sorted", 1, "bool"), Always("Quorum", 1, "bool"),
    Always("Time", 1, "varint"), Always("Stream", 2, "bool"),
    NonNil("Refresh", 2, "bool")>>
RequestTarget ==
  {Case(1, 0, "ID", Uint64), Case(2, 2, "Method", String),
   Case(3, 2, "Path", String), Case(4, 2, "Val", String)}
RequestCondition ==
  {Case(5, 0, "Dir", Bool), Case(6, 2, "PrevValue", String),
   Case(7, 0, "PrevIndex", Uint64), Case(8, 0, "PrevExist", BoolPtr),
   Case(9, 0, "Expiration", Int64), Case(10, 0, "Wait", Bool)}
RequestRead ==
  {Case(11, 0, "Since", Uint64), Case(12, 0, "Recursive", Bool),
   Case(13, 0, "Sorted", Bool), Case(14, 0, "Quorum", Bool),
   Case(15, 0, "Time", Int64)}
RequestFlags == {Case(16, 0, "Stream", Bool), Case(17, 0, "Refresh", BoolPtr)}

\* Metadata
MetadataStruct == [NodeID |-> Uint64, ClusterID |-> Uint64]
MetadataMarshalTo ==
  <<Always("NodeID", <<\h8>>, "varint"),
    Always("ClusterID", <<\h10>>, "varint")>>
MetadataSize ==
  <<Always("NodeID", 1, "varint"), Always("ClusterID", 1, "varint")>>
MetadataUnmarshal ==
  {Case(1, 0, "NodeID", Uint64), Case(2, 0, "ClusterID", Uint64)}

-----------------------------------------------------------------------------
\* raft_internal.pb.go

\* RequestHeader
RequestHeaderStruct ==
  [ID |-> Uint64, Username |-> String, AuthRevision |-> Uint64]
RequestHeaderMarshalTo ==
  <<NonZero("ID", <<\h8>>, "varint"), NonEmpty("Username", <<\h12>>, "bytes"),
    NonZero("AuthRevision", <<\h18>>, "varint")>>
RequestHeaderSize ==
  <<NonZero("ID", 1, "varint"), NonEmpty("Username", 1, "bytes"),
    NonZero("AuthRevision", 1, "varint")>>
RequestHeaderUnmarshal ==
  {Case(1, 0, "ID", Uint64), Case(2, 2, "Username", String),
   Case(3, 0, "AuthRevision", Uint64)}

\* InternalRaftRequest
InternalRaftRequestStruct ==
  [Header |-> Pointer("RequestHeader"), ID |-> Uint64,
   V2 |-> Pointer("Request"), Put |-> Pointer("PutRequest")]
InternalRaftRequestMarshalTo ==
  <<NonZero("ID", <<\h8>>, "varint"), NonNil("V2", <<\h12>>, "Request"),
    NonNil("Put", <<\h22>>, "PutRequest"),
    NonNil("Header", <<\ha2, \h6>>, "RequestHeader")>>
InternalRaftRequestSize ==
  <<NonZero("ID", 1, "varint"), NonNil("V2", 1, "Request"),
    NonNil("Put", 1, "PutRequest"), NonNil("Header", 2, "RequestHeader")>>
InternalRaftRequestV2 ==
  {Case(1, 0, "ID", Uint64), Case(2, 2, "V2", Pointer("Request"))}
InternalRaftRequestPut ==
  {Case(4, 2, "Put", Pointer("PutRequest")),
   Case(100, 2, "Header", Pointer("RequestHeader"))}

-----------------------------------------------------------------------------
\* rpc.pb.go

\* ResponseHeader
ResponseHeaderStruct ==
  [ClusterId |-> Uint64, MemberId |-> Uint64, Revision |-> Int64,
   RaftTerm |-> Uint64]
ResponseHeaderMarshalTo ==
  <<NonZero("ClusterId", <<\h8>>, "varint"),
    NonZero("MemberId", <<\h10>>, "varint"),
    NonZero("Revision", <<\h18>>, "varint"),
    NonZero("RaftTerm", <<\h20>>, "varint")>>
ResponseHeaderSize ==
  <<NonZero("ClusterId", 1, "varint"), NonZero("MemberId", 1, "varint"),
    NonZero("Revision", 1, "varint"), NonZero("RaftTerm", 1, "varint")>>
ResponseHeaderUnmarshal ==
  {Case(1, 0, "ClusterId", Uint64), Case(2, 0, "MemberId", Uint64),
   Case(3, 0, "Revision", Int64), Case(4, 0, "RaftTerm", Uint64)}

\* RangeRequest
RangeRequestStruct ==
  [Key |-> Bytes, RangeEnd |-> Bytes, Limit |-> Int64, Revision |-> Int64,
   SortOrder |-> Enum, SortTarget |-> Enum, Serializable |-> Bool,
   KeysOnly |-> Bool, CountOnly |-> Bool, MinModRevision |-> Int64,
   MaxModRevision |-> Int64, MinCreateRevision |-> Int64,
   MaxCreateRevision |-> Int64]
RangeRequestMarshalTo ==
  <<NonEmpty("Key", <<\ha>>, "bytes"), NonEmpty("RangeEnd", <<\h12>>, "bytes"),
    NonZero("Limit", <<\h18>>, "varint"),
    NonZero("Revision", <<\h20>>, "varint"),
    NonZero("SortOrder", <<\h28>>, "varint"),
    NonZero("SortTarget", <<\h30>>, "varint"),
    IfTrue("Serializable", <<\h38>>, "bool"),
    IfTrue("KeysOnly", <<\h40>>, "bool"),
    IfTrue("CountOnly", <<\h48>>, "bool"),
    NonZero("MinModRevision", <<\h50>>, "varint"),
    NonZero("MaxModRevision", <<\h58>>, "varint"),
    NonZero("MinCreateRevision", <<\h60>>, "varint"),
    NonZero("MaxCreateRevision", <<\h68>>, "varint")>>
RangeRequestSize ==
  <<NonEmpty("Key", 1, "bytes"), NonEmpty("RangeEnd", 1, "bytes"),
    NonZero("Limit", 1, "varint"), NonZero("Revision", 1, "varint"),
    NonZero("SortOrder", 1, "varint"), NonZero("SortTarget", 1, "varint"),
    IfTrue("Serializable", 1, "bool"), IfTrue("KeysOnly", 1, "bool"),
    IfTrue("CountOnly", 1, "bool"), NonZero("MinModRevision", 1, "varint"),
    NonZero("MaxModRevision", 1, "varint"),
    NonZero("MinCreateRevision", 1, "varint"),
    NonZero("MaxCreateRevision", 1, "varint")>>
RangeRequestKeys ==
  {Case(1, 2, "Key", Bytes), Case(2, 2, "RangeEnd", Bytes),
   Case(3, 0, "Limit", Int64), Case(4, 0, "Revision", Int64)}
RangeRequestOptions ==
  {Case(5, 0, "SortOrder", Enum), Case(6, 0, "SortTarget", Enum),
   Case(7, 0, "Serializable", Bool), Case(8, 0, "KeysOnly", Bool),
   Case(9, 0, "CountOnly", Bool), Case(10, 0, "MinModRevision", Int64)}
RangeRequestBounds ==
  {Case(11, 0, "MaxModRevision", Int64),
   Case(12, 0, "MinCreateRevision", Int64),
   Case(13, 0, "MaxCreateRevision", Int64)}

\* RangeResponse
RangeResponseStruct ==
  [Header |-> Pointer("ResponseHeader"), More |-> Bool, Count |-> Int64]
RangeResponseMarshalTo ==
  <<NonNil("Header", <<\ha>>, "ResponseHeader"),
    IfTrue("More", <<\h18>>, "bool"), NonZero("Count", <<\h20>>, "varint")>>
RangeResponseSize ==
  <<NonNil("Header", 1, "ResponseHeader"), IfTrue("More", 1, "bool"),
    NonZero("Count", 1, "varint")>>
RangeResponseUnmarshal ==
  {Case(1, 2, "Header", Pointer("ResponseHeader")), Case(3, 0, "More", Bool),
   Case(4, 0, "Count", Int64)}

\* PutRequest
PutRequestStruct ==
  [Key |-> Bytes, Value |-> Bytes, Lease |-> Int64, PrevKv |-> Bool,
   IgnoreValue |-> Bool, IgnoreLease |-> Bool]
PutRequestMarshalTo ==
  <<NonEmpty("Key", <<\ha>>, "bytes"), NonEmpty("Value", <<\h12>>, "bytes"),
    NonZero("Lease", <<\h18>>, "varint"), IfTrue("PrevKv", <<\h20>>, "bool"),
    IfTrue("IgnoreValue", <<\h28>>, "bool"),
    IfTrue("IgnoreLease", <<\h30>>, "bool")>>
PutRequestSize ==
  <<NonEmpty("Key", 1, "bytes"), NonEmpty("Value", 1, "bytes"),
    NonZero("Lease", 1, "varint"), IfTrue("PrevKv", 1, "bool"),
    IfTrue("IgnoreValue", 1, "bool"), IfTrue("IgnoreLease", 1, "bool")>>
PutRequestPair ==
  {Case(1, 2, "Key", Bytes), Case(2, 2, "Value", Bytes),
   Case(3, 0, "Lease", Int64)}
PutRequestFlags ==
  {Case(4, 0, "PrevKv", Bool), Case(5, 0, "IgnoreValue", Bool),
   Case(6, 0, "IgnoreLease", Bool)}

\* PutResponse
PutResponseStruct ==
  [Header |-> Pointer("ResponseHeader"), PrevKv |-> Pointer("KeyValue")]
PutResponseMarshalTo ==
  <<NonNil("Header", <<\ha>>, "ResponseHeader"),
    NonNil("PrevKv", <<\h12>>, "KeyValue")>>
PutResponseSize ==
  <<NonNil("Header", 1, "ResponseHeader"), NonNil("PrevKv", 1, "KeyValue")>>
PutResponseUnmarshal ==
  {Case(1, 2, "Header", Pointer("ResponseHeader")),
   Case(2, 2, "PrevKv", Pointer("KeyValue"))}

-----------------------------------------------------------------------------
\* test.pb.go

\* Reqat
ReqatStruct == [Ik |-> Uint64]
ReqatMarshalTo == <<NonZero("Ik", <<\h8>>, "varint")>>
ReqatSize == <<NonZero("Ik", 1, "varint")>>
ReqatUnmarshal == {Case(1, 0, "Ik", Uint64)}

-----------------------------------------------------------------------------
\* mvcc/mvccpb/kv.pb.go

\* KeyValue
KeyValueStruct ==
  [Key |-> Bytes, CreateRevision |-> Int64, ModRevision |-> Int64,
   Version |-> Int64, Value |-> Bytes, Lease |-> Int64]
KeyValueMarshalTo ==
  <<NonEmpty("Key", <<\ha>>, "bytes"),
    NonZero("CreateRevision", <<\h10>>, "varint"),
    NonZero("ModRevision", <<\h18>>, "varint"),
    NonZero("Version", <<\h20>>, "varint"),
    NonEmpty("Value", <<\h2a>>, "bytes"),
    NonZero("Lease", <<\h30>>, "varint")>>
KeyValueSize ==
  <<NonEmpty("Key", 1, "bytes"), NonZero("CreateRevision", 1, "varint"),
    NonZero("ModRevision", 1, "varint"), NonZero("Version", 1, "varint"),
    NonEmpty("Value", 1, "bytes"), NonZero("Lease", 1, "varint")>>
KeyValueRevisions ==
  {Case(1, 2, "Key", Bytes), Case(2, 0, "CreateRevision", Int64),
   Case(3, 0, "ModRevision", Int64), Case(4, 0, "Version", Int64)}
KeyValueContent == {Case(5, 2, "Value", Bytes), Case(6, 0, "Lease", Int64)}

\* Event
EventStruct ==
  [Type |-> Enum, Kv |-> Pointer("KeyValue"), PrevKv |-> Pointer("KeyValue")]
EventMarshalTo ==
  <<NonZero("Type", <<\h8>>, "varint"), NonNil("Kv", <<\h12>>, "KeyValue"),
    NonNil("PrevKv", <<\h1a>>, "KeyValue")>>
EventSize ==
  <<NonZero("Type", 1, "varint"), NonNil("Kv", 1, "KeyValue"),
    NonNil("PrevKv", 1, "KeyValue")>>
EventUnmarshal ==
  {Case(1, 0, "Type", Enum), Case(2, 2, "Kv", Pointer("KeyValue")),
   Case(3, 2, "PrevKv", Pointer("KeyValue"))}

-----------------------------------------------------------------------------
\* auth/authpb/auth.pb.go

\* UserAddOptions
UserAddOptionsStruct == [NoPassword |-> Bool]
UserAddOptionsMarshalTo == <<IfTrue("NoPassword", <<\h8>>, "bool")>>
UserAddOptionsSize == <<IfTrue("NoPassword", 1, "bool")>>
UserAddOptionsUnmarshal == {Case(1, 0, "NoPassword", Bool)}
-----------------------------------------------------------------------------
EtcdStructs ==
  [Request |-> RequestStruct,
   Metadata |-> MetadataStruct,
   RequestHeader |-> RequestHeaderStruct,
   InternalRaftRequest |-> InternalRaftRequestStruct,
   ResponseHeader |-> ResponseHeaderStruct,
   RangeRequest |-> RangeRequestStruct,
   RangeResponse |-> RangeResponseStruct,
   PutRequest |-> PutRequestStruct,
   PutResponse |-> PutResponseStruct,
   Reqat |-> ReqatStruct,
   KeyValue |-> KeyValueStruct,
   Event |-> EventStruct,
   UserAddOptions |-> UserAddOptionsStruct]

EtcdMarshalTo ==
  [Request |-> RequestMarshalTo,
   Metadata |-> MetadataMarshalTo,
   RequestHeader |-> RequestHeaderMarshalTo,
   InternalRaftRequest |-> InternalRaftRequestMarshalTo,
   ResponseHeader |-> ResponseHeaderMarshalTo,
   RangeRequest |-> RangeRequestMarshalTo,
   RangeResponse |-> RangeResponseMarshalTo,
   PutRequest |-> PutRequestMarshalTo,
   PutResponse |-> PutResponseMarshalTo,
   Reqat |-> ReqatMarshalTo,
   KeyValue |-> KeyValueMarshalTo,
   Event |-> EventMarshalTo,
   UserAddOptions |-> UserAddOptionsMarshalTo]

EtcdSize ==
  [Request |-> RequestSize,
   Metadata |-> MetadataSize,
   RequestHeader |-> RequestHeaderSize,
   InternalRaftRequest |-> InternalRaftRequestSize,
   ResponseHeader |-> ResponseHeaderSize,
   RangeRequest |-> RangeRequestSize,
   RangeResponse |-> RangeResponseSize,
   PutRequest |-> PutRequestSize,
   PutResponse |-> PutResponseSize,
   Reqat |-> ReqatSize,
   KeyValue |-> KeyValueSize,
   Event |-> EventSize,
   UserAddOptions |-> UserAddOptionsSize]

EtcdUnmarshal ==
  [Request |-> RequestTarget \cup RequestCondition \cup RequestRead \cup RequestFlags,
   Metadata |-> MetadataUnmarshal,
   RequestHeader |-> RequestHeaderUnmarshal,
   InternalRaftRequest |-> InternalRaftRequestV2 \cup InternalRaftRequestPut,
   ResponseHeader |-> ResponseHeaderUnmarshal,
   RangeRequest |-> RangeRequestKeys \cup RangeRequestOptions \cup RangeRequestBounds,
   RangeResponse |-> RangeResponseUnmarshal,
   PutRequest |-> PutRequestPair \cup PutRequestFlags,
   PutResponse |-> PutResponseUnmarshal,
   Reqat |-> ReqatUnmarshal,
   KeyValue |-> KeyValueRevisions \cup KeyValueContent,
   Event |-> EventUnmarshal,
   UserAddOptions |-> UserAddOptionsUnmarshal]

EtcdTypes == DOMAIN EtcdStructs

\* The messages whose struct tags say proto3.
EtcdProto3 == EtcdTypes \ {"Request", "Metadata"}
=============================================================================
