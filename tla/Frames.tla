-------------------------------- MODULE Frames --------------------------------
(***************************************************************************)
(* IProto frames on the wire: what OpenSIPS (cachedb_tarantool_dbase.c)    *)
(* and RTPEngine (tarantool.c) write into a request and read out of the    *)
(* reply.  The server is external: it keeps the bytes of a tuple that      *)
(* IPROTO_REPLACE brings, and encodes the results of a procedure itself,   *)
(* with the keys of a Lua table in any order.  Its headers use the wide    *)
(* forms, whatever the number.  The five bytes of the length in front of a *)
(* frame belong to the connections (the other modules).                    *)
(***************************************************************************)
EXTENDS MsgPack, SequencesExt

\* Keys of the maps and types of requests, as numbers.
IPROTO_REQUEST_TYPE == <<>>
IPROTO_SYNC == <<1>>
IPROTO_SPACE_ID == <<16>>
IPROTO_INDEX_ID == <<17>>
IPROTO_LIMIT == <<18>>
IPROTO_OFFSET == <<19>>
IPROTO_ITERATOR == <<20>>
IPROTO_KEY == <<32>>
IPROTO_TUPLE == <<33>>
IPROTO_FUNCTION_NAME == <<34>>
IPROTO_DATA == <<48>>
IPROTO_SELECT == <<1>>
IPROTO_REPLACE == <<3>>
IPROTO_CALL == <<6>>

\* The bytes of a frame, and the buffers and limits that they meet: hdr_buf of
\* tarantool_set and packet_buf of save_call, with the length in front, and the
\* longest reply of restore_calls.
ByteLen(s) ==
    LET texts == SelectSeq(s, LAMBDA cell : ~IsByte(cell))
    IN  FoldLeft(LAMBDA n, cell : n + cell.len, Len(s) - Len(texts), texts)
HdrBuf == 256
PacketBuf == 2048
MaxReply == 1048576
TooLong(s) == ByteLen(s) > MaxReply

\* A string of the program, and the header of its requests.
Str(s, n) == [text |-> s, len |-> n]
StrCells(s, n) == mp_encode_str(Str(s, n))
Uints(seq) == FlattenSeq([i \in DOMAIN seq |-> mp_encode_uint(seq[i])])
RequestHeader(type, sync) ==
    mp_encode_map(2) \o Uints(<<IPROTO_REQUEST_TYPE, type, IPROTO_SYNC, sync>>)
-----------------------------------------------------------------------------
(***************************************************************************)
(* The server (external)                                                   *)
(***************************************************************************)

\* The cells of each of the next n objects; the elements of an array and the
\* pairs of a map; the value of a key in the body of a request.
ObjectStep(st) ==
    LET rest == mp_next(st.rest)
    IN  [objs |-> Append(st.objs, SubSeq(st.rest, 1, Len(st.rest) - Len(rest))), rest |-> rest]
Objects(s, n) == Times(ObjectStep, [objs |-> <<>>, rest |-> s], n)
ElementsOf(s) == LET a == mp_decode_array(s) IN Objects(a.rest, a.val).objs
Paired(seq) == [i \in 1..Len(seq) \div 2 |-> <<seq[2 * i - 1], seq[2 * i]>>]
PairsOf(s) == LET m == mp_decode_map(s) IN Paired(Objects(m.rest, 2 * m.val).objs)
FieldOf(request, key) ==
    (CHOOSE p \in Range(PairsOf(mp_next(request))) : p[1] = mp_encode_uint(key))[2]

\* Its replies.
Wide(tags, w, d) == Raw(<<tags.wide[w]>> \o Pad(d, w))
Header(code, sync) ==
    mp_encode_map(3) \o mp_encode_uint(IPROTO_REQUEST_TYPE) \o Wide(UintTags, 4, code)
                     \o mp_encode_uint(IPROTO_SYNC) \o Wide(UintTags, 8, sync)
                     \o mp_encode_uint(<<5>>) \o Wide(UintTags, 4, <<80>>)
DataReply(sync, items) ==
    Header(<<>>, sync) \o mp_encode_map(1) \o mp_encode_uint(IPROTO_DATA)
        \o Wide(ArrayTags, 4, Bytes(Len(items))) \o FlattenSeq(items)
Array(items) == mp_encode_array(Len(items)) \o FlattenSeq(items)
-----------------------------------------------------------------------------
(***************************************************************************)
(* OpenSIPS                                                                *)
(***************************************************************************)

\* tarantool_set
set_request(sync, space, attr, now, exp, val) ==
    RequestHeader(IPROTO_REPLACE, sync) \o mp_encode_map(2)
        \o Uints(<<IPROTO_SPACE_ID, space, IPROTO_TUPLE>>)
        \o mp_encode_array(7) \o mp_encode_str(attr) \o StrCells("opensips", 8)
        \o StrCells("active", 6) \o Uints(<<now, now, exp>>) \o mp_encode_str(val)

\* pack_select_header, and the key after it.
get_request(sync, space, attr) ==
    RequestHeader(IPROTO_SELECT, sync) \o mp_encode_map(6)
        \o Uints(<<IPROTO_SPACE_ID, space, IPROTO_INDEX_ID, <<>>, IPROTO_LIMIT, <<1>>,
                   IPROTO_OFFSET, <<>>, IPROTO_ITERATOR, <<>>, IPROTO_KEY>>)
        \o mp_encode_array(1) \o mp_encode_str(attr)

\* check_iproto_status: the first pair that is wrong decides.
StatusStep(st) ==
    LET k == mp_decode_uint(st.rest)
        v == mp_decode_uint(k.rest)
    IN  IF st.rc # 0 \/ st.rest = <<>> THEN st
        ELSE IF k.val = IPROTO_REQUEST_TYPE
        THEN [rc |-> IF v.val = <<>> THEN 0 ELSE -1, rest |-> v.rest, want |-> st.want]
        ELSE IF k.val = IPROTO_SYNC
        THEN [rc |-> IF v.val = st.want THEN 0 ELSE -2, rest |-> v.rest, want |-> st.want]
        ELSE [rc |-> 0, rest |-> mp_next(k.rest), want |-> st.want]
check_iproto_status(s, want) ==
    LET h == mp_decode_map(s)
    IN  Times(StatusStep, [rc |-> 0, rest |-> h.rest, want |-> want], h.val).rc

\* tarantool_get: the header is skipped, then the pairs of the body.
PastPair(s) == mp_next(mp_decode_uint(s).rest)
AfterHeader(s) == LET h == mp_decode_map(s) IN Times(PastPair, h.rest, h.val)
PastStr(s) == mp_decode_str(s).rest
PastUint(s) == mp_decode_uint(s).rest
PastFields(s, strs, uints) == Times(PastUint, Times(PastStr, s, strs), uints)
GetTuple(s, val) ==
    LET t == mp_decode_array(s)
    IN  IF t.val >= 7 THEN mp_decode_str(PastFields(t.rest, 3, 3))
        ELSE IF t.val >= 2 THEN mp_decode_str(PastFields(t.rest, 1, 0))
        ELSE [val |-> val, rest |-> t.rest]
NotFound == [text |-> "not found", len |-> 0]
GetStep(st) ==
    LET k == mp_decode_uint(st.rest)
        a == mp_decode_array(k.rest)
    IN  IF k.val # IPROTO_DATA THEN [st EXCEPT !.rest = mp_next(k.rest)]
        ELSE IF a.val = 0 THEN [st EXCEPT !.rest = a.rest]
        ELSE GetTuple(a.rest, st.val)
tarantool_get(s, sync) ==
    IF check_iproto_status(s, sync) # 0 THEN NotFound
    ELSE LET h == mp_decode_map(AfterHeader(s))
         IN  Times(GetStep, [val |-> NotFound, rest |-> h.rest], h.val).val

\* resolve_space_id: the pairs of the header are all it looks at, and 512 is
\* what remains.
SpaceStep(st) ==
    LET k == mp_decode_uint(st.rest)
        a == mp_decode_array(k.rest)
    IN  IF k.val # IPROTO_DATA THEN [st EXCEPT !.rest = mp_next(k.rest)]
        ELSE IF a.val = 0 THEN [st EXCEPT !.rest = a.rest]
        ELSE mp_decode_uint(a.rest)
resolve_space_id(s) ==
    LET h == mp_decode_map(s)
        found == Times(SpaceStep, [val |-> <<>>, rest |-> h.rest], h.val).val
    IN  IF found = <<>> THEN 512 ELSE Size(found)
-----------------------------------------------------------------------------
(***************************************************************************)
(* RTPEngine                                                               *)
(***************************************************************************)

\* pack_call_upsert.  Nothing compares its length with packet_buf: a Call-ID of
\* some 1.8 kB writes beyond it, and what follows then is not described here.
upsert_request(sync, info) ==
    RequestHeader(IPROTO_CALL, sync) \o mp_encode_map(2)
        \o Uints(<<IPROTO_FUNCTION_NAME>>) \o StrCells("rtpe_call_upsert", 16)
        \o Uints(<<IPROTO_TUPLE>>) \o mp_encode_array(4)
        \o mp_encode_str(info.call_id) \o mp_encode_str(info.node_id)
        \o mp_encode_map(5)
        \o StrCells("caller_ip", 9) \o mp_encode_str(info.caller_ip)
        \o StrCells("caller_port", 11) \o mp_encode_uint(info.caller_port)
        \o StrCells("callee_ip", 9) \o mp_encode_str(info.callee_ip)
        \o StrCells("callee_port", 11) \o mp_encode_uint(info.callee_port)
        \o StrCells("srtp_suite", 10) \o mp_encode_str(info.srtp_suite)
        \o mp_encode_uint(Bytes(3600))

\* The rows that rtpe_call_restore makes of the requests that saved them, on
\* the wire: tables whose keys come in an order of the server's, one of three
\* rotations here, in one array or each in its own.
Rotate(pairs, r) == SubSeq(pairs, r + 1, Len(pairs)) \o SubSeq(pairs, 1, r)
Map(pairs) == mp_encode_map(Len(pairs)) \o FlattenSeq(FlattenSeq(pairs))
Row(args, r) ==
    Map(Rotate(<< <<StrCells("call_id", 7), args[1]>>,
                  <<StrCells("node_id", 7), args[2]>>,
                  <<StrCells("payload", 7), Map(Rotate(PairsOf(args[3]), r))>> >>, r))
RowOf(request, r) == Row(ElementsOf(FieldOf(request, IPROTO_TUPLE)), r)
RestoreReply(requests, r, together, sync) ==
    LET rows == [i \in DOMAIN requests |-> RowOf(requests[i], r)]
    IN  DataReply(sync, IF together THEN <<Array(rows)>>
                        ELSE [i \in DOMAIN rows |-> Array(<<rows[i]>>)])

\* The sizes of cid_buf, nid_buf, c_ip, ce_ip and suite, and what they hold
\* before anything is read.
Room == [call_id |-> 128, node_id |-> 64, caller_ip |-> 64, callee_ip |-> 64, srtp_suite |-> 32]
NoInfo == [call_id |-> NoText, node_id |-> NoText,
           caller_ip |-> Str("0.0.0.0", 7), callee_ip |-> Str("0.0.0.0", 7),
           caller_port |-> <<>>, callee_port |-> <<>>, srtp_suite |-> Str("NONE", 4)]
Ports == {"caller_port", "callee_port"}

\* One pair of a table: a string is copied when its buffer has room for it
\* and the final zero, a pair with an unknown key is skipped.  (strncmp makes
\* do with a prefix of a name; the rows hold whole names.)
Fits_NoZero(name, t) == t.len <= Room[name]
Fits(name, t) == t.len < Room[name]
PairStep(st, names) ==
    LET k == mp_decode_str(st.rest)
        name == k.val.text
        t == mp_decode_str(k.rest)
        n == mp_decode_uint(k.rest)
    IN  IF name \notin names THEN [st EXCEPT !.rest = mp_next(k.rest)]
        ELSE IF name \in Ports
        THEN [info |-> [st.info EXCEPT ![name] = n.val], rest |-> n.rest]
        ELSE [info |-> IF Fits(name, t.val) THEN [st.info EXCEPT ![name] = t.val] ELSE st.info,
              rest |-> t.rest]

\* One pair of the payload.
PayloadStep(st) == PairStep(st, {"caller_ip", "callee_ip", "srtp_suite"} \cup Ports)

\* One pair of a row; the payload is read when it is a map of at most 15 pairs.
RowStep(st) ==
    LET k == mp_decode_str(st.rest)
        p == mp_decode_map(k.rest)
    IN  IF k.val.text = "payload" /\ Byte(k.rest, 1) \in MapTags.first..MapTags.last
        THEN Times(PayloadStep, [st EXCEPT !.rest = p.rest], p.val)
        ELSE PairStep(st, {"call_id", "node_id"})

\* A row.
ReadRow(s) ==
    LET h == mp_decode_map(s) IN Times(RowStep, [info |-> NoInfo, rest |-> h.rest], h.val)

\* One element of the array, and one array of the data.  A row without a
\* Call-ID does not reach the callback, which is taken to answer 0.
ItemStep(st) ==
    LET row == ReadRow(st.rest)
    IN  IF ~Is(MapTags, st.rest) THEN [st EXCEPT !.rest = mp_next(st.rest)]
        ELSE [calls |-> st.calls \cup IF row.info.call_id = NoText THEN {} ELSE {row.info},
              rest |-> row.rest]
GroupStep(st) ==
    LET h == mp_decode_array(st.rest)
    IN  IF Is(ArrayTags, st.rest) THEN Times(ItemStep, [st EXCEPT !.rest = h.rest], h.val)
        ELSE [st EXCEPT !.rest = mp_next(st.rest)]
BodyStep(st) ==
    LET k == mp_decode_uint(st.rest)
        a == mp_decode_array(k.rest)
    IN  IF k.val = IPROTO_DATA THEN Times(GroupStep, [st EXCEPT !.rest = a.rest], a.val)
        ELSE [st EXCEPT !.rest = mp_next(k.rest)]

\* One pair of the header.
SyncStep(st) ==
    LET k == mp_decode_uint(st.rest)
    IN  IF k.val = IPROTO_SYNC THEN mp_decode_uint(k.rest)
        ELSE [st EXCEPT !.rest = mp_next(k.rest)]

\* The header: the sync of the frame, and where the body begins.
ReadHeader(s) ==
    LET h == mp_decode_map(s) IN Times(SyncStep, [val |-> <<>>, rest |-> h.rest], h.val)

\* The body: the calls in its data.
ReadBody(s) ==
    LET b == mp_decode_map(s) IN Times(BodyStep, [calls |-> {}, rest |-> b.rest], b.val).calls

\* rtpe_tarantool_restore_calls, of one frame: the calls that reach the
\* callback, or Stale for a frame of another request, which it reads over, or
\* Closed for one that is too long.
Stale == "stale"
Closed == "closed"
restore_calls(s, sync) ==
    LET head == ReadHeader(s)
    IN  IF TooLong(s) THEN Closed
        ELSE IF head.val # sync THEN Stale
        ELSE ReadBody(head.rest)
=============================================================================
