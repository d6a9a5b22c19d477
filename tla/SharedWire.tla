----------------------------- MODULE SharedWire -----------------------------
(***************************************************************************)
(* The sessions of NodeRegistry as frames carry them: what a client reads  *)
(* out of a reply is what another request wrote, for Call-IDs and values   *)
(* of every length at which an encoding changes or a buffer ends.          *)
(***************************************************************************)
EXTENDS NodeRegistry, Frames

CONSTANTS
    IdLengths,      \* lengths of Call-IDs
    ValueLengths    \* lengths of the values that OpenSIPS stores

\* Sizes are below 2^24 in MsgPack; what fits the buffers is far shorter.  A
\* Call-ID is never empty, as SIP demands; restore_calls takes an empty one for
\* a row without.
ASSUME WireAssumption ==
    /\ \A n \in IdLengths \cup ValueLengths : n \in Nat /\ n < 16777216
    /\ 0 \notin IdLengths
    /\ Cardinality(Calls) < 16777216

\* A sync beyond 32 bits, one of an earlier request, a time of four bytes.
sync == <<1, 0, 0, 0, 2>>
earlier == <<1, 0, 0, 0, 1>>
now == <<104, 0, 0, 7>>

\* What RTPEngine saves of a call.
Info(c, len) ==
    [call_id |-> Str(c, len), node_id |-> Str("node", 9),
     caller_ip |-> Str("caller", 15), caller_port |-> Bytes(128),
     callee_ip |-> Str("callee", 39), callee_port |-> Bytes(65535),
     srtp_suite |-> Str("AES_CM_128_HMAC_SHA1_80", 23)]

\* Every reply with these calls is read as they were saved; a Call-ID that
\* cid_buf has no room for does not disturb the others.  The requests fit
\* packet_buf and the reply is one that restore_calls accepts.
RestoreReads(S) ==
    \A len \in [S -> IdLengths], r \in 0..2, together \in BOOLEAN :
        LET infos == SetToSeq({Info(c, len[c]) : c \in S})
            saved == [i \in DOMAIN infos |-> upsert_request(sync, infos[i])]
            own == RestoreReply(saved, r, together, sync)
            other == RestoreReply(saved, r, together, earlier)
        IN  (\A i \in DOMAIN saved : 5 + ByteLen(saved[i]) <= PacketBuf) =>
                /\ ~TooLong(own) =>
                      restore_calls(own, sync) = {i \in Range(infos) : i.call_id.len < 128}
                /\ ~TooLong(other) => restore_calls(other, sync) = Stale
ReadableReplies == UNION {IF RestoreReads(S) THEN {S} ELSE {} : S \in SUBSET Calls}

\* Answers to the question for the space: none, the space of the sessions,
\* another one, an error.
SpaceReplies == {DataReply(sync, <<mp_encode_uint(Bytes(id))>>) : id \in {0, 512, 520}}
                    \cup {Header(<<128, 36>>, sync) \o mp_encode_map(0)}
GetReads ==
    \A idLen \in IdLengths, valLen \in ValueLengths, reply \in SpaceReplies :
        LET space == Bytes(resolve_space_id(reply))
            attr == Str("call", idLen)
            val == IF valLen = 0 THEN NoText ELSE Str("value", valLen)
            set == set_request(sync, space, attr, now, now, val)
            get == get_request(sync, space, attr)
            tuple == FieldOf(set, IPROTO_TUPLE)
            found == /\ \A q \in {set, get} : FieldOf(q, IPROTO_SPACE_ID) = mp_encode_uint(Bytes(512))
                     /\ ElementsOf(FieldOf(get, IPROTO_KEY)) = <<ElementsOf(tuple)[1]>>
            data == IF found THEN <<tuple>> ELSE <<>>
        IN  5 + ByteLen(set) <= HdrBuf =>
                /\ tarantool_get(DataReply(sync, data), sync) = val
                /\ tarantool_get(DataReply(earlier, data), sync) = NotFound
-----------------------------------------------------------------------------
(***************************************************************************)
(* Properties                                                              *)
(***************************************************************************)

\* rtpe_tarantool_restore_calls hands each session that its node saved to the
\* callback as it was saved, addresses and ports included, for every rotation
\* of the keys, either grouping of the rows and all lengths of the Call-IDs, as
\* long as the requests fit packet_buf and the reply is not above a mebibyte.
\* Only a Call-ID of 128 bytes or more is left out, and nothing is taken out
\* of the reply to an earlier request.
RestoredAsSaved == \A n \in Nodes : call_restore(n) \in ReadableReplies

\* tarantool_get returns the value that tarantool_set stored under the same
\* key and that nobody has replaced, empty or as long as hdr_buf has room for,
\* from the space of the sessions, whether resolve_space_id was answered no
\* space, that one, another one or an error; and never out of the reply to an
\* earlier request.
OsReadsOwn ==
    \A c \in Calls \cap DOMAIN rtpe_calls : rtpe_calls[c].payload = "string" => GetReads
=============================================================================
