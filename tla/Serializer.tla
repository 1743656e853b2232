----------------------------- MODULE Serializer -----------------------------
(***************************************************************************)
(* The wire format (src/src/serializer.cpp, src/src/protocol.cpp), byte by *)
(* byte, as pure operators.  The two ceilings are scaled down; everything  *)
(* else has the values of the code.                                        *)
(***************************************************************************)
EXTENDS Integers, Sequences, SequencesExt

CONSTANTS kMaxKeyBytes, kMaxValueBytes

kMagic == 1279480625        \* 0x4C435331
kVersion == 1
kHeaderSize == 24
kMaxFrameBytes == kHeaderSize + kMaxKeyBytes + kMaxValueBytes

Get == 1
Put == 2
Delete == 3
Ping == 4
Stats == 5
Clear == 6

is_valid_opcode(raw) == raw \in {Get, Put, Delete, Ping, Stats, Clear}

\* Mutant: the last status is left out.
is_older_status(raw) == raw \in 0..5

is_valid_status(raw) == raw \in 0..6
opcode_requires_key(op) == op \in {Get, Put, Delete}
opcode_allows_value(op) == op = Put

\* append_u8/u32/u64: w bytes of v, most significant first.
BigEndian(v, w) ==
    LET shifted[k \in 0..w] == IF k = 0 THEN v ELSE shifted[k - 1] \div 256
    IN  [i \in 1..w |-> shifted[w - i] % 256]

\* read_u8/u32/u64 of the w bytes from offset o on (0 is the first byte).
ReadAt(bytes, o, w) == FoldLeft(LAMBDA v, b : v * 256 + b, 0, SubSeq(bytes, o + 1, o + w))

encode_header(op, status, id, key_len, value_len) ==
    BigEndian(kMagic, 4) \o <<kVersion, op, 0, status>> \o BigEndian(id, 8)
        \o BigEndian(key_len, 4) \o BigEndian(value_len, 4)

serialize_request(r) ==
    encode_header(r.opcode, 0, r.id, Len(r.key), Len(r.value)) \o r.key \o r.value

serialize_response(r) == encode_header(r.opcode, r.status, r.id, 0, Len(r.value)) \o r.value

effective_limit(configured, ceiling) == IF configured < ceiling THEN configured ELSE ceiling

NeedMore == [status |-> "need more"]
Malformed(e) == [status |-> "malformed", error |-> e]
Complete(m, n) == [status |-> "complete", message |-> m, consumed |-> n]

\* The error of the first test that fails, in the order the code makes them.
FirstError(tests) ==
    LET failing == {i \in DOMAIN tests : tests[i].fails}
    IN  IF failing = {} THEN "none"
        ELSE tests[CHOOSE i \in failing : \A j \in failing : i <= j].error

Test(fails, error) == [fails |-> fails, error |-> error]

decode_common_header(in) ==
    <<Test(ReadAt(in, 0, 4) # kMagic, "bad magic"),
      Test(ReadAt(in, 4, 1) # kVersion, "unsupported version"),
      Test(~is_valid_opcode(ReadAt(in, 5, 1)), "invalid opcode"),
      Test(ReadAt(in, 6, 1) # 0, "reserved flags")>>

\* The end of both parsers: a verdict on the header, then on the length.
Parsed(in, tests, size, message) ==
    IF FirstError(tests) # "none" THEN Malformed(FirstError(tests))
    ELSE IF Len(in) < size THEN NeedMore
    ELSE Complete(message, size)

\* Mutant: the tests on what an opcode may carry are missing.
PayloadUntested(op, key_len, value_len) == <<>>

PayloadTests(op, key_len, value_len) ==
    <<Test(opcode_requires_key(op) /\ key_len = 0, "missing key"),
      Test(~opcode_requires_key(op) /\ key_len # 0, "payload not allowed"),
      Test(~opcode_allows_value(op) /\ value_len # 0, "payload not allowed")>>

deserialize_request(in, limits) ==
    IF Len(in) < kHeaderSize THEN NeedMore
    ELSE LET op == ReadAt(in, 5, 1)
             key_len == ReadAt(in, 16, 4)
             value_len == ReadAt(in, 20, 4)
             size == kHeaderSize + key_len + value_len
             tests == decode_common_header(in)
                 \o <<Test(ReadAt(in, 7, 1) # 0, "invalid status"),
                      Test(key_len > effective_limit(limits.key, kMaxKeyBytes), "key too large"),
                      Test(value_len > effective_limit(limits.value, kMaxValueBytes),
                           "value too large")>>
                 \o PayloadTests(op, key_len, value_len)
                 \o <<Test(size > kMaxFrameBytes, "value too large")>>
         IN  Parsed(in, tests, size,
                 [opcode |-> op, id |-> ReadAt(in, 8, 8),
                  key |-> SubSeq(in, kHeaderSize + 1, kHeaderSize + key_len),
                  value |-> SubSeq(in, kHeaderSize + key_len + 1, size)])

deserialize_response(in, limits) ==
    IF Len(in) < kHeaderSize THEN NeedMore
    ELSE LET value_len == ReadAt(in, 20, 4)
             size == kHeaderSize + value_len
             tests == decode_common_header(in)
                 \o <<Test(~is_valid_status(ReadAt(in, 7, 1)), "invalid status"),
                      Test(ReadAt(in, 16, 4) # 0, "payload not allowed"),
                      Test(value_len > effective_limit(limits.value, kMaxValueBytes),
                           "value too large")>>
         IN  Parsed(in, tests, size,
                 [opcode |-> ReadAt(in, 5, 1), status |-> ReadAt(in, 7, 1),
                  id |-> ReadAt(in, 8, 8), value |-> SubSeq(in, kHeaderSize + 1, size)])

\* The STATS payload: a count, then the values in the order of kStatsFields.
serialize_stats(values) ==
    BigEndian(Len(values), 2) \o FlattenSeq([i \in DOMAIN values |-> BigEndian(values[i], 8)])

\* A reader that knows "known" fields takes the prefix it shares with the writer
\* and leaves the others at their default.
deserialize_stats(in, known) ==
    LET count == ReadAt(in, 0, 2)
    IN  IF Len(in) < 2 \/ Len(in) < 2 + 8 * count THEN [ok |-> FALSE]
        ELSE [ok |-> TRUE,
              values |-> [i \in 1..known |-> IF i <= count THEN ReadAt(in, 8 * i - 6, 8) ELSE 0]]
=============================================================================
