------------------------------- MODULE Streams -------------------------------
(***************************************************************************)
(* One direction of one connection: messages are written field by field    *)
(* into a ByteBuffer, framed by RealmSocket::send, and read back field by  *)
(* field from the ByteBuffer that ReadSocket cuts out of the stream.  The  *)
(* format is that of ByteStream.cpp at both ends; the client is taken to   *)
(* read and write it as the server does.                                   *)
(*                                                                         *)
(* Meanwhile a character may be sent to the client in chunks, by the       *)
(* lobby thread, while the discovery thread writes notices to the same     *)
(* socket.                                                                 *)
(*                                                                         *)
(* A byte is a cell that says of which number, text or data it is which    *)
(* part: what is read is right exactly when the cells are those of one     *)
(* thing and all of it.  Partial frames are in Sockets.                    *)
(***************************************************************************)
EXTENDS Integers, Sequences, SequencesExt

CONSTANTS
  TextLength,   (* the characters of each text; text 0 is the empty one     *)
  Number,       (* the values of 32-bit fields                              *)
  Meta,         (* lists of keys and values, pairs of texts                 *)
  Blob,         (* data: sequences of numbers, of which 0 is padding        *)
  MessageId,    (* the packet numbers                                       *)
  Requests,     (* those that REQUEST_EVENT has                             *)
  DataId,       (* that of the chunks of a character                        *)
  Block,        (* the block of the cipher: 16 bytes                        *)
  MaxKeys,      (* the keys a character may have: 4                         *)
  ChunkSize,    (* the bytes of a chunk: 1024                               *)
  MaxFrame,     (* the longest frame that is read: 2048                     *)
  MaxFields,    (* bound on the fields of a message, besides its number     *)
  MaxMessages   (* bound on the messages, besides the chunks                *)

Text == DOMAIN TextLength

ASSUME StreamsAssumption ==
  /\ 0 \in Text /\ TextLength \in [Text -> Nat]
  /\ \A t \in Text : TextLength[t] = 0 <=> t = 0
  /\ Text \subseteq Nat /\ Number \subseteq Nat
  /\ Meta \subseteq Seq(Text \X Text) /\ Blob \subseteq Seq(Nat)
  /\ MessageId \subseteq Nat /\ Requests \subseteq MessageId
  /\ DataId \in Requests
  /\ Block \in Nat \ {0} /\ Block % 2 = 0
  /\ ChunkSize \in Nat \ {0} /\ MaxKeys \in Nat /\ MaxFrame \in Nat
  /\ MaxFields \in Nat /\ MaxMessages \in Nat

VARIABLES
  m_buffer,      \* the ByteBuffer that is written
  m_position,    \* its position: how much was written
  fields,        \* the fields in it
  written,       \* how many messages were sent
  wire,          \* the bytes on their way
  sent,          \* the messages on their way
  m_data,        \* the character that is sent in chunks
  position,      \* how much of it was sent
  finalChunk,    \* the last chunk, which is kept for the answer
  loading,       \* whether it is sent: no, loop, done
  got,           \* the data the client has of it
  complete,      \* the client saw the end of it
  reader,        \* ready, reading, closed, failed
  stream,        \* the ByteBuffer that is read
  offset,        \* its m_position
  plan,          \* the kinds of field that are still to be read
  message,       \* the message that is read
  result         \* what was read of it

writing  == <<m_buffer, m_position, fields, written>>
transit  == <<wire, sent>>
download == <<m_data, position, finalChunk, loading>>
client   == <<got, complete>>
reading  == <<reader, stream, offset, plan, message, result>>
vars     == <<writing, transit, download, client, reading>>

Junk == -1

Kind == {"u16", "u32", "utf8", "utf16", "sz_utf8", "encrypted", "bytes", "meta"}
Cell == [of : {"u8", "u16", "u32", "net", "utf8", "utf16", "cipher", "byte"},
         value : Int, at : Nat]
Value == [kind : Kind, value : Seq(Int)]

Field ==
  [kind : {"u32"}, value : {<<n>> : n \in Number}]
    \cup [kind : {"utf8", "utf16", "sz_utf8", "encrypted"}, value : {<<t>> : t \in Text}]
    \cup [kind : {"bytes"}, value : Blob]
    \cup [kind : {"meta"}, value : Meta]

TypeOK ==
  /\ m_buffer \in Seq(Cell) /\ wire \in Seq(Cell) /\ stream \in Seq(Cell)
  /\ m_position = Len(m_buffer)
  /\ Len(fields) <= MaxFields + 1 /\ written \in 0 .. MaxMessages
  /\ m_data \in Blob /\ position \in 0 .. Len(m_data)
  /\ finalChunk \in Seq(Nat) /\ loading \in {"no", "loop", "done"}
  /\ got \in Seq(Int) /\ complete \in BOOLEAN
  /\ reader \in {"ready", "reading", "closed", "failed"}
  /\ offset \in 0 .. Len(stream)
  /\ plan \in Seq(Kind) /\ result \in Seq(Value)

Init ==
  /\ m_buffer = <<>> /\ m_position = 0 /\ fields = <<>> /\ written = 0
  /\ wire = <<>> /\ sent = <<>>
  /\ m_data \in Blob /\ position = 0 /\ finalChunk = <<>> /\ loading = "no"
  /\ got = <<>> /\ complete = FALSE
  /\ reader = "ready"
  /\ stream = <<>> /\ offset = 0 /\ plan = <<>> /\ message = <<>> /\ result = <<>>

-----------------------------------------------------------------------------
(* The encoding of each kind of field.                                     *)

Cells(of, value, n) == [i \in 1 .. n |-> [of |-> of, value |-> value, at |-> i]]

U32(n) == Cells("u32", n, 4)

Width == [utf8 |-> 1, utf16 |-> 2]

Utf(kind, t) == U32(TextLength[t]) \o Cells(kind, t, Width[kind] * TextLength[t])

Terminated(t) == Cells("utf8", t, TextLength[t]) \o Cells("u8", 0, 1)

Padded(n) == ((n + Block - 1) \div Block) * Block

\* Mutant: the block length does not count the length inside the block.
BlockLength_Bare(n) == n \div 2

BlockLength(n) == (n + 4) \div 2

Aligned(t) == (2 * TextLength[t]) % Block = 0

\* encryptSymmetric copies a text that does not fill its blocks into a vector,
\* and encrypts what is left there when the vector is gone.
Encrypted(t) ==
  LET size == 2 * TextLength[t]
  IN  {U32(BlockLength(Padded(size))) \o U32(size) \o Cells("cipher", c, Padded(size)) :
         c \in IF Aligned(t) THEN {t} ELSE {t, Junk}}

Bytes(d) == U32(Len(d)) \o [i \in 1 .. Len(d) |-> [of |-> "byte", value |-> d[i], at |-> 1]]

Column(kv, c) == FlattenSeq([i \in 1 .. Len(kv) |-> Utf("utf16", kv[i][c])])

Serialized(kv) == U32(Len(kv)) \o Column(kv, 1) \o U32(Len(kv)) \o Column(kv, 2)

Encodings(f) ==
  CASE f.kind = "u16"       -> {Cells("u16", f.value[1], 2)}
    [] f.kind = "u32"       -> {U32(f.value[1])}
    [] f.kind = "utf8"      -> {Utf("utf8", f.value[1])}
    [] f.kind = "utf16"     -> {Utf("utf16", f.value[1])}
    [] f.kind = "sz_utf8"   -> {Terminated(f.value[1])}
    [] f.kind = "encrypted" -> Encrypted(f.value[1])
    [] f.kind = "bytes"     -> {Bytes(f.value)}
    [] f.kind = "meta"      -> {Serialized(f.value)}

-----------------------------------------------------------------------------
(* Writing a message, and putting it on the wire.                          *)

Id(n) == [kind |-> "u16", value |-> <<n>>]

WriteBytes(bytes) ==
  /\ m_buffer' = m_buffer \o bytes
  /\ m_position' = m_position + Len(bytes)

WriteField(f) ==
  /\ Len(fields) <= MaxFields
  /\ fields' = Append(fields, f)
  /\ \E bytes \in Encodings(f) : WriteBytes(bytes)
  /\ UNCHANGED <<written, transit, download, client, reading>>

BeginMessage ==
  /\ fields = <<>> /\ written < MaxMessages
  /\ \E n \in MessageId \ {DataId} : WriteField(Id(n))

Write == fields # <<>> /\ \E f \in Field : WriteField(f)

\* Mutant: the length of a frame does not count itself.
NetSize_Body(n) == n

NetSize(n) == n + 4

Frame(bytes, n) == Cells("net", NetSize(n), 4) \o bytes

Send ==
  /\ fields # <<>>
  /\ wire' = wire \o Frame(m_buffer, m_position)
  /\ sent' = Append(sent, fields)
  /\ m_buffer' = <<>> /\ m_position' = 0 /\ fields' = <<>>
  /\ written' = written + 1
  /\ UNCHANGED <<download, client, reading>>

-----------------------------------------------------------------------------
(* A character is sent in chunks.  The last one is the answer.             *)

Chunk == SubSeq(m_data, position + 1, position + ChunkSize)

LastChunk ==
  LET rest == SubSeq(m_data, position + 1, Len(m_data))
  IN  rest \o [i \in 1 .. ChunkSize - Len(rest) |-> 0]

\* Mutant: a chunk that is full is never the last one.
IsFinal_Short == position + ChunkSize > Len(m_data)

IsFinal == position + ChunkSize >= Len(m_data)

\* Mutant: the position advances by a whole chunk, however much there is.
Advanced_Whole == position + ChunkSize

Advanced == IF IsFinal THEN Len(m_data) ELSE position + ChunkSize

SendData(chunk, end) ==
  LET response == <<Id(DataId), [kind |-> "bytes", value |-> chunk],
                    [kind |-> "u32", value |-> <<end>>]>>
      bytes == Cells("u16", DataId, 2) \o Bytes(chunk) \o U32(end)
  IN  /\ wire' = wire \o Frame(bytes, Len(bytes))
      /\ sent' = Append(sent, response)

BeginLoad ==
  /\ loading = "no" /\ loading' = "loop"
  /\ UNCHANGED <<m_data, position, finalChunk, writing, transit, client, reading>>

KeepFinalChunk ==
  /\ loading = "loop" /\ position < Len(m_data) /\ IsFinal
  /\ finalChunk' = LastChunk
  /\ position' = Advanced
  /\ UNCHANGED <<m_data, loading, writing, transit, client, reading>>

SendChunk ==
  /\ loading = "loop" /\ position < Len(m_data) /\ ~IsFinal
  /\ SendData(Chunk, 0)
  /\ position' = Advanced
  /\ UNCHANGED <<m_data, finalChunk, loading, writing, client, reading>>

\* A character without data has no chunk, and the request has no answer.
Answer ==
  /\ loading = "loop" /\ position >= Len(m_data)
  /\ loading' = "done"
  /\ IF finalChunk # <<>> THEN SendData(finalChunk, 1) ELSE UNCHANGED transit
  /\ UNCHANGED <<m_data, position, finalChunk, writing, client, reading>>

-----------------------------------------------------------------------------
(* The reader cuts a frame off the stream, looks at its number, and hands  *)
(* it to the request that has it, which reads from the start.              *)

PacketSize == wire[1].value

MayRead == PacketSize > 0 /\ PacketSize <= MaxFrame

\* Mutant: the request reads on behind the number.
Rewound_Not == 2

Rewound == 0

TakeFrame ==
  /\ reader = "ready" /\ wire # <<>> /\ MayRead /\ PacketSize <= Len(wire)
  /\ wire' = SubSeq(wire, PacketSize + 1, Len(wire))
  /\ sent' = Tail(sent)
  /\ IF wire[5].value \in Requests
       THEN /\ reader' = "reading"
            /\ stream' = SubSeq(wire, 5, PacketSize)
            /\ offset' = Rewound
            /\ message' = Head(sent)
            /\ plan' = [i \in DOMAIN Head(sent) |-> Head(sent)[i].kind]
            /\ result' = <<>>
       ELSE UNCHANGED reading
  /\ UNCHANGED <<writing, download, client>>

RefuseFrame ==
  /\ reader = "ready" /\ wire # <<>> /\ ~MayRead
  /\ reader' = "closed" /\ message' = Head(sent)
  /\ UNCHANGED <<writing, transit, download, client, stream, offset, plan, result>>

-----------------------------------------------------------------------------
(* Reading the fields.                                                     *)

At(p, n) == SubSeq(stream, p + 1, p + n)

Whole(cells) ==
  cells = Cells(cells[1].of, cells[1].value, Len(cells))

\* A number at the end of the stream is 0 and takes nothing.
After(p, n) == IF p >= Len(stream) THEN p ELSE p + n

IntAt(kind, p, n) ==
  IF p >= Len(stream) THEN 0
  ELSE IF p + n <= Len(stream) /\ Whole(At(p, n)) /\ stream[p + 1].of = kind
         THEN stream[p + 1].value
         ELSE Junk

U32At(p) == IntAt("u32", p, 4)

Body == After(offset, 4)

TextOf(of, n, cells) ==
  LET texts == {t \in Text : /\ TextLength[t] = n
                             /\ cells = Cells(of, t, Len(cells))}
  IN  IF texts = {} THEN Junk ELSE CHOOSE t \in texts : TRUE

EncryptedSize == 2 * U32At(offset) - 4
Cipher == After(Body, 4)

Ends == {i \in offset + 1 .. Len(stream) : stream[i].of = "u8"}

\* Where it does not hold, read_utf8 and read_utf16 throw, or a read goes on
\* behind the buffer.
Readable(kind) ==
  CASE kind = "u16" -> After(offset, 2) <= Len(stream)
    [] kind \in {"u32", "meta"} -> Body <= Len(stream) /\ U32At(offset) # Junk
    [] kind \in {"utf8", "utf16"} ->
         U32At(offset) # Junk /\ Body + Width[kind] * U32At(offset) <= Len(stream)
    [] kind = "sz_utf8" ->
         Ends # {} /\ \A i \in offset + 1 .. Min(Ends) - 1 : stream[i].of = "utf8"
    [] kind = "bytes" ->
         U32At(offset) # Junk /\ Body + U32At(offset) <= Len(stream)
    [] kind = "encrypted" ->
         /\ U32At(offset) # Junk /\ U32At(Body) # Junk
         /\ EncryptedSize >= U32At(Body) /\ Cipher + EncryptedSize <= Len(stream)

Reads(kind) ==
  /\ reader = "reading" /\ plan # <<>> /\ Head(plan) = kind /\ Readable(kind)
  /\ UNCHANGED <<writing, transit, download, client, reader, stream, message>>

Gives(kind, value, p) ==
  /\ result' = Append(result, [kind |-> kind, value |-> value])
  /\ offset' = p

ReadU16 ==
  /\ Reads("u16")
  /\ Gives("u16", <<IntAt("u16", offset, 2)>>, After(offset, 2))
  /\ plan' = Tail(plan)

ReadU32 ==
  /\ Reads("u32")
  /\ Gives("u32", <<U32At(offset)>>, Body)
  /\ plan' = Tail(plan)

ReadUtf ==
  \E kind \in DOMAIN Width :
    LET n == U32At(offset)
        size == Width[kind] * n
    IN  /\ Reads(kind)
        /\ Gives(kind, <<TextOf(kind, n, At(Body, size))>>, Body + size)
        /\ plan' = Tail(plan)

ReadTerminated ==
  LET n == Min(Ends) - 1 - offset
  IN  /\ Reads("sz_utf8")
      /\ Gives("sz_utf8", <<TextOf("utf8", n, At(offset, n))>>, Min(Ends))
      /\ plan' = Tail(plan)

ReadEncrypted ==
  /\ Reads("encrypted")
  /\ Gives("encrypted", <<TextOf("cipher", U32At(Body) \div 2, At(Cipher, EncryptedSize))>>,
           Cipher + EncryptedSize)
  /\ plan' = Tail(plan)

ReadBytes ==
  LET n == U32At(offset)
      byte(c) == IF c.of = "byte" THEN c.value ELSE Junk
  IN  /\ Reads("bytes")
      /\ Gives("bytes", [i \in 1 .. n |-> byte(stream[Body + i])], Body + n)
      /\ plan' = Tail(plan)

\* Mutant: the bound on the keys excludes itself.
InRange_Exclusive(n) == n < MaxKeys

InRange(n) == n <= MaxKeys

\* With too many keys, the rest of the list is left in the stream.
ReadMeta ==
  LET n == U32At(offset)
      strings == [i \in 1 .. n |-> "utf16"]
  IN  /\ Reads("meta")
      /\ Gives("u32", <<n>>, Body)
      /\ plan' = (IF InRange(n) THEN strings \o <<"u32">> \o strings ELSE <<>>) \o Tail(plan)

ReadFails ==
  /\ reader = "reading" /\ plan # <<>> /\ ~Readable(Head(plan))
  /\ reader' = "failed"
  /\ UNCHANGED <<writing, transit, download, client, stream, offset, plan, message, result>>

ClientTakes ==
  IF result[1].value = <<DataId>>
    THEN got' = got \o result[2].value /\ complete' = (result[3].value = <<1>>)
    ELSE UNCHANGED client

EndMessage ==
  /\ reader = "reading" /\ plan = <<>>
  /\ ClientTakes
  /\ reader' = "ready" /\ stream' = <<>> /\ offset' = 0
  /\ message' = <<>> /\ result' = <<>>
  /\ UNCHANGED <<plan, writing, transit, download>>

Next ==
  \/ BeginMessage \/ Write \/ Send
  \/ BeginLoad \/ KeepFinalChunk \/ SendChunk \/ Answer
  \/ TakeFrame \/ RefuseFrame
  \/ ReadU16 \/ ReadU32 \/ ReadUtf \/ ReadTerminated \/ ReadEncrypted \/ ReadBytes \/ ReadMeta
  \/ ReadFails \/ EndMessage

Spec == Init /\ [][Next]_vars

-----------------------------------------------------------------------------
(* Properties.                                                             *)

\* What a reader of the format should find in a field, part by part.
Parts(f) ==
  LET count == [kind |-> "u32", value |-> <<Len(f.value)>>]
      column(c) == [i \in 1 .. Len(f.value) |-> [kind |-> "utf16", value |-> <<f.value[i][c]>>]]
  IN  IF f.kind = "meta"
        THEN <<count>> \o column(1) \o <<count>> \o column(2)
        ELSE <<f>>

Same(read, meant) ==
  \/ read = meant
  \/ /\ meant.kind = "encrypted" /\ ~Aligned(meant.value[1])
     /\ read = [kind |-> "encrypted", value |-> <<Junk>>]

Regular(msg) == \A i \in DOMAIN msg : msg[i].kind = "meta" => Len(msg[i].value) <= MaxKeys

\* What one end writes the other reads, field by field, until the stream is
\* at its end: no length is one too many or too few, no field is skipped or
\* read twice, and a text whose cipher is spoilt spoils nothing after it.
\* A message is refused only when it is too long.
ReadsBack ==
  LET meant == FlattenSeq([i \in DOMAIN message |-> Parts(message[i])])
  IN  /\ Regular(message) =>
           /\ reader # "failed"
           /\ Len(result) <= Len(meant)
           /\ \A i \in DOMAIN result : Same(result[i], meant[i])
           /\ reader = "reading" /\ plan = <<>> =>
                Len(result) = Len(meant) /\ offset = Len(stream)
      /\ reader = "closed" => PacketSize > MaxFrame

\* The client puts the character together from its chunks, whatever notices
\* come in between: never anything but its beginning, once complete all of it
\* and less than a chunk of padding, and complete when all was read.
DataArrives ==
  /\ complete =>
       /\ IsPrefix(m_data, got) /\ Len(got) < Len(m_data) + ChunkSize
       /\ \A i \in Len(m_data) + 1 .. Len(got) : got[i] = 0
  /\ ~complete => IsPrefix(got, m_data)
  /\ loading = "done" /\ m_data # <<>> /\ wire = <<>> /\ reader = "ready" => complete

=============================================================================
