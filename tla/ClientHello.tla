---------------------------- MODULE ClientHello -----------------------------
(***************************************************************************)
(* ClientHelloRewriter::rewrite (ppnt-io/src/net/pptls.cpp) over           *)
(* io::BinaryReader and io::BinartWriter (ppnt-io/src/binary_util.ixx).    *)
(* A message is a sequence of bytes 0..ByteBase-1, most significant first. *)
(***************************************************************************)
EXTENDS Integers, SequencesExt

CONSTANTS ByteBase,      \* 256 in the code; a small base brings 16-bit limits within reach
          RandomLen      \* 32 in the code

ASSUME WidthAssumption == ByteBase \in Nat \ {0, 1} /\ RandomLen \in Nat

\* The largest values of a u8 and a u16.
MaxU8 == ByteBase - 1
MaxU16 == ByteBase * ByteBase - 1

\* The cast to a narrower integer and its bytes.
U8(n) == <<n % ByteBase>>
U16(n) == <<(n \div ByteBase) % ByteBase, n % ByteBase>>
U24(n) == <<(n \div (ByteBase * ByteBase)) % ByteBase>> \o U16(n)

Num(bytes) == FoldLeft(LAMBDA n, b : n * ByteBase + b, 0, bytes)

\* A reader: what the last read returned and what remains.  A read that finds
\* too few bytes fails, and rewrite returns at the first one that does.
Reader(bytes) == [ok |-> TRUE, got |-> <<>>, rest |-> bytes]
Read(r, n) ==
    IF r.ok /\ Len(r.rest) >= n
        THEN [ok |-> TRUE, got |-> SubSeq(r.rest, 1, n), rest |-> SubSeq(r.rest, n + 1, Len(r.rest))]
        ELSE [ok |-> FALSE, got |-> <<>>, rest |-> <<>>]

\* A field of n bytes that holds the length of the field behind it.
ReadPrefixed(r, n) == LET len == Read(r, n) IN Read(len, Num(len.got))

\* The extension loop: while (ex_reader.remaining()).
RECURSIVE ReadExtensions(_, _)
ReadExtensions(r, exts) ==
    IF r.ok /\ r.rest # <<>>
        THEN LET type == Read(r, 2)
                 data == ReadPrefixed(type, 2)
             IN  ReadExtensions(data, Append(exts, [id |-> Num(type.got), data |-> data.got]))
        ELSE [ok |-> r.ok, exts |-> exts]

ParseHello(original) ==
    LET type == Read(Reader(original), 1)
        len == Read(type, 3)
        version == Read(len, 2)
        random == Read(version, RandomLen)
        session_id == ReadPrefixed(random, 1)
        ciphers == ReadPrefixed(session_id, 2)
        compression == ReadPrefixed(ciphers, 1)
        block == ReadPrefixed(compression, 2)
        parsed == ReadExtensions(Reader(block.got), <<>>)
    IN  [ok |-> type.got = <<1>> /\ block.ok /\ parsed.ok, len |-> Num(len.got),
         version |-> version.got, random |-> random.got, session_id |-> session_id.got,
         ciphers |-> ciphers.got, compression |-> compression.got,
         exts |-> parsed.exts, rest |-> block.rest]

\* write_u16_length_prefixed: the length is patched in, cut to 16 bits.
Prefixed16(bytes) == U16(Len(bytes)) \o bytes
WriteExtension(ext) == U16(ext.id) \o Prefixed16(ext.data)

\* The extensions of one entry of spec.extensions: none, or one.
Configured(cfg, exts) ==
    LET matching == SelectSeq(exts, LAMBDA e : e.id = cfg.id)
    IN  CASE cfg.strategy = "Drop" -> <<>>
          [] cfg.strategy = "ForceData" -> <<[id |-> cfg.id, data |-> cfg.data]>>
          [] cfg.strategy = "Auto" -> IF matching = <<>> THEN <<>> ELSE <<Head(matching)>>

\* handled_ext_ids records only the entries that are written.
ExtensionsForgettingDrops(exts, spec) ==
    LET listed == {spec.extensions[i].id : i \in
                      {j \in DOMAIN spec.extensions : spec.extensions[j].strategy # "Drop"}}
    IN  FlattenSeq([i \in DOMAIN spec.extensions |-> Configured(spec.extensions[i], exts)])
            \o SelectSeq(exts, LAMBDA e : e.id \notin listed)

\* The entries of the specification in its order, then the extensions it does
\* not list in the order of the original.
Extensions(exts, spec) ==
    LET handled_ext_ids == {spec.extensions[i].id : i \in DOMAIN spec.extensions}
    IN  FlattenSeq([i \in DOMAIN spec.extensions |-> Configured(spec.extensions[i], exts)])
            \o SelectSeq(exts, LAMBDA e : e.id \notin handled_ext_ids)

\* The lengths behind the length fields of the rewritten message.
CipherBytes(spec) == FlattenSeq([i \in DOMAIN spec.cipher_suites |-> U16(spec.cipher_suites[i])])
ExtensionBytes(exts) == FlattenSeq([i \in DOMAIN exts |-> WriteExtension(exts[i])])

Body(hello, spec) ==
    hello.version \o hello.random \o U8(Len(hello.session_id)) \o hello.session_id
        \o Prefixed16(CipherBytes(spec))
        \o U8(Len(spec.compression_method)) \o spec.compression_method
        \o Prefixed16(ExtensionBytes(Extensions(hello.exts, spec)))

Rejected == [ok |-> FALSE]

rewrite(original, spec) ==
    LET hello == ParseHello(original)
        body == Body(hello, spec)
    IN  IF hello.ok THEN [ok |-> TRUE, bytes |-> <<1>> \o U24(Len(body)) \o body] ELSE Rejected
=============================================================================
