------------------------------ MODULE ScriptCodec ------------------------------
(***************************************************************************)
(* The bytes of a script: the push instructions of                         *)
(* src/src/bytecode/script_codec.h, the compile-time numbers that are      *)
(* written as such pushes, src/src/bytecode/bytecode_helper_fun.h, and the *)
(* two readers that cut a script into instructions, splitScriptFragment of *)
(* src/src/bytecode/legacy_bytecode_adapter.h and the disassembler         *)
(* src/src/bytecode/script_decoder.cpp.                                    *)
(*                                                                         *)
(* An opcode below PushData1 pushes as many bytes as it says; the three    *)
(* PushData opcodes are followed by a length of one, two and four bytes.   *)
(***************************************************************************)
EXTENDS ScriptNumbers

CONSTANTS
    MaxDirect,     \* 75: the longest payload whose opcode is its length
    MaxSmall,      \* 16: the largest number with an opcode of its own
    Opcodes        \* the other opcodes' names, in the order of their bytes

PushData1 == MaxDirect + 1     \* 0x4c
PushData2 == MaxDirect + 2
PushData4 == MaxDirect + 3
OneNegate == MaxDirect + 4     \* 0x4f
Reserved  == MaxDirect + 5     \* 0x50, which is no push

ASSUME CodecAssumption ==
    /\ MaxDirect \in Nat \ {0}
    /\ MaxSmall \in Nat \ {0}
    /\ Reserved + MaxSmall + Len(Opcodes) < ByteBase
    /\ MaxDirect < ByteBase

OpcodeByte(name) ==
    Reserved + MaxSmall + (CHOOSE k \in DOMAIN Opcodes : Opcodes[k] = name)

IsSmallOpcode(b) == b \in Reserved + 1..Reserved + MaxSmall
MinusOne == SignOfByte + 1     \* 0x81

(* How many bytes of length follow a push opcode.                          *)
LengthBytes(opcode) ==
    CASE opcode = PushData1 -> 1
      [] opcode = PushData2 -> 2
      [] opcode = PushData4 -> 4
      [] OTHER -> 0

LengthField(n, width) == [i \in 1..width |-> (n \div Power[i - 1]) % ByteBase]

legacyPushPrefix(size) ==
    CASE size <= MaxDirect -> <<size>>
      [] size > MaxDirect /\ size < ByteBase -> <<PushData1, size>>
      [] size >= ByteBase /\ size < Power[2] -> <<PushData2>> \o LengthField(size, 2)
      [] size >= Power[2] -> <<PushData4>> \o LengthField(size, 4)

legacySerializedPushSize(size) == Len(legacyPushPrefix(size)) + size

(* The canonical policy has one byte for the numbers that have an opcode.  *)
encodePush(payload, policy) ==
    CASE policy = "canonical" /\ Len(payload) = 1 /\ payload[1] \in 1..MaxSmall ->
             <<Reserved + payload[1]>>
      [] policy = "canonical" /\ payload = <<MinusOne>> -> <<OneNegate>>
      [] OTHER -> legacyPushPrefix(Len(payload)) \o payload

Decoded(error, payload, size) == [error |-> error, payload |-> payload, size |-> size]
Undecoded(error) == Decoded(error, <<>>, 0)

(* A push whose opcode and length are its first bytes.                     *)
HeaderLength(opcode) == 1 + LengthBytes(opcode)

DataPush(bytes, header) ==
    LET length == IF header = 1 THEN bytes[1] ELSE LittleEndian(SubSeq(bytes, 2, header))
    IN  IF Len(bytes) < header THEN Undecoded("truncatedLength")
        ELSE IF Len(bytes) < header + length THEN Undecoded("truncatedPayload")
        ELSE Decoded("none", SubSeq(bytes, header + 1, header + length), header + length)

(* What is canonical is what its own payload would be encoded as.          *)
Minimal(push, bytes) ==
    encodePush(push.payload, "canonical") = SubSeq(bytes, 1, push.size)

Checked(push, bytes, requireCanonical) ==
    IF push.error = "none" /\ requireCanonical /\ ~Minimal(push, bytes)
    THEN Undecoded("nonMinimal") ELSE push

FirstPush(bytes, opcode) ==
    CASE opcode = OneNegate -> Decoded("none", <<MinusOne>>, 1)
      [] IsSmallOpcode(opcode) -> Decoded("none", <<opcode - Reserved>>, 1)
      [] opcode <= PushData4 -> DataPush(bytes, HeaderLength(opcode))
      [] OTHER -> Undecoded("notPush")

decodePushPrefix(bytes, requireCanonical) ==
    IF bytes = <<>> THEN Undecoded("empty")
    ELSE Checked(FirstPush(bytes, bytes[1]), bytes, requireCanonical)

decodePush(bytes, requireCanonical) ==
    LET push == decodePushPrefix(bytes, requireCanonical)
    IN  IF push.error = "none" /\ push.size # Len(bytes)
        THEN Undecoded("trailingBytes") ELSE push
-----------------------------------------------------------------------------
(* Compile-time numbers. The permissive reader takes what is no push for   *)
(* the number's own bytes.                                                 *)

numberToScriptHex(v) ==
    CASE v = 0  -> <<0>>
      [] v = -1 -> <<OneNegate>>
      [] v \in 1..MaxSmall -> <<Reserved + v>>
      [] OTHER  -> encodePush(serializeScriptNum(v), "legacy")

isStrictScriptNumberHex(bytes) ==
    LET push == decodePush(bytes, FALSE)
        data == push.payload
    IN  \/ bytes \in {<<0>>, <<OneNegate>>}
        \/ Len(bytes) = 1 /\ IsSmallOpcode(bytes[1])
        \/ /\ push.error = "none"
           /\ bytes[1] \in 1..PushData4
           /\ Len(data) \in 1..WordBytes + 1
           /\ Len(data) = WordBytes + 1 => data = serializeScriptNum(-SignBit)

(* One byte more than a machine integer has is still read if the number    *)
(* fits; a number that does not fit throws, which makes it 0.              *)
deserializeScriptNumber(data) ==
    LET negative == Last(data) >= SignOfByte
        m == LittleEndian(IF negative THEN Append(Front(data), Last(data) - SignOfByte)
                          ELSE data)
    IN  IF data = <<>> \/ Len(data) > WordBytes + 1 THEN 0
        ELSE IF negative /\ m <= SignBit THEN -m
        ELSE IF ~negative /\ m < SignBit THEN m ELSE 0

scriptHexToNumber(bytes) ==
    LET push == decodePushPrefix(bytes, FALSE)
    IN  deserializeScriptNumber(
            IF bytes[1] \in 1..PushData4 \/ (Len(bytes) = 1 /\ push.error = "none")
            THEN push.payload ELSE bytes)
-----------------------------------------------------------------------------
(* Reading a script.                                                       *)

(* An atom is an instruction at the head of some bytes.                    *)
Atom(kind, data, text) == [kind |-> kind, bytes |-> data, text |-> text]

(* What splitScriptFragment finds there: a push, an opcode, or an error.   *)
AtomOf(push, bytes) ==
    CASE push.error = "none"    -> Atom("push", push.payload, SubSeq(bytes, 1, push.size))
      [] push.error = "notPush" -> Atom("opcode", <<bytes[1]>>, <<bytes[1]>>)
      [] OTHER -> Atom("error", <<>>, bytes)

NextAtom(bytes) == AtomOf(decodePushPrefix(bytes, FALSE), bytes)

(* What decode_instruction finds there: the opcodes of numbers have no     *)
(* operand of their own, and it is the machine that pushes the number.     *)
decode_instruction(bytes) ==
    IF bytes[1] > PushData4 THEN Atom("opcode", <<bytes[1]>>, <<bytes[1]>>)
    ELSE AtomOf(DataPush(bytes, HeaderLength(bytes[1])), bytes)

(* The loop of both readers, over what is left of the script.              *)
Taken(r, atom) ==
    [atoms |-> Append(r.atoms, atom),
     rest  |-> SubSeq(r.rest, Len(atom.text) + 1, Len(r.rest))]

Cut(bytes, Reader(_)) ==
    LET Read(r, byte) == IF r.rest = <<>> THEN r ELSE Taken(r, Reader(r.rest))
    IN  FoldLeft(Read, [atoms |-> <<>>, rest |-> bytes], bytes).atoms

(* The fragment is refused as a whole if any of it cannot be read.         *)
WellRead(atoms) ==
    IF \E k \in DOMAIN atoms : atoms[k].kind = "error" THEN <<>> ELSE atoms
splitScriptFragment(bytes) == WellRead(Cut(bytes, NextAtom))

bytes_to_asm(bytes) == Cut(bytes, decode_instruction)
=============================================================================
