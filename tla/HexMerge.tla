------------------------------ MODULE HexMerge ------------------------------
(***************************************************************************)
(* merge_files of the build tool (xtask/src/main.rs): several Intel HEX    *)
(* and binary files become one Intel HEX file, with single bytes patched   *)
(* on the way.  A file is the sequence of its records, a memory a function *)
(* from addresses to bytes.  Contents is what a programmer of the standard *)
(* format makes of a file, and Merge is checked against it.                *)
(***************************************************************************)
EXTENDS SequencesExt, FiniteSets, Integers

CONSTANTS
    SEGMENT,     \* 2^16, the addresses of a 16 bit offset
    PARAGRAPH,   \* 2^4, the unit of segment addresses
    CHUNK        \* 32, bytes of a record made of a binary file

ASSUME HexAssumption ==
    /\ {SEGMENT, PARAGRAPH, CHUNK} \subseteq Nat \ {0}
    /\ SEGMENT % PARAGRAPH = 0 /\ SEGMENT % CHUNK = 0

EmptyMemory == [a \in {} |-> a]

(* One memory on top of another: @@ of the module TLC, which has no        *)
(* definition that a proof could use.                                      *)
Over(top, bottom) ==
    [a \in DOMAIN top \cup DOMAIN bottom |-> IF a \in DOMAIN top THEN top[a] ELSE bottom[a]]

Data(offset, value) == [type |-> "Data", offset |-> offset, value |-> value]
ExtendedSegmentAddress(addr) == [type |-> "ExtendedSegmentAddress", addr |-> addr]
ExtendedLinearAddress(addr) == [type |-> "ExtendedLinearAddress", addr |-> addr]
StartSegmentAddress(cs, ip) == [type |-> "StartSegmentAddress", cs |-> cs, ip |-> ip]
StartLinearAddress(addr) == [type |-> "StartLinearAddress", addr |-> addr]
EndOfFile == [type |-> "EndOfFile"]

HexRecords(Byte) ==
    [type : {"Data"}, offset : Nat, value : Seq(Byte) \ {<<>>}]
        \cup [type : {"ExtendedSegmentAddress", "ExtendedLinearAddress", "StartLinearAddress"},
              addr : Nat]
        \cup [type : {"StartSegmentAddress"}, cs : Nat, ip : Nat]
        \cup {EndOfFile}

(* Records of a file without start addresses.                              *)
PlainRecords(Byte) ==
    {r \in HexRecords(Byte) : r.type \notin {"StartSegmentAddress", "StartLinearAddress"}}

(* A file that was written to its end.                                     *)
IsWhole(file) == file # <<>> /\ Last(file) = EndOfFile

Placed(addr, value) == [a \in addr .. (addr + Len(value) - 1) |-> value[a - addr + 1]]

(* The standard: start addresses are where the program begins and load     *)
(* nothing, extended addresses move the base of the offsets behind them.   *)
Load(at, r) ==
    [base   |-> CASE r.type = "ExtendedSegmentAddress" -> r.addr * PARAGRAPH
                  [] r.type = "ExtendedLinearAddress"  -> r.addr * SEGMENT
                  [] OTHER -> at.base,
     memory |-> IF r.type = "Data" THEN Over(Placed(at.base + r.offset, r.value), at.memory)
                ELSE at.memory]

LoadAll(file) ==
    LET at[i \in 0..Len(file)] ==
            IF i = 0 THEN [base |-> 0, memory |-> EmptyMemory] ELSE Load(at[i - 1], file[i])
    IN  at[Len(file)]

Contents(file) == LoadAll(file).memory

-----------------------------------------------------------------------------
(* A record is an address with the bytes there.                            *)

Covers(r, addr) == addr \in r.addr .. (r.addr + Len(r.value) - 1)

(* Both kinds of start address move the upper address here as well.        *)
Read(at, r) ==
    [upper   |-> CASE r.type = "StartSegmentAddress"    -> r.cs * PARAGRAPH + r.ip
                   [] r.type = "ExtendedSegmentAddress" -> r.addr * PARAGRAPH
                   [] r.type \in {"StartLinearAddress", "ExtendedLinearAddress"} ->
                        r.addr * SEGMENT
                   [] OTHER -> at.upper,
     records |-> IF r.type = "Data"
                 THEN Append(at.records, [addr |-> at.upper + r.offset, value |-> r.value])
                 ELSE at.records]

ReadAll(file) ==
    LET at[i \in 0..Len(file)] ==
            IF i = 0 THEN [upper |-> 0, records |-> <<>>] ELSE Read(at[i - 1], file[i])
    IN  at[Len(file)]

ReadIHex(file) == ReadAll(file).records

(* data.chunks(32); the last may be shorter.                               *)
ReadBinary(data, offset) ==
    [i \in 1 .. (Len(data) + CHUNK - 1) \div CHUNK |->
        [addr  |-> offset + (i - 1) * CHUNK,
         value |-> SubSeq(data, (i - 1) * CHUNK + 1,
                          IF i * CHUNK < Len(data) THEN i * CHUNK ELSE Len(data))]]

(* sort_by_key is stable: a record goes behind all that do not come later. *)
Insert(sorted, r) ==
    InsertAt(sorted, 1 + Cardinality({i \in DOMAIN sorted : sorted[i].addr <= r.addr}), r)

Sorted(records) ==
    LET at[i \in 0..Len(records)] == IF i = 0 THEN <<>> ELSE Insert(at[i - 1], records[i])
    IN  at[Len(records)]

(* Mutant: the patches are taken from the front.                           *)
WriteRecordFrontPatch(at, r) ==
    LET upper == r.addr \div SEGMENT
        patched == at.patches # <<>> /\ Covers(r, at.patches[1].addr)
    IN  [upper   |-> upper,
         patches |-> IF patched THEN Tail(at.patches) ELSE at.patches,
         out     |-> at.out
            \o (IF upper # at.upper THEN <<ExtendedLinearAddress(upper)>> ELSE <<>>)
            \o <<Data(r.addr % SEGMENT,
                      IF patched
                      THEN [r.value EXCEPT ![at.patches[1].addr - r.addr + 1] = at.patches[1].value]
                      ELSE r.value)>>]

(* One record of the output.  The next patch is the last of the list, a    *)
(* record gets no more than one, and one that no record covers stays.      *)
WriteRecord(at, r) ==
    LET upper == r.addr \div SEGMENT
        patch == Last(at.patches)
        patched == at.patches # <<>> /\ Covers(r, patch.addr)
    IN  [upper   |-> upper,
         patches |-> IF patched THEN Front(at.patches) ELSE at.patches,
         out     |-> at.out
            \o (IF upper # at.upper THEN <<ExtendedLinearAddress(upper)>> ELSE <<>>)
            \o <<Data(r.addr % SEGMENT,
                      IF patched THEN [r.value EXCEPT ![patch.addr - r.addr + 1] = patch.value]
                      ELSE r.value)>>]

(* The loop over the sorted records, of which the first gives the upper    *)
(* address it begins with.                                                 *)
WriteAll(sorted, patches) ==
    LET first == sorted[1].addr \div SEGMENT
        at[i \in 0..Len(sorted)] ==
            IF i = 0
            THEN [upper |-> first, patches |-> patches, out |-> <<StartLinearAddress(first)>>]
            ELSE WriteRecord(at[i - 1], sorted[i])
    IN  at[Len(sorted)]

(* merge_files, of the records read from the inputs, one after another.    *)
Merge(records, patches) == WriteAll(Sorted(records), patches).out \o <<EndOfFile>>

(* patches_7_3_0 and what it is for: these bytes replaced, all others kept *)
Patched(memory, patches) ==
    [a \in DOMAIN memory |->
        IF \E p \in ToSet(patches) : p.addr = a
        THEN (CHOOSE p \in ToSet(patches) : p.addr = a).value
        ELSE memory[a]]

(* What a list of patches and the records they are for have to be like:    *)
(* each record covers addresses of its own, each patch is in a record, no  *)
(* two are in one, and the last in the list, which comes first, is lowest. *)
Apart(records) ==
    \A i, j \in DOMAIN records : i # j =>
        \A k \in DOMAIN records[i].value : ~Covers(records[j], records[i].addr + k - 1)

PatchesFit(patches, records) ==
    /\ \A i, j \in DOMAIN patches : i < j => patches[i].addr > patches[j].addr
    /\ \A i \in DOMAIN patches : \E r \in ToSet(records) : Covers(r, patches[i].addr)
    /\ \A r \in ToSet(records), i, j \in DOMAIN patches :
        Covers(r, patches[i].addr) /\ Covers(r, patches[j].addr) => i = j
=============================================================================
