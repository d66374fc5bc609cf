------------------------------ MODULE MCFormats ------------------------------
(***************************************************************************)
(* What is written in files and messages and how it is read again, one     *)
(* format at a time: a behaviour is one of a part, and the variables of    *)
(* the others keep their first values.                                     *)
(***************************************************************************)
EXTENDS LogFormat, FileNames, Coding, Iterators, SSTable, Nanopb, TLC

VARIABLE part
partVars == <<logVars, nameVars, batchVars, editVars, iterVars, tableVars, pbVars, part>>

Parts == {"log", "name", "batch", "edit", "iterator", "table", "message"}
-----------------------------------------------------------------------------
(* The instances.                                                          *)
MCLogRecords == {<<1>>, <<2, 1, 1>>, <<1, 2, 1, 2, 1, 2>>}

\* two or three digits with a prefix or a suffix that may be wrong, and no digits
MCOtherNames ==
  LET digits == {<<>>} \cup [1 .. 2 -> {0, 5, 9}] \cup [1 .. 3 -> {0, 2, 5, 6}]
  IN  {Name(p, d, r) : p \in {"", "MANIFEST-", "lost"}, d \in digits,
                       r \in {"", ".log", ".ldb", ".dbtmp", ".bak"}}
        \cup {Name(p, <<>>, "") : p \in Unnumbered}

MCBatchKeys == {<<>>, <<1, 129>>}
Scalar(name, v) == [kind |-> name, value |-> v]
Pointer(level, key) == [kind |-> "pointer", level |-> level, key |-> key]
Deleted(level, number) == [kind |-> "deleted", level |-> level, number |-> number]
NewFile(level, number, size, smallest, largest) ==
  [kind |-> "file", level |-> level,
   meta |-> [number |-> number, size |-> size, smallest |-> smallest, largest |-> largest]]
MCEditFields ==
  {Scalar("comparator", <<65>>), Scalar("log", 130), Scalar("nextFile", 16777215),
   Scalar("lastSequence", 16384), Pointer(1, <<7>>), Deleted(6, 200),
   NewFile(0, 5, 70000, <<1, 2>>, <<128>>)}

\* every way to write the keys in turn and to divide the entries among the
\* memtable and a file of level 0, or a level with a file for every entry
WriteOf(i, w) == IKey(w[1][1], i, w[1][2])
Writes(writes, keys, types) == [writes -> (keys \X types) \X BOOLEAN]
InMem(w) == {WriteOf(i, w[i]) : i \in {j \in DOMAIN w : w[j][2]}}
InFiles(w) == {WriteOf(i, w[i]) : i \in {j \in DOMAIN w : ~w[j][2]}}
OneFile(w) ==
  [mems |-> <<InMem(w)>>, lower |-> << >>,
   level0 |-> IF InFiles(w) = {} THEN << >> ELSE <<InFiles(w)>>]
FileForEach(w) ==
  LET entries == SetToSortSeq(InFiles(w), Before)
  IN  [mems |-> <<InMem(w)>>, level0 |-> << >>,
       lower |-> << << >>, [i \in DOMAIN entries |-> {entries[i]}] >>]
MCIterVersions ==
  LET few == Writes(1 .. 3, {1, 2}, {kTypeDeletion, kTypeValue})
      many == {w \in Writes(1 .. 4, {1, 2, 3}, {kTypeValue}) : InMem(w) = {}}
  IN  {OneFile(w) : w \in few} \cup {FileForEach(w) : w \in few \cup many}

MCTableKeys ==
  {<<0, 2>>, <<0, 1>>, <<0, 1, 2>>, <<0, 1, 1>>, <<1, 0, 1>>, <<2, 1>>, <<2, 2, 1>>}
OptionsOf(size, interval, filter) == [blockSize |-> size, interval |-> interval, filter |-> filter]
MCTableOptionSets ==
  {OptionsOf(1, 1, TRUE), OptionsOf(14, 2, TRUE), OptionsOf(14, 1, FALSE),
   OptionsOf(100, 2, TRUE)}

MCBits == (1 :> 3) @@ (2 :> 5) @@ (4 :> 9) @@ (8 :> 18)
MCFixedBytes == ("fixed32" :> 2) @@ ("fixed64" :> 3)
Simple(tag, ltype, htype, size) == PbField(tag, ltype, htype, "static", size, 0, FALSE, "", <<>>)
HasField(tag, ltype, size) == PbField(tag, ltype, "optional", "static", size, 0, TRUE, "", <<>>)
Repeated(tag, ltype, size, max, sub) ==
  PbField(tag, ltype, "repeated", "static", size, max, FALSE, sub, <<>>)
Sub(tag, htype, hasOffset, sub) ==
  PbField(tag, "submessage", htype, "static", 1, 0, hasOffset, sub, <<>>)
MCMessageTypes ==
  "numbers" :> <<Simple(1, "varint", "required", 4), HasField(2, "svarint", 1),
                 Simple(3, "uvarint", "optional", 2), Simple(17, "varint", "optional", 8)>>
  @@ "strings" :> <<Simple(1, "fixed32", "required", 4), Simple(2, "string", "optional", 3),
                 HasField(3, "bytes", 6), Simple(4, "fixed_length_bytes", "required", 2)>>
  @@ "arrays" :> <<Repeated(1, "uvarint", 4, 2, ""), Repeated(2, "submessage", 1, 2, "item"),
                 Repeated(3, "fixed64", 8, 2, "")>>
  @@ "item" :> <<Simple(1, "uvarint", "required", 1), HasField(2, "varint", 2)>>
  @@ "nested" :> <<Sub(1, "optional", TRUE, "item"), Sub(2, "oneof", FALSE, "item"),
                 Simple(3, "uvarint", "oneof", 1), Sub(4, "optional", FALSE, "item")>>
  @@ "open" :> <<PbField(1, "uvarint", "repeated", "callback", 8, 0, FALSE, "", <<>>),
                 PbField(10, "extension", "optional", "callback", 8, 0, FALSE, "",
                         <<Simple(11, "svarint", "required", 4), Sub(12, "required", FALSE, "item")>>),
                 Simple(2, "uvarint", "required", 1)>>
Msg(val, has) == [val |-> val, has |-> has]
Item(n) == Msg(<<n, 0>>, {})
ItemWith(n, k) == Msg(<<n, k>>, {2})
Call(items) == [fn |-> TRUE, items |-> items]
Ext(v) == [found |-> FALSE, v |-> v]
MCPbMessages ==
  "numbers" :> {Msg(<<-256, 0, 31, 0>>, {}), Msg(<<255, -4, 0, -131072>>, {2}), Msg(<<0, 3, 1, 131071>>, {2})}
  @@ "strings" :> {Msg(<<500, <<7>>, <<>>, <<0, 1>>>>, {}), Msg(<<0, <<>>, <<0, 1>>, <<0, 0>>>>, {3}),
                   Msg(<<8, <<1, 2>>, <<>>, <<2, 2>>>>, {3})}
  @@ "arrays" :> {Msg(<< <<>>, <<Item(1)>>, <<70000>> >>, {}), Msg(<< <<300, 0>>, <<>>, <<>> >>, {}),
                  Msg(<< <<1>>, <<ItemWith(7, -16), Item(0)>>, <<>> >>, {})}
  @@ "nested" :> {Msg(<<Item(0), Item(3), 0, Item(0)>>, {1, 2}), Msg(<<Item(0), Item(0), 5, Item(0)>>, {3}),
                  Msg(<<ItemWith(1, 2), ItemWith(2, 2), 0, ItemWith(2, 1)>>, {1, 2}), Msg(<<Item(0), Item(0), 0, Item(2)>>, {})}
  @@ "open" :> {Msg(<<Call(<<1, 200>>), <<Ext(-3), Ext(ItemWith(1, 15))>>, 1>>, {}),
                Msg(<<Call(<<>>), <<Ext(0), Ext(Item(0))>>, 0>>, {})}
MCUnknownFields == {<<160, 3, 129, 0>>, <<162, 3, 2, 8, 255>>, <<161, 3, 1, 2, 3>>, <<165, 3, 8, 0>>}
-----------------------------------------------------------------------------
\* where a part stays that is not run
FirstVersion == CHOOSE v \in IterVersions : TRUE
FirstOptions == CHOOSE o \in TableOptionSets : TRUE

FormatsInit ==
  /\ part \in Parts
  /\ LogInit /\ NameInit /\ BatchInit /\ EditInit
  /\ IterInit /\ (part # "iterator" => runs = AddIterators(FirstVersion) /\ snapshot = 3)
  /\ TableInit /\ (part # "table" => tableOptions = FirstOptions)
  /\ PbInit /\ (part # "message" => pbType = "numbers" /\ ~pbDelimited)

FormatsNext ==
  /\ UNCHANGED part
  /\ \/ /\ part = "log" /\ LogNext
        /\ UNCHANGED <<nameVars, batchVars, editVars, iterVars, tableVars, pbVars>>
     \/ /\ part = "name" /\ NameNext
        /\ UNCHANGED <<logVars, batchVars, editVars, iterVars, tableVars, pbVars>>
     \/ /\ part = "batch" /\ BatchNext
        /\ UNCHANGED <<logVars, nameVars, editVars, iterVars, tableVars, pbVars>>
     \/ /\ part = "edit" /\ EditNext
        /\ UNCHANGED <<logVars, nameVars, batchVars, iterVars, tableVars, pbVars>>
     \/ /\ part = "iterator" /\ IterNext
        /\ UNCHANGED <<logVars, nameVars, batchVars, editVars, tableVars, pbVars>>
     \/ /\ part = "table" /\ TableStep
        /\ UNCHANGED <<logVars, nameVars, batchVars, editVars, iterVars, pbVars>>
     \/ /\ part = "message" /\ PbNext
        /\ UNCHANGED <<logVars, nameVars, batchVars, editVars, iterVars, tableVars>>

FormatsSpec == FormatsInit /\ [][FormatsNext]_partVars
=============================================================================
