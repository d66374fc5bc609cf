----------------------------- MODULE FileNames -----------------------------
(***************************************************************************)
(* The names of the files of a database (db/filename.cc): how they are     *)
(* made, and how the name of anything in the directory is read again when  *)
(* a database is opened, cleaned up or repaired.  A name is what comes     *)
(* before its digits, the digits and the rest of it.                       *)
(***************************************************************************)
EXTENDS Integers, Sequences, FiniteSets, SequencesExt

CONSTANTS
  kBase,         \* 10, the base of the digits
  kMaxUint64,    \* the largest file number
  kPadding,      \* digits a number is filled up to with zeros (6)
  FileNumbers,   \* numbers the files made have
  OtherNames     \* names of files nobody of this code made

ASSUME NamesAssumption ==
  /\ kBase \in Nat \ {0, 1} /\ kMaxUint64 \in Nat /\ kPadding \in Nat
  /\ FileNumbers \subseteq 0 .. kMaxUint64
  /\ \A name \in OtherNames : name.digits \in Seq(0 .. kBase - 1)

VARIABLES
  fileName,  \* a name in the directory
  fileOf     \* history: the type and the number it was made for, if any

nameVars == <<fileName, fileOf>>

FileTypes == {"kLogFile", "kTableFile", "kDescriptorFile", "kTempFile"}
Unnumbered == {"CURRENT", "LOCK", "LOG", "LOG.old"}
Name(prefix, digits, rest) == [prefix |-> prefix, digits |-> digits, rest |-> rest]
Nothing == [type |-> "none", number |-> 0]
File(type, number) == [type |-> type, number |-> number]
-----------------------------------------------------------------------------
(* MakeFileName, DescriptorFileName: the digits, at least kPadding; above  *)
(* has what is left of the number without its last digits.                 *)
DigitsOf(number) ==
  LET above[i \in 0 .. number + kPadding + 1] ==
        IF i = 0 THEN number ELSE above[i - 1] \div kBase
      length == CHOOSE n \in 1 .. number + 1 :
                  above[n] = 0 /\ (n > 1 => above[n - 1] # 0)
      width == IF length < kPadding THEN kPadding ELSE length
  IN  [i \in 1 .. width |-> above[width - i] % kBase]

NamesOf(type, number) ==
  CASE type = "kLogFile" -> {Name("", DigitsOf(number), ".log")}
    [] type = "kTableFile" -> {Name("", DigitsOf(number), suffix) : suffix \in {".ldb", ".sst"}}
    [] type = "kDescriptorFile" -> {Name("MANIFEST-", DigitsOf(number), "")}
    [] type = "kTempFile" -> {Name("", DigitsOf(number), ".dbtmp")}

\* MUTANT of ConsumeDecimalNumber: a number that does not fit wraps.
ConsumeDecimalNumberWrapping(digits) ==
  FoldLeft(LAMBDA v, delta : (v * kBase + delta) % (kMaxUint64 + 1), 0, digits)

(* ConsumeDecimalNumber of at least one digit: -1 for false, when the next *)
(* digit would make it too large.                                          *)
ConsumeDecimalNumber(digits) ==
  LET value[i \in 0 .. Len(digits)] ==
        IF i = 0 THEN 0
        ELSE LET v == value[i - 1]  delta == digits[i]
             IN  IF v = -1 \/ v > kMaxUint64 \div kBase
                    \/ (v = kMaxUint64 \div kBase /\ delta > kMaxUint64 % kBase)
                 THEN -1 ELSE v * kBase + delta
  IN  value[Len(digits)]

ParseFileName(name) ==
  LET number == IF name.digits = <<>> THEN -1 ELSE ConsumeDecimalNumber(name.digits)
      type == CASE name.prefix = "MANIFEST-" /\ name.rest = "" -> "kDescriptorFile"
                [] name.prefix = "" /\ name.rest = ".log" -> "kLogFile"
                [] name.prefix = "" /\ name.rest \in {".sst", ".ldb"} -> "kTableFile"
                [] name.prefix = "" /\ name.rest = ".dbtmp" -> "kTempFile"
                [] OTHER -> "none"
  IN  IF name.prefix \in Unnumbered /\ name.digits = <<>> /\ name.rest = ""
      THEN File(name.prefix, 0)
      ELSE IF type = "none" \/ number = -1 THEN Nothing ELSE File(type, number)
-----------------------------------------------------------------------------
NameInit == fileName = Name("CURRENT", <<>>, "") /\ fileOf = File("CURRENT", 0)

CreateFile(type, number) ==
  /\ fileName' \in NamesOf(type, number)
  /\ fileOf' = File(type, number)

\* a file somebody else left in the directory
FindOther(name) == fileName' = name /\ fileOf' = Nothing

NameNext ==
  \/ \E type \in FileTypes, number \in FileNumbers : CreateFile(type, number)
  \/ \E name \in OtherNames : FindOther(name)
-----------------------------------------------------------------------------
ValueOfDigits(digits) ==
  LET value[i \in 0 .. Len(digits)] == IF i = 0 THEN 0 ELSE value[i - 1] * kBase + digits[i]
  IN  value[Len(digits)]

(* filename.h, "If filename is a leveldb file, store the type of the file  *)
(* in *type": every file made is known again by its name, with its type    *)
(* and number however long, and a name nobody made is not taken for the    *)
(* file of another number, so that cleaning up deletes the right files.    *)
NamesAreKnown ==
  LET parsed == ParseFileName(fileName)
  IN  /\ fileOf # Nothing => parsed = fileOf
      /\ parsed.type \in FileTypes => parsed.number = ValueOfDigits(fileName.digits)
=============================================================================
