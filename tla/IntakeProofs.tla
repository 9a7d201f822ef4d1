---------------------------- MODULE IntakeProofs ----------------------------
(***************************************************************************)
(* Proofs about a submission, for any limits, documents and fields.        *)
(*                                                                         *)
(* The guard's sums are the exact ones until it refuses, because a product *)
(* that saturates and a stream that is cut off are beyond their limit      *)
(* already (Counting). What the decoders yielded is part of the counted    *)
(* sum until it refuses, and one more stream yields at most the limit and  *)
(* a byte. The variables of parse_job say what the body says until the     *)
(* request is refused (Heard).                                             *)
(***************************************************************************)
EXTENDS Intake, TLAPS

Counting ==
    /\ verdict \in {"none", "scanning", "accepted"} =>
           /\ decoded = exactBytes /\ decoded <= MaxDecoded
           /\ unpacked <= decoded
           /\ pixels = exactPixels
    /\ verdict # "decoded" => decoded <= MaxDecoded

Heard == phase # "refused" =>
    /\ IF Said("file") = {} THEN file = None
       ELSE \E i \in Said("file") : Said("file") = {i} /\ body[i].value = file
    /\ LastSaid("mode", mode, None)
    /\ LastSaid("printer_id", printer, None)
    /\ LastSaid("copies", copies, None)

Checked ==
    /\ phase \in {"printer", "guard", "stored"} => FieldsOK
    /\ verdict \in {"scanning", "accepted"} => file = "application/pdf"
    /\ phase \in {"arriving", "fields", "printer"} => verdict = "none"
    /\ phase = "stored" =>
           /\ verdict = "accepted"
           /\ job = [printer |-> StoredPrinter, mode |-> mode, copies |-> CopiesAsked,
                     state |-> IF mode = "preview" THEN "preview_ready" ELSE "queued"]

GuardInv == GuardTypeOK /\ Counting /\ RefusedForCause /\ WorkBounded
IInv == TypeOK /\ GuardInv /\ Heard /\ Checked

USE LimitAssumption, DocumentAssumption, FieldAssumption

LEMMA InitInv == Init => IInv
<1> SUFFICES ASSUME Init PROVE IInv OBVIOUS
<1>1. body \in Seq(FieldType) /\ \A n : Said(n) = {}
  BY DEF Init, Said
<1> QED
  BY <1>1 DEF Init, GuardInit, IInv, TypeOK, GuardTypeOK, GuardInv, Counting, RefusedForCause,
     WorkBounded, Heard, LastSaid, Checked

-----------------------------------------------------------------------------
(* The guard.                                                              *)

ExactPixels(o) ==
    IF o.kind = "image" /\ o.width > 0 /\ o.height > 0 THEN o.width * o.height ELSE 0
ExactBytes(o) == IF o.kind = "other" THEN 0 ELSE IF o.flate THEN o.inflated ELSE o.content

LEMMA PixelsSaturate ==
  ASSUME NEW o \in Objects
  PROVE  /\ ExactPixels(o) \in Nat
         /\ Pixels(o) = IF ExactPixels(o) > Top THEN Top ELSE ExactPixels(o)
<1>1. o.width \in Int /\ o.height \in Int
  BY DEF ObjectType
<1>2. CASE o.kind = "image" /\ o.width > 0 /\ o.height > 0
  <2>1. Dimension(o.width) = o.width /\ Dimension(o.height) = o.height
    BY <1>1, <1>2 DEF Dimension
  <2>2. o.width * o.height \in Nat
    BY <1>1, <1>2
  <2> QED BY <1>2, <2>1, <2>2 DEF Pixels, ExactPixels, Product
<1>3. CASE o.kind = "image" /\ ~(o.width > 0 /\ o.height > 0)
  <2>1. Dimension(o.width) = 0 \/ Dimension(o.height) = 0
    BY <1>1, <1>3 DEF Dimension
  <2>2. Dimension(o.width) \in Nat /\ Dimension(o.height) \in Nat
    BY <1>1 DEF Dimension
  <2>3. Dimension(o.width) * Dimension(o.height) = 0
    BY <2>1, <2>2
  <2> QED BY <1>3, <2>3 DEF Pixels, ExactPixels, Product
<1>4. CASE o.kind # "image"
  BY <1>4 DEF Pixels, ExactPixels
<1> QED BY <1>2, <1>3, <1>4

\* What a decoder yields is the size of its stream or beyond the limit.
LEMMA YieldCutOff ==
  ASSUME NEW o \in Objects, o.kind # "other"
  PROVE  /\ ExactBytes(o) \in Nat /\ Copied(o) \in Nat /\ Yield(o) \in 0..MaxDecoded + 1
         /\ Yield(o) <= Copied(o) /\ Copied(o) <= ExactBytes(o)
         /\ Copied(o) <= MaxDecoded => Copied(o) = ExactBytes(o)
  BY DEF Copied, Yield, ExactBytes, ObjectType

LEMMA OpenKeeps == ASSUME GuardInv, NEW h \in Heads, Open(h) PROVE GuardInv'
  BY DEF GuardInv, GuardTypeOK, Counting, RefusedForCause, WorkBounded, Open, HeadType

LEMMA LookCounts ==
  ASSUME GuardInv, NEW o \in Objects, Look(o)
  PROVE  /\ left' \in Nat /\ exactBytes' \in Nat /\ exactPixels' \in Nat
         /\ exactBytes' = exactBytes + ExactBytes(o)
         /\ exactPixels' = exactPixels + ExactPixels(o)
         /\ verdict = "scanning" /\ decoded = exactBytes /\ pixels = exactPixels
         /\ decoded \in 0..MaxDecoded /\ pixels \in 0..MaxPixels
         /\ unpacked \in Nat /\ unpacked <= decoded
<1>1. ExactBytes(o) \in Nat /\ ExactPixels(o) \in Nat
  BY PixelsSaturate DEF ExactBytes, ObjectType
<1> QED
  BY <1>1 DEF GuardInv, GuardTypeOK, Counting, Look, ExactBytes, ExactPixels

LEMMA ScanKeeps ==
  ASSUME GuardInv, NEW o \in Objects, Skip(o) \/ RefuseImage(o) \/ RefuseStream(o) \/ CountStream(o)
  PROVE  GuardInv'
<1>1. Look(o)
  BY DEF Skip, RefuseImage, RefuseStream, CountStream
<1>2. /\ left' \in Nat /\ exactBytes' \in Nat /\ exactPixels' \in Nat
      /\ exactBytes' = exactBytes + ExactBytes(o)
      /\ exactPixels' = exactPixels + ExactPixels(o)
      /\ verdict = "scanning" /\ decoded = exactBytes /\ pixels = exactPixels
      /\ decoded \in 0..MaxDecoded /\ pixels \in 0..MaxPixels
      /\ unpacked \in Nat /\ unpacked <= decoded
  BY <1>1, LookCounts
<1>3. /\ ExactPixels(o) \in Nat
      /\ Pixels(o) = IF ExactPixels(o) > Top THEN Top ELSE ExactPixels(o)
  BY PixelsSaturate
<1>4. ~TooManyPixels(o) => ExactPixels(o) = Pixels(o) /\ pixels + Pixels(o) \in 0..MaxPixels
  BY <1>2, <1>3 DEF TooManyPixels
<1>5. CASE Skip(o)
  <2>1. ExactPixels(o) = 0 /\ ExactBytes(o) = 0
    BY <1>5 DEF Skip, ExactPixels, ExactBytes
  <2> QED
    BY <1>2, <1>5, <2>1
       DEF Skip, GuardInv, GuardTypeOK, Counting, RefusedForCause, WorkBounded
<1>6. CASE RefuseImage(o)
  <2>1. exactPixels' > MaxPixels
    BY <1>2, <1>3, <1>6 DEF RefuseImage, TooManyPixels
  <2> QED
    BY <1>2, <1>6, <2>1
       DEF RefuseImage, GuardInv, GuardTypeOK, Counting, RefusedForCause, WorkBounded
<1>7. CASE RefuseStream(o)
  <2>1. Yield(o) \in 0..MaxDecoded + 1
    BY <1>7, YieldCutOff DEF RefuseStream
  <2>2. unpacked' \in Nat /\ unpacked' <= 2 * MaxDecoded + 1
    BY <1>2, <1>7, <2>1 DEF RefuseStream
  <2> QED
    BY <1>2, <1>4, <1>7, <2>2
       DEF RefuseStream, GuardInv, GuardTypeOK, Counting, RefusedForCause, WorkBounded
<1>8. CASE CountStream(o)
  <2>1. /\ ExactBytes(o) \in Nat /\ Copied(o) \in Nat /\ Yield(o) \in 0..MaxDecoded + 1
        /\ Yield(o) <= Copied(o) /\ Copied(o) <= ExactBytes(o)
        /\ Copied(o) <= MaxDecoded => Copied(o) = ExactBytes(o)
    BY <1>8, YieldCutOff DEF CountStream
  <2>2. /\ decoded' = IF decoded + Copied(o) > Top THEN decoded ELSE decoded + Copied(o)
        /\ unpacked' = unpacked + Yield(o)
        /\ pixels' = exactPixels' /\ pixels' \in 0..MaxPixels
        /\ verdict' = IF decoded + Copied(o) > MaxDecoded THEN "decoded" ELSE "scanning"
    BY <1>2, <1>4, <1>8 DEF CountStream
  <2>3. decoded' \in 0..Top /\ unpacked' \in Nat /\ unpacked' <= 2 * MaxDecoded + 1
    BY <1>2, <2>1, <2>2
  <2>4. CASE decoded + Copied(o) <= MaxDecoded
    <3>1. /\ verdict' = "scanning" /\ decoded' = decoded + Copied(o)
          /\ decoded' = exactBytes' /\ decoded' <= MaxDecoded /\ unpacked' <= decoded'
      BY <1>2, <2>1, <2>2, <2>4
    <3> QED
      BY <1>2, <2>2, <2>3, <3>1
         DEF GuardInv, GuardTypeOK, Counting, RefusedForCause, WorkBounded
  <2>5. CASE decoded + Copied(o) > MaxDecoded
    <3>1. verdict' = "decoded" /\ exactBytes' > MaxDecoded
      BY <1>2, <2>1, <2>2, <2>5
    <3> QED
      BY <1>2, <2>2, <2>3, <3>1
         DEF GuardInv, GuardTypeOK, Counting, RefusedForCause, WorkBounded
  <2> QED BY <1>2, <2>1, <2>4, <2>5
<1> QED BY <1>5, <1>6, <1>7, <1>8

LEMMA AcceptKeeps == ASSUME GuardInv, Accept PROVE GuardInv'
  BY DEF GuardInv, GuardTypeOK, Counting, RefusedForCause, WorkBounded, Accept, scanVars

LEMMA GuardRests == ASSUME GuardInv, UNCHANGED guardVars PROVE GuardInv'
  BY DEF GuardInv, GuardTypeOK, Counting, RefusedForCause, WorkBounded, guardVars, scanVars

-----------------------------------------------------------------------------
(* The fields.                                                             *)

\* One more field is said last.
LEMMA SaidMore ==
  ASSUME body \in Seq(FieldType), NEW f \in FieldType, body' = Append(body, f)
  PROVE  /\ body' \in Seq(FieldType)
         /\ \A n : /\ n # f.name => Said(n)' = Said(n)
                  /\ Said(f.name)' = Said(f.name) \cup {Len(body) + 1}
         /\ \A n, i : i \in Said(n) => i \in 1..Len(body) /\ body'[i] = body[i]
         /\ body'[Len(body) + 1] = f
<1>1. /\ Len(body) \in Nat /\ DOMAIN body = 1..Len(body) /\ DOMAIN body' = 1..(Len(body) + 1)
      /\ body' \in Seq(FieldType)
      /\ \A i \in 1..Len(body) : body'[i] = body[i]
      /\ body'[Len(body) + 1] = f
  OBVIOUS
<1>2. \A n : Said(n)' = {i \in 1..(Len(body) + 1) : body'[i].name = n}
  BY <1>1 DEF Said
<1>3. \A n : Said(n) = {i \in 1..Len(body) : body[i].name = n}
  BY <1>1 DEF Said
<1>4. ASSUME NEW n, n # f.name PROVE Said(n)' = Said(n)
  <2>1. Said(n)' = {i \in 1..(Len(body) + 1) : body'[i].name = n}
    BY <1>2
  <2>2. Said(n) = {i \in 1..Len(body) : body[i].name = n}
    BY <1>3
  <2>3. \A i \in 1..(Len(body) + 1) : i \in 1..Len(body) \/ i = Len(body) + 1
    BY <1>1
  <2>4. \A i \in 1..Len(body) : i \in 1..(Len(body) + 1)
    BY <1>1
  <2> QED BY <1>1, <1>4, <2>1, <2>2, <2>3, <2>4
<1>5. Said(f.name)' = Said(f.name) \cup {Len(body) + 1}
  BY <1>1, <1>2, <1>3
<1> QED BY <1>1, <1>3, <1>4, <1>5

\* A field leaves what the fields of other names say, and says its own last.
LEMMA LastSaidMore ==
  ASSUME body \in Seq(FieldType), NEW f \in FieldType, body' = Append(body, f)
  PROVE  /\ \A n, v : n # f.name /\ LastSaid(n, v, None) => LastSaid(n, v, None)'
         /\ LastSaid(f.name, f.value, None)'
<1>1. /\ \A n : /\ n # f.name => Said(n)' = Said(n)
               /\ Said(f.name)' = Said(f.name) \cup {Len(body) + 1}
      /\ \A n, i : i \in Said(n) => i \in 1..Len(body) /\ body'[i] = body[i]
      /\ body'[Len(body) + 1] = f
  BY SaidMore
<1>2. ASSUME NEW n, NEW v, n # f.name, LastSaid(n, v, None)
      PROVE  LastSaid(n, v, None)'
  <2>1. Said(n)' = Said(n) /\ \A i \in Said(n) : body'[i] = body[i]
    BY <1>1, <1>2
  <2>2. IF Said(n)' = {} THEN v = None
        ELSE \E i \in Said(n)' : body'[i].value = v /\ \A j \in Said(n)' : j <= i
    BY <1>2, <2>1 DEF LastSaid
  <2> QED BY <2>2 DEF LastSaid
<1>3. LastSaid(f.name, f.value, None)'
  <2>1. Len(body) + 1 \in Said(f.name)' /\ \A j \in Said(f.name)' : j <= Len(body) + 1
    BY <1>1
  <2>2. \E i \in Said(f.name)' : body'[i].value = f.value /\ \A j \in Said(f.name)' : j <= i
    BY <1>1, <2>1
  <2>3. Said(f.name)' # {}
    BY <2>1
  <2> QED BY <2>2, <2>3 DEF LastSaid
<1>4. \A n, v : n # f.name /\ LastSaid(n, v, None) => LastSaid(n, v, None)'
  BY <1>2
<1> QED BY <1>3, <1>4

\* Reading a field keeps the promise about the others, unless it refuses the request.
LEMMA FieldHeard ==
  ASSUME TypeOK, Heard, NEW f \in FieldType, Field(f.name, f.value)
  PROVE  /\ body' \in Seq(FieldType)
         /\ \A n, v : n # f.name /\ LastSaid(n, v, None) => LastSaid(n, v, None)'
         /\ LastSaid(f.name, f.value, None)'
         /\ f.name # "file" /\ file' = file =>
                IF Said("file")' = {} THEN file' = None
                ELSE \E i \in Said("file")' : Said("file")' = {i} /\ body'[i].value = file'
<1>1. body \in Seq(FieldType) /\ body' = Append(body, f)
  BY DEF TypeOK, Field, FieldType
<1>2. /\ body' \in Seq(FieldType)
      /\ "file" # f.name => Said("file")' = Said("file")
      /\ \A i \in Said("file") : body'[i] = body[i]
  BY <1>1, SaidMore
<1>3. phase # "refused"
  BY DEF Field
<1>4. /\ \A n, v : n # f.name /\ LastSaid(n, v, None) => LastSaid(n, v, None)'
      /\ LastSaid(f.name, f.value, None)'
  BY <1>1, LastSaidMore
<1> QED BY <1>2, <1>3, <1>4 DEF Heard

LEMMA FileKeeps ==
  ASSUME IInv, NEW mime \in Mimes, FileField(mime) PROVE IInv'
<1> DEFINE f == [name |-> "file", value |-> mime]
<1>1. f \in FieldType /\ f.name = "file" /\ f.value = mime
  BY DEF FieldType
<1>2. Field(f.name, f.value) /\ body' = Append(body, f)
  BY <1>1 DEF FileField, Field
<1>3. TypeOK /\ Heard /\ phase = "fields" /\ GuardInv'
  BY <1>2, GuardRests DEF IInv, Field
<1>4. /\ body' \in Seq(FieldType)
      /\ \A n, v : n # "file" /\ LastSaid(n, v, None) => LastSaid(n, v, None)'
  BY <1>1, <1>2, <1>3, FieldHeard
<1>5. TypeOK'
  BY <1>3, <1>4 DEF TypeOK, FileField, GuardInv
<1>6. Checked'
  BY <1>3 DEF IInv, Checked, FileField, Field, guardVars
<1>7. ASSUME phase' # "refused"
      PROVE  \E i \in Said("file")' : Said("file")' = {i} /\ body'[i].value = file'
  <2>1. file = None /\ file' = mime
    BY <1>7 DEF FileField, SecondFile
  <2>2. \A i \in Said("file") : body[i].value \in Mimes
    BY <1>3 DEF TypeOK, FieldType, Said
  <2>3. Said("file") = {}
    BY <1>3, <2>1, <2>2 DEF Heard
  <2>4. /\ Said("file")' = Said("file") \cup {Len(body) + 1}
        /\ body'[Len(body) + 1] = f
    BY <1>1, <1>2, <1>3, SaidMore DEF TypeOK
  <2> QED BY <1>1, <2>1, <2>3, <2>4
<1>8. Heard'
  BY <1>3, <1>4, <1>7 DEF Heard, FileField
<1> QED BY <1>3, <1>5, <1>6, <1>8 DEF IInv

LEMMA ModeKeeps ==
  ASSUME IInv, NEW v \in Modes, ModeField(v) PROVE IInv'
<1> DEFINE f == [name |-> "mode", value |-> v]
<1>1. f \in FieldType /\ f.name = "mode" /\ f.value = v
  BY DEF FieldType
<1>2. Field(f.name, f.value) /\ body' = Append(body, f)
  BY <1>1 DEF ModeField, Field
<1>3. TypeOK /\ Heard /\ phase = "fields" /\ GuardInv'
  BY <1>2, GuardRests DEF IInv, Field
<1>4. /\ body' \in Seq(FieldType)
      /\ \A n, w : n # "mode" /\ LastSaid(n, w, None) => LastSaid(n, w, None)'
      /\ LastSaid("mode", v, None)'
      /\ IF Said("file")' = {} THEN file' = None
         ELSE \E i \in Said("file")' : Said("file")' = {i} /\ body'[i].value = file'
  <2>1. file' = file
    BY DEF ModeField
  <2> QED BY <1>1, <1>2, <1>3, <2>1, FieldHeard
<1>5. TypeOK'
  BY <1>3, <1>4 DEF TypeOK, ModeField, GuardInv
<1>6. Checked'
  BY <1>3 DEF IInv, Checked, ModeField, Field, guardVars
<1>7. Heard'
  BY <1>3, <1>4 DEF Heard, ModeField
<1> QED BY <1>3, <1>5, <1>6, <1>7 DEF IInv

LEMMA PrinterKeeps ==
  ASSUME IInv, NEW v \in Printers, PrinterField(v) PROVE IInv'
<1> DEFINE f == [name |-> "printer_id", value |-> v]
<1>1. f \in FieldType /\ f.name = "printer_id" /\ f.value = v
  BY DEF FieldType
<1>2. Field(f.name, f.value) /\ body' = Append(body, f)
  BY <1>1 DEF PrinterField, Field
<1>3. TypeOK /\ Heard /\ phase = "fields" /\ GuardInv'
  BY <1>2, GuardRests DEF IInv, Field
<1>4. /\ body' \in Seq(FieldType)
      /\ \A n, w : n # "printer_id" /\ LastSaid(n, w, None) => LastSaid(n, w, None)'
      /\ LastSaid("printer_id", v, None)'
      /\ IF Said("file")' = {} THEN file' = None
         ELSE \E i \in Said("file")' : Said("file")' = {i} /\ body'[i].value = file'
  <2>1. file' = file
    BY DEF PrinterField
  <2> QED BY <1>1, <1>2, <1>3, <2>1, FieldHeard
<1>5. TypeOK'
  BY <1>3, <1>4 DEF TypeOK, PrinterField, GuardInv
<1>6. Checked'
  BY <1>3 DEF IInv, Checked, PrinterField, Field, guardVars
<1>7. Heard'
  BY <1>3, <1>4 DEF Heard, PrinterField
<1> QED BY <1>3, <1>5, <1>6, <1>7 DEF IInv

LEMMA CopiesKeeps ==
  ASSUME IInv, NEW v \in Counts, CopiesField(v) PROVE IInv'
<1> DEFINE f == [name |-> "copies", value |-> v]
<1>1. f \in FieldType /\ f.name = "copies" /\ f.value = v
  BY DEF FieldType
<1>2. Field(f.name, f.value) /\ body' = Append(body, f)
  BY <1>1 DEF CopiesField, Field
<1>3. TypeOK /\ Heard /\ phase = "fields" /\ GuardInv'
  BY <1>2, GuardRests DEF IInv, Field
<1>4. /\ body' \in Seq(FieldType)
      /\ \A n, w : n # "copies" /\ LastSaid(n, w, None) => LastSaid(n, w, None)'
      /\ LastSaid("copies", v, None)'
      /\ IF Said("file")' = {} THEN file' = None
         ELSE \E i \in Said("file")' : Said("file")' = {i} /\ body'[i].value = file'
  <2>1. file' = file
    BY DEF CopiesField
  <2> QED BY <1>1, <1>2, <1>3, <2>1, FieldHeard
<1>5. TypeOK'
  BY <1>3, <1>4 DEF TypeOK, CopiesField, GuardInv
<1>6. Checked'
  BY <1>3 DEF IInv, Checked, CopiesField, Field, guardVars
<1>7. Heard'
  BY <1>3, <1>4 DEF Heard, CopiesField
<1> QED BY <1>3, <1>5, <1>6, <1>7 DEF IInv

\* The steps that read no field leave what the body says.
LEMMA BodyRests ==
  ASSUME UNCHANGED fieldVars
  PROVE  /\ \A n : Said(n)' = Said(n)
         /\ \A n, v : LastSaid(n, v, None)' <=> LastSaid(n, v, None)
         /\ (phase' # "refused" => phase # "refused") => (Heard => Heard')
<1>1. body' = body /\ file' = file /\ mode' = mode /\ printer' = printer /\ copies' = copies
  BY DEF fieldVars
<1>2. \A n : Said(n)' = Said(n)
  BY <1>1 DEF Said
<1>3. ASSUME NEW n, NEW v PROVE LastSaid(n, v, None)' <=> LastSaid(n, v, None)
  BY <1>1, <1>2 DEF LastSaid
<1>4. (phase' # "refused" => phase # "refused") => (Heard => Heard')
  BY <1>1, <1>2, <1>3 DEF Heard
<1> QED BY <1>2, <1>3, <1>4

\* So it is enough to look at the guard, the phase and the job.
LEMMA RestKeeps ==
  ASSUME IInv, UNCHANGED fieldVars, GuardInv', Checked', phase # "refused",
         phase' \in {"fields", "printer", "guard", "stored", "refused"}
  PROVE  IInv'
<1>1. Heard'
  BY BodyRests DEF IInv
<1>2. TypeOK'
  BY DEF IInv, TypeOK, GuardInv, fieldVars
<1> QED BY <1>1, <1>2 DEF IInv

-----------------------------------------------------------------------------
THEOREM Invariance == Spec => []IInv
<1>1. ASSUME IInv, [Next]_vars PROVE IInv'
  <2> USE <1>1
  <2>1. ASSUME NEW host \in Hosts, NEW websocket \in BOOLEAN, NEW known \in BOOLEAN,
               Admit(host, websocket, known)
        PROVE IInv'
    <3>1. UNCHANGED <<fieldVars, guardVars>>
      BY <2>1 DEF Admit
    <3>2. GuardInv'
      BY <3>1, GuardRests DEF IInv
    <3>3. /\ phase # "refused" /\ phase' \in {"fields", "printer", "guard", "stored", "refused"}
          /\ Checked'
      BY <2>1, <3>1
         DEF IInv, Checked, Admit, FieldsOK, CopiesAsked, PrinterAsked, StoredPrinter, fieldVars,
             guardVars
    <3> QED BY <3>1, <3>2, <3>3, RestKeeps
  <2>2. ASSUME BadField PROVE IInv'
    <3>1. UNCHANGED <<fieldVars, guardVars>>
      BY <2>2 DEF BadField
    <3>2. GuardInv'
      BY <3>1, GuardRests DEF IInv
    <3>3. /\ phase # "refused" /\ phase' \in {"fields", "printer", "guard", "stored", "refused"}
          /\ Checked'
      BY <2>2, <3>1
         DEF IInv, Checked, BadField, FieldsOK, CopiesAsked, PrinterAsked, StoredPrinter, fieldVars,
             guardVars
    <3> QED BY <3>1, <3>2, <3>3, RestKeeps
  <2>3. ASSUME EndOfBody PROVE IInv'
    <3>1. UNCHANGED <<fieldVars, guardVars>>
      BY <2>3 DEF EndOfBody
    <3>2. GuardInv'
      BY <3>1, GuardRests DEF IInv
    <3>3. /\ phase # "refused" /\ phase' \in {"fields", "printer", "guard", "stored", "refused"}
          /\ Checked'
      BY <2>3, <3>1
         DEF IInv, Checked, EndOfBody, FieldsOK, CopiesAsked, PrinterAsked, StoredPrinter, fieldVars,
             guardVars
    <3> QED BY <3>1, <3>2, <3>3, RestKeeps
  <2>4. ASSUME NEW available \in BOOLEAN, CheckPrinter(available)
        PROVE IInv'
    <3>1. UNCHANGED <<fieldVars, guardVars>>
      BY <2>4 DEF CheckPrinter
    <3>2. GuardInv'
      BY <3>1, GuardRests DEF IInv
    <3>3. /\ phase # "refused" /\ phase' \in {"fields", "printer", "guard", "stored", "refused"}
          /\ Checked'
      BY <2>4, <3>1
         DEF IInv, Checked, CheckPrinter, FieldsOK, CopiesAsked, PrinterAsked, StoredPrinter, fieldVars,
             guardVars
    <3> QED BY <3>1, <3>2, <3>3, RestKeeps
  <2>5. ASSUME Guard PROVE IInv'
    <3>1. PICK h \in Heads : h.pdf = (file = "application/pdf") /\ Open(h)
      BY <2>5 DEF Guard
    <3>2. GuardInv' /\ UNCHANGED fieldVars
      BY <2>5, <3>1, OpenKeeps DEF Guard, IInv
    <3>3. phase = "guard" /\ phase' = "guard"
      BY <2>5 DEF Guard
    <3>4. verdict' # "accepted" /\ (verdict' = "scanning" => h.pdf = TRUE)
      BY <3>1 DEF Open, HeadOK, HeadType
    <3>5. Checked'
      BY <3>1, <3>2, <3>3, <3>4
         DEF IInv, Checked, FieldsOK, CopiesAsked, PrinterAsked, fieldVars
    <3> QED BY <3>2, <3>3, <3>5, RestKeeps
  <2>6. ASSUME Scan PROVE IInv'
    <3>1. GuardInv'
      BY <2>6, ScanKeeps, AcceptKeeps DEF Scan, IInv
    <3>2. UNCHANGED fieldVars /\ phase = "guard" /\ phase' = "guard"
      BY <2>6 DEF Scan
    <3>3. verdict = "scanning"
      BY <2>6 DEF Scan, Skip, RefuseImage, RefuseStream, CountStream, Look, Accept
    <3>4. Checked'
      BY <3>2, <3>3 DEF IInv, Checked, FieldsOK, CopiesAsked, PrinterAsked, fieldVars
    <3> QED BY <3>1, <3>2, <3>4, RestKeeps
  <2>7. ASSUME Refuse PROVE IInv'
    <3>1. UNCHANGED <<fieldVars, guardVars>>
      BY <2>7 DEF Refuse
    <3>2. GuardInv'
      BY <3>1, GuardRests DEF IInv
    <3>3. /\ phase # "refused" /\ phase' \in {"fields", "printer", "guard", "stored", "refused"}
          /\ Checked'
      BY <2>7, <3>1
         DEF IInv, Checked, Refuse, FieldsOK, CopiesAsked, PrinterAsked, StoredPrinter, fieldVars,
             guardVars
    <3> QED BY <3>1, <3>2, <3>3, RestKeeps
  <2>8. ASSUME Store PROVE IInv'
    <3>1. UNCHANGED <<fieldVars, guardVars>>
      BY <2>8 DEF Store
    <3>2. GuardInv'
      BY <3>1, GuardRests DEF IInv
    <3>3. /\ phase # "refused" /\ phase' \in {"fields", "printer", "guard", "stored", "refused"}
          /\ Checked'
      BY <2>8, <3>1
         DEF IInv, Checked, Store, FieldsOK, CopiesAsked, PrinterAsked, StoredPrinter, fieldVars,
             guardVars
    <3> QED BY <3>1, <3>2, <3>3, RestKeeps
  <2>9. ASSUME UNCHANGED vars PROVE IInv'
    <3>1. UNCHANGED <<phase, fieldVars, job, guardVars>>
      BY <2>9 DEF vars
    <3>2. GuardInv'
      BY <3>1, GuardRests DEF IInv
    <3>3. TypeOK'
      BY <3>1, <3>2 DEF IInv, TypeOK, GuardInv, fieldVars
    <3>4. Checked'
      BY <3>1 DEF IInv, Checked, FieldsOK, CopiesAsked, PrinterAsked, StoredPrinter, fieldVars,
         guardVars
    <3>5. Heard'
      BY <3>1, BodyRests DEF IInv
    <3> QED BY <3>2, <3>3, <3>4, <3>5 DEF IInv
  <2> QED
    BY <1>1, <2>1, <2>2, <2>3, <2>4, <2>5, <2>6, <2>7, <2>8, <2>9, FileKeeps, ModeKeeps,
       PrinterKeeps, CopiesKeeps DEF Next, ReadField
<1> QED BY <1>1, InitInv, PTL DEF Spec

\* Every variable of a submission keeps its type.
THEOREM TypeCorrectness == Spec => []TypeOK
<1>1. IInv => TypeOK BY DEF IInv
<1> QED BY <1>1, Invariance, PTL

\* Whatever its numbers, an accepted document keeps the limits in exact arithmetic.
THEOREM AcceptedKeepsLimits == Spec => []AcceptedWithinLimits
<1>1. IInv => AcceptedWithinLimits
  BY DEF IInv, GuardInv, GuardTypeOK, Counting, AcceptedWithinLimits
<1> QED BY <1>1, Invariance, PTL

\* Only a document that exceeds a limit is refused for it.
THEOREM RefusalHasCause == Spec => []RefusedForCause
<1>1. IInv => RefusedForCause BY DEF IInv, GuardInv
<1> QED BY <1>1, Invariance, PTL

\* The decoders of the scan never yield more than twice the limit and a byte, for documents of
\* any content: its length is not assumed to be within any limit of the guard.
THEOREM ScanIsBounded == Spec => []WorkBounded
<1>1. IInv => WorkBounded BY DEF IInv, GuardInv
<1> QED BY <1>1, Invariance, PTL

\* The stored job is what the body as a whole asks for.
THEOREM StoresWhatWasAsked == Spec => []StoredAsAsked
<1>1. ASSUME IInv, phase = "stored" PROVE StoredAsAsked
  <2>1. /\ FieldsOK /\ file = "application/pdf"
        /\ job = [printer |-> StoredPrinter, mode |-> mode, copies |-> CopiesAsked,
                  state |-> IF mode = "preview" THEN "preview_ready" ELSE "queued"]
    BY <1>1 DEF IInv, Checked
  <2>2. /\ \E i \in Said("file") : Said("file") = {i} /\ body[i].value = "application/pdf"
        /\ LastSaid("mode", mode, None)
        /\ LastSaid("printer_id", printer, None)
        /\ LastSaid("copies", copies, None)
    BY <1>1, <2>1 DEF IInv, Heard, TypeOK, FieldAssumption, Mimes
  <2>3. \A i \in Said("printer_id") : body[i].value # None
    BY <1>1 DEF IInv, TypeOK, FieldType, Said
  <2>4. \A i \in Said("copies") : body[i].value # None
    BY <1>1 DEF IInv, TypeOK, FieldType, Said
  <2>5. LastSaid("printer_id", PrinterAsked, "capture:pdf")
    BY <2>2, <2>3 DEF LastSaid, PrinterAsked
  <2>6. LastSaid("copies", CopiesAsked, 1)
    BY <2>2, <2>4 DEF LastSaid, CopiesAsked
  <2> QED BY <2>1, <2>2, <2>5, <2>6 DEF StoredAsAsked, FieldsOK, StoredPrinter
<1>2. IInv => StoredAsAsked
  BY <1>1 DEF StoredAsAsked
<1> QED BY <1>2, Invariance, PTL
=============================================================================
