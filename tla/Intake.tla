------------------------------- MODULE Intake -------------------------------
(***************************************************************************)
(* One POST /v1/jobs from its headers to the row it inserts: the checks of *)
(* the middleware and of the handler, the multipart fields in the order in *)
(* which they arrive, the printer, the PDF guard, and the columns of the   *)
(* job. What happens to the file and to the row is in JobQueue.            *)
(***************************************************************************)
EXTENDS PdfGuard, Sequences

CONSTANTS
    Hosts,       \* values of the Host header, or of none
    Loopback,    \* those that name the loopback interface and the port
    Modes,       \* texts sent for the mode; a text may be TooLong for its field
    Printers,    \* texts sent for printer_id
    Counts,      \* numbers sent for copies; -1 is no number
    TooLong,
    None,        \* an Option that is None
    MaxFields    \* bound: fields in a request

\* The Content-Type of a file, or that it has none.
Mimes == {"application/pdf", "other", "untyped"}

ASSUME FieldAssumption ==
    /\ Loopback \subseteq Hosts /\ MaxFields \in Nat
    /\ None \notin Modes /\ None \notin Printers /\ None \notin Counts /\ None \notin Mimes

VARIABLES
    phase,       \* of the request
    body,        \* the fields so far; none is read twice, and the code keeps what follows
    file,        \* the MIME type of the file, once it is there
    mode, printer, copies,  \* the text fields, once they are there
    job          \* the columns of the inserted row

fieldVars == <<body, file, mode, printer, copies>>
vars == <<phase, fieldVars, job, guardVars>>

Init ==
    /\ phase = "arriving"
    /\ body = <<>>
    /\ file = None /\ mode = None /\ printer = None /\ copies = None
    /\ job = None
    /\ GuardInit

\* security_headers and authenticate, before the body is read.
Admit(host, websocket, known) ==
    /\ phase = "arriving"
    /\ phase' = IF host \in Loopback /\ ~websocket /\ known THEN "fields" ELSE "refused"
    /\ UNCHANGED <<fieldVars, job, guardVars>>

-----------------------------------------------------------------------------
(* parse_job.                                                              *)

FieldType ==
    [name : {"file"}, value : Mimes] \cup [name : {"mode"}, value : Modes]
    \cup [name : {"printer_id"}, value : Printers] \cup [name : {"copies"}, value : Counts]

Field(name, value) ==
    /\ phase = "fields" /\ Len(body) < MaxFields
    /\ body' = Append(body, [name |-> name, value |-> value])
    /\ UNCHANGED <<job, guardVars>>

\* Broken: a second file replaces the first.
SecondFile_Replaces == FALSE

SecondFile == file # None

FileField(mime) ==
    /\ Field("file", mime)
    /\ IF SecondFile THEN phase' = "refused" /\ UNCHANGED file
                     ELSE file' = mime /\ UNCHANGED phase
    /\ UNCHANGED <<mode, printer, copies>>

ModeField(text) ==
    /\ Field("mode", text)
    /\ IF text = TooLong THEN phase' = "refused" /\ UNCHANGED mode
                         ELSE mode' = text /\ UNCHANGED phase
    /\ UNCHANGED <<file, printer, copies>>

PrinterField(text) ==
    /\ Field("printer_id", text)
    /\ IF text = TooLong THEN phase' = "refused" /\ UNCHANGED printer
                         ELSE printer' = text /\ UNCHANGED phase
    /\ UNCHANGED <<file, mode, copies>>

\* At most three characters, parsed as a u8.
CopiesField(n) ==
    /\ Field("copies", n)
    /\ IF n \notin 0..255 THEN phase' = "refused" /\ UNCHANGED copies
                          ELSE copies' = n /\ UNCHANGED phase
    /\ UNCHANGED <<file, mode, printer>>

\* A field of another name or of none, or a body that is broken or too large.
BadField ==
    /\ phase = "fields"
    /\ phase' = "refused"
    /\ UNCHANGED <<fieldVars, job, guardVars>>

CopiesAsked == IF copies = None THEN 1 ELSE copies
PrinterAsked == IF printer = None THEN "capture:pdf" ELSE printer

FieldsOK ==
    /\ mode \in {"preview", "print"}
    /\ CopiesAsked \in 1..10
    /\ mode = "print" => PrinterAsked # ""
    /\ file \notin {None, "untyped"}

EndOfBody ==
    /\ phase = "fields"
    /\ phase' = IF ~FieldsOK THEN "refused" ELSE IF mode = "print" THEN "printer" ELSE "guard"
    /\ UNCHANGED <<fieldVars, job, guardVars>>

-----------------------------------------------------------------------------
(* The rest of create_job.                                                 *)

\* printer_exists asks the operating system.
CheckPrinter(available) ==
    /\ phase = "printer"
    /\ phase' = IF available THEN "guard" ELSE "refused"
    /\ UNCHANGED <<fieldVars, job, guardVars>>

Guard ==
    /\ phase = "guard"
    /\ \E h \in Heads : h.pdf = (file = "application/pdf") /\ Open(h)
    /\ UNCHANGED <<phase, fieldVars, job>>

Scan ==
    /\ phase = "guard"
    /\ \/ \E o \in Objects : Skip(o) \/ RefuseImage(o) \/ RefuseStream(o) \/ CountStream(o)
       \/ Accept
    /\ UNCHANGED <<phase, fieldVars, job>>

Refuse ==
    /\ phase = "guard" /\ verdict \notin {"none", "scanning", "accepted"}
    /\ phase' = "refused"
    /\ UNCHANGED <<fieldVars, job, guardVars>>

StoredPrinter == IF mode = "preview" THEN "capture:pdf" ELSE PrinterAsked

Store ==
    /\ phase = "guard" /\ verdict = "accepted"
    /\ phase' = "stored"
    /\ job' = [printer |-> StoredPrinter, mode |-> mode, copies |-> CopiesAsked,
               state |-> IF mode = "preview" THEN "preview_ready" ELSE "queued"]
    /\ UNCHANGED <<fieldVars, guardVars>>

-----------------------------------------------------------------------------
ReadField ==
    \/ \E mime \in Mimes : FileField(mime)
    \/ \E text \in Modes : ModeField(text)
    \/ \E text \in Printers : PrinterField(text)
    \/ \E n \in Counts : CopiesField(n)
    \/ BadField \/ EndOfBody

Next ==
    \/ \E host \in Hosts, websocket, known \in BOOLEAN : Admit(host, websocket, known)
    \/ ReadField
    \/ \E available \in BOOLEAN : CheckPrinter(available)
    \/ Guard \/ Scan \/ Refuse \/ Store

Spec == Init /\ [][Next]_vars

-----------------------------------------------------------------------------
\* The shape of a request, of its fields and of the guard's sums.
TypeOK ==
    /\ phase \in {"arriving", "fields", "printer", "guard", "stored", "refused"}
    /\ body \in Seq(FieldType)
    /\ file \in Mimes \cup {None}
    /\ mode \in (Modes \ {TooLong}) \cup {None}
    /\ printer \in (Printers \ {TooLong}) \cup {None}
    /\ copies \in 0..255 \cup {None}
    /\ GuardTypeOK

\* Where the body gives a value to a field.
Said(name) == {i \in DOMAIN body : body[i].name = name}

\* v is what the last field of that name says, or the default if there is none.
LastSaid(name, v, default) ==
    IF Said(name) = {} THEN v = default
    ELSE \E i \in Said(name) : body[i].value = v /\ \A j \in Said(name) : j <= i

\* The job is what the body says as a whole, in whatever order its fields come and
\* however often they are repeated: one PDF, the last mode, printer and copies, and
\* nothing but the capture for a preview.
StoredAsAsked == phase = "stored" =>
    /\ \E i \in Said("file") : Said("file") = {i} /\ body[i].value = "application/pdf"
    /\ LastSaid("mode", job.mode, None) /\ job.mode \in {"preview", "print"}
    /\ LastSaid("copies", job.copies, 1) /\ job.copies \in 1..10
    /\ IF job.mode = "preview"
       THEN job.printer = "capture:pdf" /\ job.state = "preview_ready"
       ELSE LastSaid("printer_id", job.printer, "capture:pdf") /\ job.state = "queued"
=============================================================================
